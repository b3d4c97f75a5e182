---------------------------- MODULE StreamPromise ----------------------------
(***************************************************************************)
(* What a streaming client is promised (docs/SPEC.md section 3, the commit *)
(* semantics), with no upstreams, candidates or buffers in it.  A client   *)
(* sees events of one upstream attempt at most.  Before the first piece of *)
(* text the request may still end in an error event; after it, it ends     *)
(* complete, or truncated and without a [DONE] marker.  An exception of    *)
(* the gateway itself breaks the response off at any point.                *)
(***************************************************************************)
CONSTANTS
    Clients,
    Attempts  \* numbers of the upstream attempts of one request

VARIABLE view  \* view[c]: what client c has seen of its latest request

Verdict == {"open", "complete", "truncated", "error", "aborted", "gone"}

View == [sources : SUBSET Attempts,  \* attempts that the events it got came from
         text    : BOOLEAN,          \* it got a substantive chunk
         verdict : Verdict]

Nothing == [sources |-> {}, text |-> FALSE, verdict |-> "gone"]

Init == view = [c \in Clients |-> Nothing]

IsOpen(c) == view[c].verdict = "open"

\* A new request, which may be refused at once.
Ask(c) ==
    /\ ~IsOpen(c)
    /\ \E verdict \in {"open", "error", "aborted"} :
          view' = [view EXCEPT ![c] = [Nothing EXCEPT !.verdict = verdict]]

\* One more event of the one attempt that feeds the client.
Give(c) ==
    /\ IsOpen(c)
    /\ \E attempt \in Attempts, text \in BOOLEAN :
          /\ view[c].sources \subseteq {attempt}
          /\ view' = [view EXCEPT ![c].sources = {attempt}, ![c].text = @ \/ text]

\* The end of the upstream's stream; [DONE] itself is its last event.
Complete(c) ==
    /\ IsOpen(c)
    /\ \E attempt \in Attempts :
          /\ view[c].sources \subseteq {attempt}
          /\ view' = [view EXCEPT ![c].sources = {attempt}, ![c].verdict = "complete"]

Truncate(c) ==
    /\ IsOpen(c)
    /\ view[c].text
    /\ view' = [view EXCEPT ![c].verdict = "truncated"]

\* An error event: only when no text has been given yet.
Refuse(c) ==
    /\ IsOpen(c)
    /\ ~view[c].text
    /\ view' = [view EXCEPT ![c].verdict = "error"]

\* A broken response: no [DONE], no error event.
Break(c) ==
    /\ IsOpen(c)
    /\ view' = [view EXCEPT ![c].verdict = "aborted"]

Leave(c) ==
    /\ IsOpen(c)
    /\ view' = [view EXCEPT ![c].verdict = "gone"]

Next ==
    \E c \in Clients :
       \/ Ask(c) \/ Give(c) \/ Complete(c) \/ Truncate(c)
       \/ Refuse(c) \/ Break(c) \/ Leave(c)

Spec == Init /\ [][Next]_view

=============================================================================
