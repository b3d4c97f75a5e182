---------------------------- MODULE RequestPromise ----------------------------
(***************************************************************************)
(* What a plain request is promised (docs/SPEC.md section 3 and            *)
(* gateway/policy/retry_policy.py), with no store, classes or counters in  *)
(* it.  Candidates are called one after the other.  A candidate that has   *)
(* been left is never called again, the one in hand at most RetryLimit     *)
(* times more, and no candidate is called once the request has ended.      *)
(***************************************************************************)
EXTENDS Naturals

CONSTANTS
    Clients,
    Positions,  \* the positions of candidates in the routes there are
    RetryLimit  \* how often a candidate may be called again

VARIABLE view  \* view[c]: what has been done for the latest request of client c

\* now and again describe the call in hand; they are 0 when there is none.
View == [verdict : {"none", "open", "answered", "failed"},
         called  : SUBSET Positions,
         now     : Positions \cup {0},
         again   : Nat]

Nothing == [verdict |-> "none", called |-> {}, now |-> 0, again |-> 0]

Init == view = [c \in Clients |-> Nothing]

IsOpen(c) == view[c].verdict = "open"

\* The view of a request v that calls candidate i for the first time.
Calling(v, i) == [verdict |-> "open", called |-> v.called \cup {i}, now |-> i, again |-> 0]

\* A new request, which calls a first candidate or fails at once.
Ask(c) ==
    /\ ~IsOpen(c)
    /\ \/ \E i \in Positions : view' = [view EXCEPT ![c] = Calling(Nothing, i)]
       \/ view' = [view EXCEPT ![c] = [Nothing EXCEPT !.verdict = "failed"]]

\* The candidate in hand is left for one that has not been called.
CallOther(c) ==
    /\ IsOpen(c)
    /\ \E i \in Positions \ view[c].called : view' = [view EXCEPT ![c] = Calling(view[c], i)]

CallAgain(c) ==
    /\ IsOpen(c)
    /\ view[c].again < RetryLimit
    /\ view' = [view EXCEPT ![c].again = @ + 1]

End(c) ==
    /\ IsOpen(c)
    /\ \E verdict \in {"answered", "failed"} :
          view' = [view EXCEPT ![c] = [@ EXCEPT !.verdict = verdict, !.now = 0, !.again = 0]]

\* The process dies and takes all requests with it.
Lost == view' = [c \in Clients |-> Nothing]

Next ==
    \/ \E c \in Clients : Ask(c) \/ CallOther(c) \/ CallAgain(c) \/ End(c)
    \/ Lost

Spec == Init /\ [][Next]_view

=============================================================================
