----------------------------- MODULE StreamClaims -----------------------------
(***************************************************************************)
(* What documents and comments of the repository say of streaming requests *)
(* and what their code does not do.  Each is checked by a run that expects *)
(* a counterexample.                                                       *)
(***************************************************************************)
EXTENDS ChatStream

\* The route event that this step adds for slot s, if any.
NewEvents(s) == {stream'[s].log[n] : n \in DOMAIN stream'[s].log \ DOMAIN stream[s].log}

\* service.py:8: a failure before the first chunk falls back transparently, so no
\* stream aborts while an eligible candidate has not been attempted.
AbortsOnlyAtTheEnd ==
    [][\A s \in StreamSlots : LET r == stream'[s] IN
          (r # stream[s] /\ r.phase = "aborted")
             => \A i \in r.pending : ~Eligible(store', r.route[i])]_streamVars

\* gemini.py:5: stream is implemented, so an upstream that sent text and closed
\* cleanly has not failed.
TextIsDelivered ==
    [][\A s \in StreamSlots :
          (/\ stream[s].phase = "selecting"
           /\ \E n \in DOMAIN stream[s].produced : stream[s].produced[n].kind = "message")
             => \A e \in NewEvents(s) : e.action = "success" \/ e.class # "server"]_streamVars

=============================================================================
