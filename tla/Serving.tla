-------------------------------- MODULE Serving --------------------------------
(***************************************************************************)
(* What plain requests and streams of one gateway process share: the       *)
(* candidate lists of its configuration, the store, and whether a write to *)
(* it may raise (gateway/service.py).                                      *)
(***************************************************************************)
EXTENDS Routing

CONSTANTS
    Routes,      \* the candidate lists build_candidates may return
    Needs,       \* the capability sets requests may ask for
    StoreFaults  \* TRUE: a write to the store may raise

ASSUME ServingAssumption ==
    /\ Routes \subseteq Seq(Candidate)
    /\ Needs \subseteq SUBSET Capabilities
    /\ StoreFaults \in BOOLEAN

VARIABLE store  \* the state store

\* The candidate that a request or stream r is at.
Current(r) == r.route[r.current]

=============================================================================
