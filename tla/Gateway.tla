------------------------------- MODULE Gateway -------------------------------
(***************************************************************************)
(* The gateway process: plain requests through the fallback engine and     *)
(* streams through the selection loop of chat_stream, at the same time and *)
(* over one state store (gateway/service.py, gateway/api/openai.py).       *)
(*                                                                         *)
(* The two paths never call each other.  They share the store, the routes  *)
(* and the life of the process; each repeats for itself the checks that    *)
(* are to protect the other.                                               *)
(***************************************************************************)
EXTENDS FallbackEngine, ChatStream

gatewayVars == <<store, req, hist, stream>>

GatewayInit == Init /\ StreamInit

-----------------------------------------------------------------------------
(* Steps of one request leave all others alone, but for the store.          *)

\* POST /chat/completions without "stream", and what an upstream call ends in.
ChatStep(s) ==
    /\ Reject(s) \/ Start(s) \/ Respond(s)
    /\ UNCHANGED stream

\* POST /chat/completions with "stream", and the events of one stream.
StreamStep(s) ==
    /\ OpenStream(s) \/ Refuse(s) \/ Disconnect(s) \/ Proceed(s)
    /\ UNCHANGED <<req, hist>>

\* The clock goes on for everybody.
GatewayTick ==
    /\ Tick
    /\ UNCHANGED stream

\* All streams break off when the process dies.
StreamsLost == stream' = [s \in StreamSlots |-> Quiet]

\* The process dies, at rest or after the state write of a plain request.
GatewayCrash ==
    /\ Crash \/ \E s \in Slots : CrashAfterWrite(s)
    /\ StreamsLost

\* The process dies after the state write of a stream, before its event.
CrashInStream(s) ==
    /\ Crashes
    /\ Selecting(s)
    /\ \E class \in StreamErrors :
          store' = ApplyFailure(store, Current(stream[s]), class)
    /\ req' = [t \in Slots |-> Idle]
    /\ hist' = [t \in Slots |-> NoHistory]
    /\ StreamsLost

GatewayNext ==
    \/ \E s \in Slots : ChatStep(s)
    \/ \E s \in StreamSlots : StreamStep(s) \/ CrashInStream(s)
    \/ GatewayCrash
    \/ GatewayTick

GatewaySpec == GatewayInit /\ [][GatewayNext]_gatewayVars

-----------------------------------------------------------------------------
(* Properties.  Those of the two paths are checked with streams, requests,  *)
(* faults and crashes around them.                                          *)

\* Neither path gives a request up early: each candidate was attempted, or was
\* not gated in, or was ineligible at one of the request's own steps.
NothingGivenUpEarly == NobodyForgotten /\ NobodyPassedOver

\* Either path calls a candidate for the first time only when it is eligible in
\* the store as the failures reported by both paths have left it.
FirstCallsAreEligible == FreshIsEligible /\ CallsAreEligible

\* The candidates whose upstream call is open before the step, or is answered by
\* it: a stream that has been selected no longer writes state.
InFlight ==
    {d \in Routed :
        \/ \E s \in Slots : Attempted(s, d)
        \/ \E s \in StreamSlots : Selecting(s) /\ Current(stream[s]) = d}

\* Isolation of scopes between the paths: a candidate becomes ineligible only
\* while an upstream call to its own provider is open on one of them; when the
\* health table stays as it is, only the key of such a call is lost.
LossIsLocal ==
    [][\A c \in Routed : Eligible(store, c) /\ ~Eligible(store', c) =>
          \E d \in InFlight :
             /\ d.provider = c.provider
             /\ store'.health = store.health => d.key = c.key]_gatewayVars

\* A candidate that is DOWN, EXHAUSTED or refused comes back only through a call
\* that is open: a late answer of its own model overwrites the mark, or a late rate
\* limit of its own key and model hides it.  (That a first call was not made after
\* the mark is what FirstCallsAreEligible says.)  Neither the clock, nor a restart,
\* nor another key or model brings it back.
ComesBack ==
    [][\A c \in Routed : ~Usable(store, c) /\ Usable(store', c) =>
          \E d \in InFlight :
             /\ d.provider = c.provider
             /\ d.model = c.model
             /\ store'.quota # store.quota => d.key = c.key]_gatewayVars

=============================================================================
