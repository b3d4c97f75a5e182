------------------------- MODULE CodexExecutorProofs -------------------------
(***************************************************************************)
(* Theorems about the Codex executor, for any number of calls and bounds.  *)
(***************************************************************************)
EXTENDS CodexExecutor, RoutingProofs, FiniteSetTheorems, TLAPS

-----------------------------------------------------------------------------
(* Type correctness.                                                        *)

\* The four outcomes that a call of the executor can have.
LEMMA OutcomeType ==
    ASSUME NEW result, NEW events
    PROVE  OutcomesOf(result, events) \subseteq {"success", "network", "server", "breach"}
  BY DEF OutcomesOf

\* Whatever a call came to, the state written is a store.
LEMMA AppliedType ==
    ASSUME store \in Store, NEW result, NEW events, NEW outcome \in OutcomesOf(result, events)
    PROVE  Applied(outcome) \in Store
  <1>1. Cli \in Candidate
    BY ExecutorAssumption
  <1>2. ApplySuccess(store, Cli) \in Store
    BY <1>1, ApplySuccessType
  <1>3. ApplyFailure(store, Cli, "server") \in Store /\ ApplyFailure(store, Cli, "network") \in Store
    BY <1>1, ApplyFailureType DEF ErrorClass
  <1> QED  BY <1>2, <1>3, OutcomeType DEF Applied

\* The condition of TypeOK on running calls, as a set of calls.
SoundCall == {r \in Call : r.running => ~r.removed /\ r.result = "none"}

\* TypeOK without reference to the slots that are running.
TypeInv ==
    /\ store \in Store
    /\ call \in [Slots -> SoundCall]
    /\ strays \in Nat
    /\ litter \in Nat

\* TypeInv is TypeOK.
LEMMA TypeInvIsTypeOK == TypeInv => TypeOK
  BY DEF TypeInv, TypeOK, SoundCall, Running

\* A call that is left has ended, in one of the two ways, and is written down.
LEMMA LeaveType ==
    ASSUME TypeInv, NEW s \in Slots, NEW r \in Call, r.result \in Result, Leave(s, r)
    PROVE  store' \in Store /\ call' \in [Slots -> SoundCall] /\ litter' \in Nat
  <1> DEFINE removed == [r EXCEPT !.running = FALSE, !.removed = TRUE]
             failed  == [r EXCEPT !.running = FALSE, !.result = "exception"]
  <1>1. removed \in SoundCall /\ failed \in SoundCall
    BY DEF SoundCall, Call, Result
  <1> HIDE DEF removed, failed
  <1>2. CASE Returns(s, removed) /\ UNCHANGED litter
    BY <1>1, <1>2, AppliedType DEF TypeInv, Returns
  <1>3. CASE Returns(s, failed) /\ litter' = litter + 1
    BY <1>1, <1>3, AppliedType DEF TypeInv, Returns
  <1> QED  BY <1>2, <1>3 DEF Leave, removed, failed

\* What the events of a subprocess come to is a result.
LEMMA VerdictType ==
    ASSUME NEW events, NEW status
    PROVE  Verdict(events, status) \in Result
  BY DEF Verdict, Result

\* There are finitely many calls running.
LEMMA RunningType == Cardinality(Running) \in Nat
  <1>1. Running \subseteq Slots
    BY DEF Running
  <1> QED  BY <1>1, ExecutorAssumption, FS_Subset, FS_CardinalityType

\* An idle slot is a call.
LEMMA IdleType ==
    /\ Idle \in SoundCall /\ Idle \in Call
    /\ ~Idle.running /\ Idle.result = "none" /\ Idle.status = "none"
  BY DEF Idle, SoundCall, Call, Result

\* The initial state has its type.
LEMMA InitType == Init => TypeInv
  BY IdleType, EmptyStoreType DEF Init, TypeInv

\* Every step keeps the type.
LEMMA TypeStep == TypeInv /\ [Next]_vars => TypeInv'
  <1> SUFFICES ASSUME TypeInv, [Next]_vars PROVE TypeInv'
    OBVIOUS
  <1>1. ASSUME NEW s \in Slots, NotStarted(s) PROVE TypeInv'
    <2>1. strays' \in Nat
      BY <1>1 DEF NotStarted, TypeInv
    <2>2. CASE Returns(s, [Idle EXCEPT !.result = "empty prompt"]) /\ UNCHANGED litter
      <3>1. [Idle EXCEPT !.result = "empty prompt"] \in SoundCall
        BY IdleType DEF SoundCall, Call, Result
      <3> QED  BY <2>1, <2>2, <3>1, AppliedType DEF TypeInv, Returns
    <2>3. ASSUME NEW result \in {"AdapterError", "not installed", "exception"},
                 Leave(s, [Idle EXCEPT !.result = result, !.removed = FALSE])
          PROVE  TypeInv'
      <3>1. /\ [Idle EXCEPT !.result = result, !.removed = FALSE] \in Call
            /\ [Idle EXCEPT !.result = result, !.removed = FALSE].result \in Result
        BY IdleType DEF Call, Result
      <3> QED  BY <2>1, <2>3, <3>1, LeaveType DEF TypeInv
    <2> QED  BY <1>1, <2>2, <2>3 DEF NotStarted
  <1>2. ASSUME NEW s \in Slots, Start(s) PROVE TypeInv'
    <2>1. [Idle EXCEPT !.running = TRUE, !.removed = FALSE] \in SoundCall
      BY IdleType DEF SoundCall, Call
    <2> QED  BY <1>2, <2>1 DEF Start, TypeInv
  <1>3. ASSUME NEW s \in Slots, Emit(s) PROVE TypeInv'
    <2>1. PICK event \in Event : call' = [call EXCEPT ![s].events = Append(@, event)]
      BY <1>3 DEF Emit
    <2>2. call[s] \in SoundCall
      BY DEF TypeInv
    <2>3. [call[s] EXCEPT !.events = Append(@, event)] \in SoundCall
      BY <2>2 DEF SoundCall, Call
    <2>4. call' = [call EXCEPT ![s] = [call[s] EXCEPT !.events = Append(@, event)]]
      BY <2>1 DEF TypeInv
    <2> QED  BY <1>3, <2>3, <2>4 DEF Emit, TypeInv
  <1>4. ASSUME NEW s \in Slots, Exit(s) PROVE TypeInv'
    <2>1. PICK status \in {"zero", "nonzero"} :
             Leave(s, [call[s] EXCEPT !.status = status, !.result = Verdict(call[s].events, status)])
      BY <1>4 DEF Exit
    <2> DEFINE r == [call[s] EXCEPT !.status = status, !.result = Verdict(call[s].events, status)]
    <2>2. call[s] \in Call
      BY DEF TypeInv, SoundCall
    <2>3. r \in Call /\ r.result \in Result
      BY <2>2, VerdictType DEF Call
    <2> HIDE DEF r
    <2>4. Leave(s, r)
      BY <2>1 DEF r
    <2> QED  BY <1>4, <2>3, <2>4, LeaveType DEF Exit, TypeInv
  <1>5. ASSUME NEW s \in Slots, TimeOut(s) PROVE TypeInv'
    <2> DEFINE r == [call[s] EXCEPT !.result = "timed out"]
    <2>1. call[s] \in Call
      BY DEF TypeInv, SoundCall
    <2>2. r \in Call /\ r.result \in Result
      BY <2>1 DEF Call, Result
    <2> HIDE DEF r
    <2>3. Leave(s, r) /\ strays' = strays + 1
      BY <1>5 DEF TimeOut, r
    <2> QED  BY <2>2, <2>3, LeaveType DEF TypeInv
  <1>6. CASE StrayEnds
    BY <1>6 DEF StrayEnds, TypeInv
  <1>7. CASE Crash
    BY <1>7, RunningType, IdleType DEF Crash, TypeInv
  <1>8. CASE Tick
    BY <1>8, AgeType DEF Tick, TypeInv
  <1>9. CASE UNCHANGED vars
    BY <1>9 DEF vars, TypeInv
  <1> QED  BY <1>1, <1>2, <1>3, <1>4, <1>5, <1>6, <1>7, <1>8, <1>9 DEF Next

\* Every reachable state has its type, and a running call has a workspace and no
\* result yet.
THEOREM TypeCorrect == Spec => []TypeOK
  <1>1. Spec => []TypeInv
    BY InitType, TypeStep, PTL DEF Spec
  <1> QED  BY <1>1, TypeInvIsTypeOK, PTL

-----------------------------------------------------------------------------
(* The executor is never out for good.                                      *)

\* No row of either table takes anything out; only cooldowns do.
NothingLasting ==
    /\ \A h \in HealthScope : store.health[h].state # "DOWN"
    /\ \A q \in QuotaScope : store.quota[q].state # "EXHAUSTED"

\* The rows that the executor's calls write never take anything out.
LEMMA AppliedKeepsNothingLasting ==
    ASSUME TypeInv, NothingLasting, NEW result, NEW events,
           NEW outcome \in OutcomesOf(result, events), store' = Applied(outcome)
    PROVE  NothingLasting'
  <1>1. \E h \in HealthScope, state \in {"HEALTHY", "DEGRADED"}, ticks \in Nat :
           store' = [store EXCEPT !.health[h] = [state |-> state, left |-> ticks]]
    <2>1. /\ <<Cli.provider, Cli.model>> \in HealthScope
          /\ <<Cli.provider, NoModel>> \in HealthScope
      BY ExecutorAssumption DEF Candidate, HealthScope
    <2>2. CASE outcome = "success"
      BY <2>1, <2>2 DEF Applied, ApplySuccess, SetHealth
    <2>3. CASE outcome \in {"breach", "server"}
      <3>1. store' = SetHealth(store, Cli.provider, NoModel, "DEGRADED", ServerCooldown)
        BY <2>3 DEF Applied, ApplyFailure
      <3> QED  BY <2>1, <3>1, PolicyAssumption DEF SetHealth
    <2>4. CASE outcome = "network"
      <3>1. store' = SetHealth(store, Cli.provider, NoModel, "DEGRADED", NetworkCooldown)
        BY <2>4 DEF Applied, ApplyFailure
      <3> QED  BY <2>1, <3>1, PolicyAssumption DEF SetHealth
    <2> QED  BY <2>2, <2>3, <2>4, OutcomeType
  <1>2. store \in Store
    BY DEF TypeInv
  <1> QED  BY <1>1, <1>2 DEF NothingLasting, Store

\* Every step keeps it.
LEMMA NothingLastingStep == TypeInv /\ NothingLasting /\ [Next]_vars => NothingLasting'
  <1> SUFFICES ASSUME TypeInv, NothingLasting, [Next]_vars PROVE NothingLasting'
    OBVIOUS
  <1>1. ASSUME NEW s, NEW r, Returns(s, r) PROVE NothingLasting'
    BY <1>1, AppliedKeepsNothingLasting DEF Returns
  <1>2. ASSUME NEW s, NEW r, Leave(s, r) PROVE NothingLasting'
    BY <1>1, <1>2 DEF Leave
  <1>3. ASSUME NEW s \in Slots, NotStarted(s) \/ Exit(s) \/ TimeOut(s) PROVE NothingLasting'
    BY <1>1, <1>2, <1>3 DEF NotStarted, Exit, TimeOut
  <1>4. CASE UNCHANGED store
    BY <1>4 DEF NothingLasting
  <1>5. CASE Tick
    <2>1. \A row : Older(row).state = row.state
      BY DEF Older
    <2> QED  BY <1>5, <2>1 DEF Tick, Age, NothingLasting
  <1> QED  BY <1>3, <1>4, <1>5 DEF Next, Start, Emit, StrayEnds, Crash, vars

\* Nothing that the CLI prints or does, however often, takes its candidate out for
\* good: only cooldowns keep it back.
THEOREM ExecutorNeverOut == Spec => []ExecutorStaysUsable
  <1>1. Init => NothingLasting
    <2>1. NoRow.state # "DOWN" /\ NoRow.state # "EXHAUSTED"
      BY DEF NoRow
    <2> QED  BY <2>1 DEF Init, EmptyStore, NothingLasting
  <1>2. TypeInv /\ NothingLasting => ExecutorStaysUsable
    <2> SUFFICES ASSUME TypeInv, NothingLasting PROVE ExecutorStaysUsable
      OBVIOUS
    <2>1. Cli.provider \in Providers /\ Cli.model \in Models /\ Cli.key = NoKey
      BY ExecutorAssumption DEF Candidate
    <2>2. GetHealth(store, Cli.provider, Cli.model) # "DOWN"
      BY <2>1 DEF GetHealth, HealthRowOf, NothingLasting, HealthScope
    <2>3. GetQuota(store, Cli.provider, Cli.key, Cli.model) # "EXHAUSTED"
      BY <2>1 DEF GetQuota, QuotaRowOf, NothingLasting, QuotaScope
    <2>4. GetCredential(store, Cli.provider, Cli.key) = "ENABLED"
      BY <2>1 DEF GetCredential
    <2> QED  BY <2>2, <2>3, <2>4 DEF ExecutorStaysUsable, Usable
  <1>3. Spec => [](TypeInv /\ NothingLasting)
    BY InitType, TypeStep, <1>1, NothingLastingStep, PTL DEF Spec
  <1> QED  BY <1>2, <1>3, PTL

-----------------------------------------------------------------------------
(* The verdict.                                                             *)

\* An answer, and nothing else, is what VerdictFollowsEvents says of one call.
FollowsEvents(r) ==
    LET at(kind) == {n \in DOMAIN r.events : r.events[n] = kind}
    IN  r.result = "answer" <=>
           /\ r.status # "none" /\ r.removed
           /\ \E n \in at("message") : \A k \in at("blank message") : k < n
           /\ at("failure") \cup at("quota failure") \cup at("not an object") = {}

\* A call that is running has no exit status yet, which a timeout relies on: it
\* leaves the events of a call as they are.
WellJudged(r) == FollowsEvents(r) /\ (r.running => r.status = "none")

\* The last agent message has text exactly when a message with text comes after
\* every message without.
LEMMA TextIsLast ==
    ASSUME NEW events \in Seq(Event)
    PROVE  Text(events) <=>
              \E n \in DOMAIN events :
                 /\ events[n] = "message"
                 /\ \A k \in DOMAIN events : events[k] = "blank message" => k < n
  <1> DEFINE messages == {n \in DOMAIN events : events[n] \in {"message", "blank message"}}
  <1>1. DOMAIN events \subseteq Nat /\ \A n \in DOMAIN events : n <= Len(events)
    OBVIOUS
  <1>2. CASE messages = {}
    BY <1>2 DEF Text
  <1>3. CASE messages # {}
    <2>1. messages \in SUBSET Nat
      <3>1. messages \subseteq DOMAIN events
        OBVIOUS
      <3>2. DOMAIN events \subseteq Nat
        BY <1>1
      <3> HIDE DEF messages
      <3> QED  BY <3>1, <3>2
    <2>2. Len(events) \in Nat /\ \A n \in messages : n <= Len(events)
      <3>1. Len(events) \in Nat /\ \A n \in DOMAIN events : n <= Len(events)
        OBVIOUS
      <3> QED  BY <3>1
    <2>3. \E greatest \in messages : \A n \in messages : n <= greatest
      <3> HIDE DEF messages
      <3> QED  BY <1>3, <2>1, <2>2, GreatestNumber
    <2> DEFINE last == Max(messages)
    <2>4. last \in messages /\ \A n \in messages : last >= n
      <3>1. \E greatest \in messages : \A n \in messages : greatest >= n
        BY <2>1, <2>3
      <3> HIDE DEF messages
      <3> QED  BY <3>1 DEF Max
    <2>5. Text(events) <=> events[last] = "message"
      BY <1>3 DEF Text
    <2> HIDE DEF last
    <2>6. ASSUME events[last] = "message",
                 NEW k \in DOMAIN events, events[k] = "blank message"
          PROVE  k < last
      <3>1. k # last /\ k \in messages
        BY <2>6
      <3> HIDE DEF messages
      <3>2. last \in Nat /\ k \in Nat /\ last >= k
        BY <2>1, <2>4, <3>1
      <3>3. k # last
        BY <3>1
      <3> QED  BY <3>2, <3>3
    <2>7. ASSUME NEW n \in DOMAIN events, events[n] = "message",
                 \A k \in DOMAIN events : events[k] = "blank message" => k < n
          PROVE  events[last] = "message"
      <3>1. n \in messages
        BY <2>7
      <3>2. last \in messages /\ last \in DOMAIN events
        BY <2>4
      <3>3. last \in Nat /\ n \in Nat /\ last >= n
        <4> HIDE DEF messages
        <4> QED  BY <2>1, <2>4, <3>1
      <3>4. ~ (last < n)
        BY <3>3
      <3>5. events[last] # "blank message"
        BY <2>7, <3>2, <3>4
      <3>6. events[last] \in {"message", "blank message"}
        BY <3>2
      <3> QED  BY <3>5, <3>6
    <2> QED  BY <2>4, <2>5, <2>6, <2>7
  <1> QED  BY <1>2, <1>3

\* A subprocess that has exited is taken to have answered when its last message has
\* text, no event is a failure and every line could be read.
LEMMA VerdictAnswers ==
    ASSUME NEW events \in Seq(Event), NEW status
    PROVE  Verdict(events, status) = "answer" <=>
              /\ \A n \in DOMAIN events :
                    events[n] \notin {"failure", "quota failure", "not an object"}
              /\ Text(events)
  <1>1. Failures(events) = {} <=> \A n \in DOMAIN events : events[n] \notin {"failure", "quota failure"}
    BY DEF Failures
  <1> QED  BY <1>1 DEF Verdict

\* The verdict on the events of a call that has exited and been cleaned up is the
\* one that FollowsEvents asks for.
LEMMA VerdictFollows ==
    ASSUME NEW r \in Call, r.status # "none", r.removed,
           r.result = Verdict(r.events, r.status)
    PROVE  FollowsEvents(r)
  <1> DEFINE events == r.events
             at(kind) == {n \in DOMAIN events : events[n] = kind}
  <1>1. events \in Seq(Event)
    BY DEF Call
  <1>2. r.result = "answer" <=>
           /\ \A n \in DOMAIN events :
                 events[n] \notin {"failure", "quota failure", "not an object"}
           /\ Text(events)
    BY <1>1, VerdictAnswers
  <1>3. (\E n \in at("message") : \A k \in at("blank message") : k < n) <=> Text(events)
    <2> HIDE DEF events
    <2>1. Text(events) <=>
              \E n \in DOMAIN events :
                 /\ events[n] = "message"
                 /\ \A k \in DOMAIN events : events[k] = "blank message" => k < n
      BY <1>1, TextIsLast
    <2> QED  BY <2>1
  <1>4. at("failure") \cup at("quota failure") \cup at("not an object") = {} <=>
           \A n \in DOMAIN events :
              events[n] \notin {"failure", "quota failure", "not an object"}
    OBVIOUS
  <1> QED  BY <1>2, <1>3, <1>4 DEF FollowsEvents

\* A call that no exit status has been read of is not an answer, nor is one whose
\* workspace could not be removed.
LEMMA NoAnswer ==
    ASSUME NEW r, r.result # "answer", r.status = "none" \/ ~r.removed
    PROVE  FollowsEvents(r)
  BY DEF FollowsEvents

\* A call that is left is well judged, if the result it is left with is no answer
\* or the verdict on its events, and its workspace was there until then.
LEMMA LeaveJudges ==
    ASSUME TypeInv, NEW s \in Slots, NEW r \in Call, Leave(s, r), ~r.removed,
           \/ r.status = "none" /\ r.result # "answer"
           \/ r.status # "none" /\ r.result = Verdict(r.events, r.status)
    PROVE  \E after : call' = [call EXCEPT ![s] = after] /\ WellJudged(after)
  <1> DEFINE removed == [r EXCEPT !.running = FALSE, !.removed = TRUE]
             failed  == [r EXCEPT !.running = FALSE, !.result = "exception"]
  <1>1. /\ removed \in Call /\ ~removed.running /\ removed.removed
        /\ removed.status = r.status /\ removed.events = r.events /\ removed.result = r.result
    BY DEF Call
  <1>2. ~failed.running /\ failed.result # "answer" /\ ~failed.removed
    BY DEF Call
  <1>3. \/ call' = [call EXCEPT ![s] = removed]
        \/ call' = [call EXCEPT ![s] = failed]
    BY DEF Leave, Returns
  <1> HIDE DEF removed, failed
  <1>4. FollowsEvents(removed)
    <2>1. CASE r.status = "none" /\ r.result # "answer"
      BY <1>1, <2>1, NoAnswer
    <2>2. CASE r.status # "none" /\ r.result = Verdict(r.events, r.status)
      BY <1>1, <2>2, VerdictFollows
    <2> QED  BY <2>1, <2>2
  <1>5. FollowsEvents(failed)
    BY <1>2, NoAnswer
  <1> QED  BY <1>1, <1>2, <1>3, <1>4, <1>5 DEF WellJudged

Judged == \A s \in Slots : WellJudged(call[s])

\* Replacing a call by one that is well judged keeps all calls so.
LEMMA JudgedOneByOne ==
    ASSUME TypeInv, Judged, NEW s \in Slots, NEW after,
           call' = [call EXCEPT ![s] = after], WellJudged(after)
    PROVE  Judged'
  <1>1. \A t \in Slots : call'[t] = IF t = s THEN after ELSE call[t]
    BY DEF TypeInv
  <1>2. \A t \in Slots : WellJudged(call'[t])
    BY <1>1 DEF Judged
  <1> QED  BY <1>2 DEF Judged

\* An idle slot is well judged.
LEMMA IdleJudged == WellJudged(Idle)
  BY NoAnswer DEF Idle, WellJudged

\* Every step keeps all calls well judged.
LEMMA JudgedStep == TypeInv /\ Judged /\ [Next]_vars => Judged'
  <1> SUFFICES ASSUME TypeInv, Judged, [Next]_vars PROVE Judged'
    OBVIOUS
  <1>1. ASSUME NEW s \in Slots, NotStarted(s) PROVE Judged'
    <2>1. CASE Returns(s, [Idle EXCEPT !.result = "empty prompt"])
      <3> DEFINE after == [Idle EXCEPT !.result = "empty prompt"]
      <3>1. after.result # "answer" /\ after.status = "none" /\ ~after.running
        BY DEF Idle
      <3>2. call' = [call EXCEPT ![s] = after]
        BY <2>1 DEF Returns
      <3> HIDE DEF after
      <3>3. WellJudged(after)
        BY <3>1, NoAnswer DEF WellJudged
      <3> QED  BY <3>2, <3>3, JudgedOneByOne
    <2>2. ASSUME NEW result \in {"AdapterError", "not installed", "exception"},
                 Leave(s, [Idle EXCEPT !.result = result, !.removed = FALSE])
          PROVE  Judged'
      <3> DEFINE r == [Idle EXCEPT !.result = result, !.removed = FALSE]
      <3>1. r \in Call /\ ~r.removed /\ r.status = "none" /\ r.result # "answer"
        BY IdleType DEF Call, Result
      <3>2. Leave(s, r)
        BY <2>2
      <3> HIDE DEF r
      <3>3. \E after : call' = [call EXCEPT ![s] = after] /\ WellJudged(after)
        BY <3>1, <3>2, LeaveJudges
      <3> QED  BY <3>3, JudgedOneByOne
    <2> QED  BY <1>1, <2>1, <2>2 DEF NotStarted
  <1>2. ASSUME NEW s \in Slots, Start(s) PROVE Judged'
    <2> DEFINE after == [Idle EXCEPT !.running = TRUE, !.removed = FALSE]
    <2>1. after.result # "answer" /\ after.status = "none"
      BY DEF Idle
    <2>2. call' = [call EXCEPT ![s] = after]
      BY <1>2 DEF Start
    <2> HIDE DEF after
    <2>3. WellJudged(after)
      BY <2>1, NoAnswer DEF WellJudged
    <2> QED  BY <2>2, <2>3, JudgedOneByOne
  <1>3. ASSUME NEW s \in Slots, Emit(s) PROVE Judged'
    <2>1. PICK event \in Event : call' = [call EXCEPT ![s].events = Append(@, event)]
      BY <1>3 DEF Emit
    <2> DEFINE after == [call[s] EXCEPT !.events = Append(@, event)]
    <2>2. call[s] \in SoundCall /\ call[s].running /\ WellJudged(call[s])
      BY <1>3 DEF TypeInv, Emit, Judged
    <2>3. after.result = "none" /\ after.status = "none"
      BY <2>2 DEF SoundCall, Call, WellJudged
    <2>4. call' = [call EXCEPT ![s] = after]
      BY <2>1 DEF TypeInv
    <2> HIDE DEF after
    <2>5. WellJudged(after)
      BY <2>3, NoAnswer DEF WellJudged
    <2> QED  BY <2>4, <2>5, JudgedOneByOne
  <1>4. ASSUME NEW s \in Slots, Exit(s) PROVE Judged'
    <2>1. PICK status \in {"zero", "nonzero"} :
             Leave(s, [call[s] EXCEPT !.status = status, !.result = Verdict(call[s].events, status)])
      BY <1>4 DEF Exit
    <2> DEFINE r == [call[s] EXCEPT !.status = status, !.result = Verdict(call[s].events, status)]
    <2>2. call[s] \in SoundCall /\ call[s].running
      BY <1>4 DEF TypeInv, Exit
    <2>3. r \in Call /\ ~r.removed
      BY <2>2, VerdictType DEF SoundCall, Call
    <2>4. r.status # "none" /\ r.result = Verdict(r.events, r.status)
      BY <2>2 DEF SoundCall, Call
    <2>5. Leave(s, r)
      BY <2>1
    <2> HIDE DEF r
    <2>6. \E after : call' = [call EXCEPT ![s] = after] /\ WellJudged(after)
      BY <2>3, <2>4, <2>5, LeaveJudges
    <2> QED  BY <2>6, JudgedOneByOne
  <1>5. ASSUME NEW s \in Slots, TimeOut(s) PROVE Judged'
    <2> DEFINE r == [call[s] EXCEPT !.result = "timed out"]
    <2>1. call[s] \in SoundCall /\ call[s].running /\ WellJudged(call[s])
      BY <1>5 DEF TypeInv, TimeOut, Judged
    <2>2. r \in Call /\ ~r.removed /\ r.status = "none" /\ r.result # "answer"
      BY <2>1 DEF SoundCall, Call, Result, WellJudged
    <2>3. Leave(s, r)
      BY <1>5 DEF TimeOut
    <2> HIDE DEF r
    <2>4. \E after : call' = [call EXCEPT ![s] = after] /\ WellJudged(after)
      BY <2>2, <2>3, LeaveJudges
    <2> QED  BY <2>4, JudgedOneByOne
  <1>6. CASE Crash
    BY <1>6, IdleJudged DEF Crash, Judged
  <1>7. CASE UNCHANGED call
    BY <1>7 DEF Judged
  <1> QED  BY <1>1, <1>2, <1>3, <1>4, <1>5, <1>6, <1>7 DEF Next, StrayEnds, Tick, vars

\* The events of a subprocess decide what its call came to, whatever it exits with:
\* a call counts as an answer exactly when the events say so, it exited in time and
\* its workspace could be removed.
THEOREM EventsDecide == Spec => []VerdictFollowsEvents
  <1>1. Init => Judged
    BY IdleJudged DEF Init, Judged
  <1>2. Judged => VerdictFollowsEvents
    BY DEF Judged, WellJudged, FollowsEvents, VerdictFollowsEvents
  <1>3. Spec => [](TypeInv /\ Judged)
    BY InitType, TypeStep, <1>1, JudgedStep, PTL DEF Spec
  <1> QED  BY <1>2, <1>3, PTL

=============================================================================
