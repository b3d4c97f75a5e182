---------------------------- MODULE CodexExecutor ----------------------------
(***************************************************************************)
(* The Codex CLI executor (gateway/executors/codex.py) and what            *)
(* GatewayService.chat makes of its results: a subprocess per call, in a   *)
(* temporary workspace, whose events are read when it exits or thrown away *)
(* when its time is up.  FallbackEngine has the outcomes of an attempt on  *)
(* an executor as a constant; this module says where they come from.       *)
(*                                                                         *)
(* Nothing kills a subprocess.  A call that times out, or a gateway that   *)
(* dies, leaves it running; the workspace is removed under it, or stays    *)
(* behind when the removal fails.                                          *)
(***************************************************************************)
EXTENDS Routing, FiniteSetsExt

CONSTANTS
    Slots,      \* calls of the executor at the same time; a slot is reused
    Cli,        \* the executor's candidate
    MaxEvents,  \* bound on the events of one subprocess
    MaxStrays   \* bound on the subprocesses, and the workspaces, left behind

ASSUME ExecutorAssumption ==
    /\ IsFiniteSet(Slots)
    /\ Cli \in Candidate
    /\ Cli.key = NoKey
    /\ MaxEvents \in Nat
    /\ MaxStrays \in Nat

VARIABLES
    store,   \* the state store
    call,    \* call[s]: the latest call in slot s
    strays,  \* subprocesses that no call waits for any more
    litter   \* workspaces that no call will remove any more

vars == <<store, call, strays, litter>>

\* A line of `codex exec --json` that counts: an agent message with text or
\* without; an error or a failed turn, which may say that a quota is used up;
\* JSON that is not an object.  Everything else is skipped.
Event == {"message", "blank message", "failure", "quota failure", "not an object"}

\* What execute returns, by the message it gives, or that it raises.
Result == {"none", "answer", "empty prompt", "timed out", "not installed", "upstream",
           "no agent message", "AdapterError", "exception"}

Call == [running : BOOLEAN,
         events  : Seq(Event),
         status  : {"none", "zero", "nonzero"},  \* exit status
         removed : BOOLEAN,                      \* the workspace was removed
         result  : Result]

Idle == [running |-> FALSE, events |-> <<>>, status |-> "none", removed |-> TRUE, result |-> "none"]

Init ==
    /\ store = EmptyStore
    /\ call = [s \in Slots |-> Idle]
    /\ strays = 0
    /\ litter = 0

-----------------------------------------------------------------------------
(* From the events to the verdict.                                          *)

\* Mutant of Text: an empty message does not replace the one before.
TextOfAnyMessage(events) == \E n \in DOMAIN events : events[n] = "message"

\* parse_jsonl: the last agent message has text.
Text(events) ==
    LET messages == {n \in DOMAIN events : events[n] \in {"message", "blank message"}}
    IN  messages # {} /\ events[Max(messages)] = "message"

Failures(events) == {events[n] : n \in DOMAIN events} \cap {"failure", "quota failure"}

\* What execute returns for a subprocess that has exited.
Verdict(events, status) ==
    IF \E n \in DOMAIN events : events[n] = "not an object" THEN "exception"
    ELSE IF Failures(events) # {} \/ (status = "nonzero" /\ ~Text(events)) THEN "upstream"
    ELSE IF ~Text(events) THEN "no agent message" ELSE "answer"

\* Mutant of OutcomesOf: what the executor reports is classified by its words.
OutcomesByWords(result, events) ==
    CASE result = "answer" -> {"success"}
      [] result = "AdapterError" -> {"network"}
      [] result = "upstream" /\ "quota failure" \in Failures(events) -> {"quota"}
      [] OTHER -> {"server"}

\* What a call may come to in GatewayService.chat.  Exceptions are classified: an
\* AdapterError as network, as the configured path that it quotes names no family.
\* Every result that is not ok is raised anew outside the try and reaches the engine
\* unclassified, its error_class dropped - as does an answer that cannot be wrapped,
\* when the usage of the last turn is not an object of numbers.
OutcomesOf(result, events) ==
    CASE result = "answer" -> {"success", "breach"}
      [] result = "AdapterError" -> {"network"}
      [] result = "exception" -> {"server"}
      [] OTHER -> {"breach"}

\* The engine's writes for an outcome.
Applied(outcome) ==
    CASE outcome = "success" -> ApplySuccess(store, Cli)
      [] outcome = "breach" -> ApplyFailure(store, Cli, "server")
      [] OTHER -> ApplyFailure(store, Cli, outcome)

-----------------------------------------------------------------------------
(* Steps of a call.                                                         *)

\* The call in slot s ends as r; the engine writes what it came to.
Returns(s, r) ==
    /\ call' = [call EXCEPT ![s] = r]
    /\ \E outcome \in OutcomesOf(r.result, r.events) : store' = Applied(outcome)

Running == {s \in Slots : call[s].running}

\* The engine calls its executor only while the candidate is eligible.
Free(s) == ~call[s].running /\ Eligible(store, Cli)

\* A workspace is made and a subprocess started in it.
Start(s) ==
    /\ Free(s)
    /\ strays + Cardinality(Running) < MaxStrays
    /\ litter + Cardinality(Running) < MaxStrays
    /\ call' = [call EXCEPT ![s] = [Idle EXCEPT !.running = TRUE, !.removed = FALSE]]
    /\ UNCHANGED <<store, strays, litter>>

\* The subprocess writes a line that counts.
Emit(s) ==
    /\ call[s].running
    /\ Len(call[s].events) < MaxEvents
    /\ \E event \in Event : call' = [call EXCEPT ![s].events = Append(@, event)]
    /\ UNCHANGED <<store, strays, litter>>

\* TemporaryDirectory.__exit__ on the way out with a result: when the removal
\* fails, its exception takes the place of the result.
Leave(s, r) ==
    \/ /\ Returns(s, [r EXCEPT !.running = FALSE, !.removed = TRUE])
       /\ UNCHANGED litter
    \/ /\ Returns(s, [r EXCEPT !.running = FALSE, !.result = "exception"])
       /\ litter' = litter + 1

\* No subprocess is started: there is nothing to ask, or, with a workspace at hand,
\* AUTOROUTE_CODEX_HOME is no directory, the command is missing or cannot be run.
NotStarted(s) ==
    /\ Free(s)
    /\ litter + Cardinality(Running) < MaxStrays
    /\ \/ Returns(s, [Idle EXCEPT !.result = "empty prompt"]) /\ UNCHANGED litter
       \/ \E result \in {"AdapterError", "not installed", "exception"} :
             Leave(s, [Idle EXCEPT !.result = result, !.removed = FALSE])
    /\ UNCHANGED strays

\* The subprocess exits in time.
Exit(s) ==
    /\ call[s].running
    /\ \E status \in {"zero", "nonzero"} :
          Leave(s, [call[s] EXCEPT !.status = status, !.result = Verdict(call[s].events, status)])
    /\ UNCHANGED strays

\* Mutant of TimeOut: a call that has made progress is given more time.
TimeOutIfSilent(s) ==
    /\ call[s].running
    /\ call[s].events = <<>>
    /\ Leave(s, [call[s] EXCEPT !.result = "timed out"])
    /\ strays' = strays + 1

\* wait_for gives up, whatever has been written by then.
TimeOut(s) ==
    /\ call[s].running
    /\ Leave(s, [call[s] EXCEPT !.result = "timed out"])
    /\ strays' = strays + 1

-----------------------------------------------------------------------------

\* A subprocess that nobody waits for ends by itself.
StrayEnds ==
    /\ strays > 0
    /\ strays' = strays - 1
    /\ UNCHANGED <<store, call, litter>>

\* The gateway dies; subprocesses and workspaces stay.
Crash ==
    /\ call' = [s \in Slots |-> Idle]
    /\ strays' = strays + Cardinality(Running)
    /\ litter' = litter + Cardinality(Running)
    /\ UNCHANGED store

Tick ==
    /\ store' = Age(store)
    /\ UNCHANGED <<call, strays, litter>>

Next ==
    \/ \E s \in Slots : NotStarted(s) \/ Start(s) \/ Emit(s) \/ Exit(s) \/ TimeOut(s)
    \/ StrayEnds
    \/ Crash
    \/ Tick

Spec == Init /\ [][Next]_vars

\* wait_for is a timer of the event loop.  Nothing else is sure to happen: the
\* subprocess may hang for ever, before its first line or after its last.
FairSpec == Spec /\ \A s \in Slots : WF_vars(TimeOut(s))

-----------------------------------------------------------------------------
(* Properties.                                                              *)

\* The types; a call that is running has a workspace, and no result yet.
TypeOK ==
    /\ store \in Store
    /\ call \in [Slots -> Call]
    /\ strays \in Nat
    /\ litter \in Nat
    /\ \A s \in Running : ~call[s].removed /\ call[s].result = "none"

\* codex.py:8: the events decide, not the exit status.  A subprocess that exits in
\* time has answered exactly when an agent message with text is its last one, no
\* event is a failure and every line could be read - unless its workspace could
\* not be removed; and nothing else is ever taken for an answer.
VerdictFollowsEvents ==
    \A s \in Slots :
       LET events == call[s].events
           at(kind) == {n \in DOMAIN events : events[n] = kind}
       IN  call[s].result = "answer" <=>
              /\ call[s].status # "none" /\ call[s].removed
              /\ \E n \in at("message") : \A k \in at("blank message") : k < n
              /\ at("failure") \cup at("quota failure") \cup at("not an object") = {}

\* Nothing that the subprocess says or does, and no number of timeouts, takes the
\* executor out for good: what a CLI prints is never read as exhaustion or as a
\* missing model, so that only cooldowns keep its candidate back.
ExecutorStaysUsable == Usable(store, Cli)

\* Every call ends, even when its subprocess never does.
CallsEnd == \A s \in Slots : call[s].running ~> ~call[s].running

=============================================================================
