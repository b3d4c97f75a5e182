------------------------------ MODULE ChatStream ------------------------------
(***************************************************************************)
(* Streaming requests: GatewayService.chat_stream, StreamHandle, the SSE   *)
(* generator of gateway/api/openai.py and the event streams of the         *)
(* provider adapters, for streams that overlap and share one state store.  *)
(*                                                                         *)
(* chat_stream does not use FallbackEngine.run.  It selects a provider by  *)
(* pulling events into a buffer until one of them is substantive, and only *)
(* then replays the buffer to the client and goes on relaying.  A step is  *)
(* what runs between two awaits: the pull of one upstream event, or the    *)
(* hand-over of one event to the client.                                   *)
(***************************************************************************)
EXTENDS Serving

CONSTANTS
    StreamSlots,      \* streams open at the same time; a slot is reused
    Secrets,          \* keys whose environment variable is set
    MessageProviders, \* providers whose chunks carry `message`, not `delta`
    StreamErrors,     \* error classes an upstream stream may fail with
    MaxEvents         \* bound on the events an upstream sends in one attempt

ASSUME StreamAssumption ==
    /\ "stream" \in Capabilities
    /\ Secrets \subseteq Keys
    /\ MessageProviders \subseteq Providers
    /\ StreamErrors \subseteq ErrorClass
    /\ MaxEvents \in Nat

VARIABLE stream  \* stream[s]: the local state of the stream in slot s

streamVars == <<store, stream>>

\* "metadata" is a chunk without text: role, usage.  "framing" carries no chunk:
\* an event name, a line that is not SSE, data that is not a JSON object.
\* "message" is text in a completed message, as _to_openai of Gemini makes it.
Kind == {"metadata", "framing", "content", "message", "done"}

\* An upstream event, tagged with the attempt that produced it.
Event == [attempt : Nat, kind : Kind]

\* The columns of a route event that properties read.
RouteEvent == [attempt : Nat,
               class   : ErrorClass \cup {"none"},
               action  : {"success", "next_candidate", "partial_stream_failure"}]

Open == {"selecting", "relaying"}

\* "aborted": an exception that the SSE generator does not catch.
StreamPhase == Open \cup {"idle", "done", "partial_stream_failure", "no_eligible_candidate",
                          "unknown_virtual_model", "aborted", "gone"}

Stream == [phase     : StreamPhase,
           route     : Routes \cup {<<>>},
           current   : Nat,
           pending   : SUBSET Nat,
           attempts  : Nat,
           buffered  : Seq(Event),
           committed : BOOLEAN,
           log       : Seq(RouteEvent),  \* its route events in the store
           sent      : Seq(Event),       \* what the client has been given
           produced  : Seq(Event),       \* history: what the upstream has sent
           tried     : SUBSET Nat,       \* history: positions attempted
           barred    : SUBSET Nat]       \* history: positions seen ineligible

Quiet == [phase |-> "idle", route |-> <<>>, current |-> 0, pending |-> {}, attempts |-> 0,
          buffered |-> <<>>, committed |-> FALSE, log |-> <<>>, sent |-> <<>>,
          produced |-> <<>>, tried |-> {}, barred |-> {}]

StreamInit ==
    /\ store = EmptyStore
    /\ stream = [s \in StreamSlots |-> Quiet]

-----------------------------------------------------------------------------
(* Parts of a step.  r is the stream as it stands, st the store.            *)

\* SecretResolver: whether require returns the secret of a key, or raises.
Resolved(key) == key \in Secrets

\* adapter_for and _secret: an executor has no adapter, a key may have no secret.
Callable(c) == c.key # NoKey /\ Resolved(c.key)

\* _is_valid_chunk: text, a tool call or reasoning in the first choice's delta.
IsValidChunk(kind) == kind = "content"

\* What the adapter of candidate c yields.
Yields(c) == IF c.provider \in MessageProviders THEN {"message"} ELSE Kind \ {"message"}

\* The SSE generator passes on chunks and [DONE], and drops everything else.
Forwarded(e) == e.kind # "framing"

EventOf(r, kind) == [attempt |-> r.attempts, kind |-> kind]

\* Mutant of Recorded: the event carries the number of the next attempt.
RecordedLate(r, class, action) ==
    [r EXCEPT !.log = Append(@, [attempt |-> r.attempts + 1, class |-> class, action |-> action])]

Recorded(r, class, action) ==
    [r EXCEPT !.log = Append(@, [attempt |-> r.attempts, class |-> class, action |-> action])]

\* Attempt candidate i: a fresh buffer, then the first pull - or an exception
\* before the try block, when there is nothing to call.
Called(r, i) ==
    [r EXCEPT !.phase = IF Callable(r.route[i]) THEN "selecting" ELSE "aborted",
              !.current = i,
              !.pending = {j \in @ : Precedes(r.route, i, j)},
              !.attempts = @ + 1,
              !.buffered = <<>>,
              !.produced = <<>>,
              !.tried = @ \cup {i}]

\* Mutant of Select: eligibility is not looked at again after scoring.
SelectUnchecked(r, st) ==
    IF r.pending = {} \/ r.attempts >= HardCeiling
    THEN [r EXCEPT !.phase = "no_eligible_candidate", !.pending = {}]
    ELSE Called(r, CHOOSE i \in r.pending : \A j \in r.pending \ {i} : Precedes(r.route, i, j))

\* The selection loop goes on to the next candidate that is eligible now.
Select(r, st) ==
    LET ready == {i \in r.pending : Eligible(st, r.route[i])} IN
    IF ready = {} \/ r.attempts >= HardCeiling
    THEN [r EXCEPT !.phase = "no_eligible_candidate", !.pending = {}]
    ELSE Called(r, CHOOSE i \in ready : \A j \in ready \ {i} : Precedes(r.route, i, j))

\* Hand one event to the client; [DONE] is recorded first and ends the response.
Given(r, e) ==
    LET given == [r EXCEPT !.sent = IF Forwarded(e) THEN Append(@, e) ELSE @,
                           !.committed = @ \/ IsValidChunk(e.kind)] IN
    IF e.kind = "done"
    THEN [Recorded(given, "none", "success") EXCEPT !.phase = "done"]
    ELSE given

\* The except clause around the replay: no state write, no other candidate.
Failed(r, class) ==
    IF r.committed
    THEN [Recorded(r, class, "partial_stream_failure") EXCEPT !.phase = "partial_stream_failure"]
    ELSE [Recorded(r, class, "next_candidate") EXCEPT !.phase = "no_eligible_candidate"]

\* Slot s goes on as r.
Becomes(s, r) ==
    stream' = [stream EXCEPT ![s] =
        [r EXCEPT !.barred = @ \cup {i \in DOMAIN r.route : ~Eligible(store', r.route[i])}]]

-----------------------------------------------------------------------------
(* The client's side.                                                       *)

Closed(s) == stream[s].phase \notin Open

\* Resolve, gate, score, and call the first candidate.
OpenStream(s) ==
    /\ Closed(s)
    /\ UNCHANGED store
    /\ \E route \in Routes, need \in Needs :
          LET gated == Gate(route, need \cup {"stream"})
              asked == [Quiet EXCEPT !.route = route,
                                     !.pending = {i \in gated : Usable(store, route[i])},
                                     !.barred = DOMAIN route \ gated]
          IN  Becomes(s, IF gated = {} THEN [asked EXCEPT !.phase = "aborted"]
                                       ELSE Select(asked, store))

\* The model is unknown: one error event.
Refuse(s) ==
    /\ Closed(s)
    /\ UNCHANGED store
    /\ Becomes(s, [Quiet EXCEPT !.phase = "unknown_virtual_model"])

\* The client goes away: the task is cancelled and nothing is recorded.
Disconnect(s) ==
    /\ ~Closed(s)
    /\ UNCHANGED store
    /\ Becomes(s, [stream[s] EXCEPT !.phase = "gone"])

-----------------------------------------------------------------------------
(* Selecting: the first pulls from a candidate.                             *)

Selecting(s) == stream[s].phase = "selecting"

\* One more event into the buffer; a substantive one selects the candidate.
Buffer(s) ==
    LET r == stream[s] IN
    /\ Selecting(s)
    /\ Len(r.produced) < MaxEvents
    /\ UNCHANGED store
    /\ \E kind \in Yields(Current(r)) :
          Becomes(s, [r EXCEPT !.buffered = Append(@, EventOf(r, kind)),
                               !.produced = Append(@, EventOf(r, kind)),
                               !.phase = IF kind = "done" \/ IsValidChunk(kind)
                                         THEN "relaying" ELSE @])

\* Mutant of CloseEarly: the loop ends instead of going on.
CloseEarlyAndStop(s) ==
    /\ Selecting(s)
    /\ UNCHANGED store
    /\ Becomes(s, [Recorded(stream[s], "server", "next_candidate") EXCEPT
                      !.phase = "no_eligible_candidate", !.pending = {}])

\* The upstream closes before anything substantive: an event, no state.
CloseEarly(s) ==
    /\ Selecting(s)
    /\ UNCHANGED store
    /\ Becomes(s, Select(Recorded(stream[s], "server", "next_candidate"), store))

\* The upstream fails before anything substantive.
FailEarly(s) ==
    LET r == stream[s] IN
    /\ Selecting(s)
    /\ \E class \in StreamErrors :
          /\ store' = ApplyFailure(store, Current(r), class)
          /\ Becomes(s, Select(Recorded(r, class, "next_candidate"), store'))

-----------------------------------------------------------------------------
(* Relaying: the buffer first, then the rest of the upstream's stream.      *)

Replaying(s) == stream[s].phase = "relaying" /\ stream[s].buffered # <<>>

Pulling(s) == stream[s].phase = "relaying" /\ stream[s].buffered = <<>>

\* Mutant of Replay: the event stays at the head of the buffer.
ReplayAgain(s) ==
    LET r == stream[s] IN
    /\ Replaying(s)
    /\ Len(r.sent) < MaxEvents
    /\ UNCHANGED store
    /\ Becomes(s, Given(r, Head(r.buffered)))

Replay(s) ==
    LET r == stream[s] IN
    /\ Replaying(s)
    /\ UNCHANGED store
    /\ Becomes(s, Given([r EXCEPT !.buffered = Tail(@)], Head(r.buffered)))

Relay(s) ==
    LET r == stream[s] IN
    /\ Pulling(s)
    /\ Len(r.produced) < MaxEvents
    /\ UNCHANGED store
    /\ \E kind \in Yields(Current(r)) :
          Becomes(s, Given([r EXCEPT !.produced = Append(@, EventOf(r, kind))],
                           EventOf(r, kind)))

\* The upstream closes without [DONE]: the SSE generator adds one, unrecorded.
CloseLate(s) ==
    /\ Pulling(s)
    /\ UNCHANGED store
    /\ Becomes(s, [stream[s] EXCEPT !.phase = "done"])

\* Mutant of FailLate: a failure after the commit tries the next candidate.
FailOver(s) ==
    LET r == stream[s] IN
    /\ Pulling(s)
    /\ \E class \in StreamErrors :
          /\ store' = ApplyFailure(store, Current(r), class)
          /\ Becomes(s, Select(Recorded(r, class, "next_candidate"), store'))

FailLate(s) ==
    /\ Pulling(s)
    /\ UNCHANGED store
    /\ \E class \in StreamErrors : Becomes(s, Failed(stream[s], class))

-----------------------------------------------------------------------------
(* Writes to the store that raise.                                          *)

\* Inside a handler: the exception reaches the SSE generator.
HandlerRaises(s) ==
    LET r == stream[s] IN
    /\ StoreFaults
    /\ \/ /\ Selecting(s)
          /\ \E class \in StreamErrors :
                store' \in {store, ApplyFailure(store, Current(r), class)}
       \/ Pulling(s) /\ UNCHANGED store
    /\ Becomes(s, [r EXCEPT !.phase = "aborted"])

\* On [DONE]: the complete stream is treated as one that has failed.
SuccessRaises(s) ==
    LET r == stream[s] IN
    /\ StoreFaults
    /\ UNCHANGED store
    /\ \/ Replaying(s) /\ Head(r.buffered).kind = "done"
       \/ Pulling(s) /\ Len(r.produced) < MaxEvents /\ "done" \in Yields(Current(r))
    /\ \/ Becomes(s, Failed(r, "server"))
       \/ Becomes(s, [r EXCEPT !.phase = "aborted"])

-----------------------------------------------------------------------------

StreamTick ==
    /\ store' = Age(store)
    /\ UNCHANGED stream

Proceed(s) ==
    \/ Buffer(s)
    \/ CloseEarly(s)
    \/ FailEarly(s)
    \/ Replay(s)
    \/ Relay(s)
    \/ CloseLate(s)
    \/ FailLate(s)
    \/ HandlerRaises(s)
    \/ SuccessRaises(s)

StreamNext ==
    \/ \E s \in StreamSlots : OpenStream(s) \/ Refuse(s) \/ Disconnect(s) \/ Proceed(s)
    \/ StreamTick

StreamSpec == StreamInit /\ [][StreamNext]_streamVars

-----------------------------------------------------------------------------
(* Properties.                                                              *)

\* Every variable has its type; an open stream has a current candidate, and a
\* stream being relayed has pulled at least one event.
StreamTypeOK ==
    /\ store \in Store
    /\ stream \in [StreamSlots -> Stream]
    /\ \A s \in StreamSlots : LET r == stream[s] IN
          /\ r.pending \subseteq DOMAIN r.route
          /\ r.phase \in Open => r.current \in DOMAIN r.route
          /\ r.phase = "relaying" => r.produced # <<>>

\* What the client has been sent is the first `given` events of the upstream,
\* framing aside: place[n] is the upstream's number of the n-th event sent.
PassedOn(sent, produced, given) ==
    \E place \in [DOMAIN sent -> 1..given] :
       /\ \A n \in DOMAIN sent : sent[n] = produced[place[n]]
       /\ \A m, n \in DOMAIN sent : m < n => place[m] < place[n]
       /\ {place[n] : n \in DOMAIN sent} = {n \in 1..given : Forwarded(produced[n])}

\* What was produced and not passed on is in the buffer.
Unaltered(r) ==
    LET given == Len(r.produced) - Len(r.buffered) IN
    /\ given >= 0
    /\ \A n \in DOMAIN r.buffered : r.buffered[n] = r.produced[given + n]
    /\ PassedOn(r.sent, r.produced, given)

OneUpstream(r) ==
    /\ \A n \in DOMAIN r.sent : r.sent[n].attempt = r.attempts
    /\ r.phase = "selecting" => r.sent = <<>> /\ r.buffered = r.produced
    /\ r.phase \in {"relaying", "done", "partial_stream_failure"} => Unaltered(r)

\* What the client is given comes from one attempt, the last, and is exactly
\* what that upstream sent, framing aside: no event of an attempt given up, none
\* lost, doubled or out of order; and nothing before a candidate is selected.
ClientSeesOneUpstream == \A s \in StreamSlots : OneUpstream(stream[s])

\* Each attempt leaves one route event, in order, under its own number; only the
\* last can be a success or a partial failure, and only of a stream that ended so.
EventPerAttempt ==
    \A s \in StreamSlots : LET r == stream[s] IN
       /\ \A n \in DOMAIN r.log :
             /\ r.log[n].attempt = n
             /\ r.log[n].action = "success" => n = r.attempts /\ r.phase = "done"
             /\ r.log[n].action = "partial_stream_failure"
                   => n = r.attempts /\ r.phase = "partial_stream_failure"
       /\ Len(r.log) \in {r.attempts} \cup {n \in Nat : n + 1 = r.attempts}
       /\ r.phase \in {"no_eligible_candidate", "partial_stream_failure"}
             => Len(r.log) = r.attempts

\* A stream that gives up under the ceiling has attempted every candidate of its
\* route that was gated in and that it never saw ineligible - unless it gave up
\* because the success of its upstream could not be recorded.
NobodyPassedOver ==
    \A s \in StreamSlots : LET r == stream[s] IN
       (/\ r.phase = "no_eligible_candidate"
        /\ r.attempts < HardCeiling
        /\ \A n \in DOMAIN r.produced : r.produced[n].kind # "done")
          => DOMAIN r.route \subseteq r.tried \cup r.barred

\* A stream calls only candidates that are eligible when it calls them, in the
\* store as the failures of all other streams have left it.
CallsAreEligible ==
    [][\A s \in StreamSlots : LET r == stream'[s] IN
          (/\ r.phase = "selecting"
           /\ stream[s].phase # "selecting" \/ r.current # stream[s].current)
             => Eligible(store', Current(r))]_streamVars

\* The client's view of a stream, for the abstract specification.
VerdictOf(phase) ==
    CASE phase \in Open -> "open"
      [] phase = "done" -> "complete"
      [] phase = "partial_stream_failure" -> "truncated"
      [] phase \in {"no_eligible_candidate", "unknown_virtual_model"} -> "error"
      [] phase = "aborted" -> "aborted"
      [] OTHER -> "gone"

StreamView(r) == [sources |-> {r.sent[n].attempt : n \in DOMAIN r.sent},
              text    |-> r.committed,
              verdict |-> VerdictOf(r.phase)]

Commitment == INSTANCE StreamPromise WITH
              Clients  <- StreamSlots,
              Attempts <- 1..HardCeiling,
              view     <- [s \in StreamSlots |-> StreamView(stream[s])]

\* Refinement: chat_stream and the SSE generator keep the commit semantics.
KeepsPromise == Commitment!Spec

=============================================================================
