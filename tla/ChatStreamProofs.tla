--------------------------- MODULE ChatStreamProofs ---------------------------
(***************************************************************************)
(* Theorems about streams, for every number of slots, every set of routes  *)
(* and every upstream.  Each stream satisfies five conditions of its own,  *)
(* which every step keeps, whatever the others do to the store: it is      *)
(* Sound (types), Numbered (its route events), Fed (its events), of        *)
(* OneUpstream (what the client has been sent) and Covered (its route).    *)
(***************************************************************************)
EXTENDS ChatStream, RoutingProofs, SequenceTheorems, TLAPS

-----------------------------------------------------------------------------
(* The conditions.                                                          *)

\* Streams whose positions are positions of their route; the candidate in hand
\* has a key.
Sound ==
    {r \in Stream : /\ r.pending \subseteq DOMAIN r.route
                    /\ r.phase \in Open => /\ r.current \in DOMAIN r.route
                                           /\ Current(r).key # NoKey
                    /\ r.phase = "relaying" => r.produced # <<>>}

\* The type invariant.
StreamTypeInv == store \in Store /\ stream \in [StreamSlots -> Sound]

\* All attempts but the one in hand have ended and gone on to the next candidate.
GoneOn(r) ==
    \A n \in DOMAIN r.log : r.log[n].attempt = n /\ r.log[n].action = "next_candidate"

\* EventPerAttempt of one stream, which is finer while the stream is open.
Numbered(r) ==
    /\ r.phase \in Open => GoneOn(r) /\ r.attempts = Len(r.log) + 1
    /\ r.attempts = Len(r.log) \/ r.attempts = Len(r.log) + 1
    /\ \A n \in DOMAIN r.log :
          /\ r.log[n].attempt = n
          /\ r.log[n].action = "success" => n = r.attempts /\ r.phase = "done"
          /\ r.log[n].action = "partial_stream_failure"
                => n = r.attempts /\ r.phase = "partial_stream_failure"
    /\ r.phase \in {"no_eligible_candidate", "partial_stream_failure"} => Len(r.log) = r.attempts

\* An open stream holds events of its last attempt only; before it is selected
\* its client has nothing, and afterwards it has text, or text or [DONE] is next.
Fed(r) ==
    r.phase \in Open =>
       /\ r.attempts \in 1..HardCeiling
       /\ \A n \in DOMAIN r.buffered : r.buffered[n].attempt = r.attempts
       /\ \A n \in DOMAIN r.sent : r.sent[n].attempt = r.attempts
       /\ r.committed => r.sent # <<>>
       /\ r.phase = "selecting" => r.sent = <<>> /\ ~r.committed
       /\ r.phase = "relaying" => \/ r.committed
                                  \/ \E n \in DOMAIN r.buffered : r.buffered[n].kind \in {"content", "done"}
       /\ (\E n \in DOMAIN r.buffered : r.buffered[n].kind = "done") =>
             \E n \in DOMAIN r.produced : r.produced[n].kind = "done"

\* Of the route of an open stream, each position was tried, is barred or pending;
\* one that gave up has been all the way, as NobodyPassedOver says.
Covered(r) ==
    /\ r.phase \in Open => /\ r.route \in Routes
                           /\ DOMAIN r.route \subseteq r.tried \cup r.barred \cup r.pending
    /\ (/\ r.phase = "no_eligible_candidate"
        /\ r.attempts < HardCeiling
        /\ \A n \in DOMAIN r.produced : r.produced[n].kind # "done")
          => DOMAIN r.route \subseteq r.tried \cup r.barred

Fine(r) == r \in Sound /\ Numbered(r) /\ Fed(r) /\ OneUpstream(r) /\ Covered(r)

StreamInv == StreamTypeInv /\ \A s \in StreamSlots : Fine(stream[s])

-----------------------------------------------------------------------------
(* Routes.                                                                  *)

\* A route is a sequence of candidates, whose positions are numbers.
LEMMA StreamRouteType ==
    ASSUME NEW route \in Routes \cup {<<>>}
    PROVE  /\ DOMAIN route \subseteq Nat
           /\ \A i \in DOMAIN route : route[i] \in Candidate
  <1>1. CASE route \in Routes
    <2>1. route \in Seq(Candidate)
      BY <1>1, ServingAssumption
    <2> QED  BY <2>1
  <1>2. CASE route = <<>>
    BY <1>2
  <1> QED  BY <1>1, <1>2

\* Among positions of a route one precedes all others: CHOOSE has something to
\* choose.
LEMMA FirstPosition ==
    ASSUME NEW route \in Routes, NEW ready \in SUBSET DOMAIN route, ready # {}
    PROVE  \E i \in ready : \A j \in ready \ {i} : Precedes(route, i, j)
  <1> DEFINE regular == {i \in ready : ~route[i].reserve}
  <1>1. ready \subseteq Nat /\ \A i \in ready : route[i].reserve \in BOOLEAN
    BY StreamRouteType DEF Candidate
  <1>2. CASE regular = {}
    <2>1. PICK i \in ready : \A j \in ready : i <= j
      BY <1>1, LeastNumber
    <2>2. ASSUME NEW j \in ready \ {i} PROVE Precedes(route, i, j)
      <3>1. i < j
        BY <1>1, <2>1
      <3>2. route[i].reserve = TRUE /\ route[j].reserve = TRUE
        BY <1>1, <1>2
      <3> QED  BY <3>1, <3>2 DEF Precedes
    <2> QED  BY <2>2
  <1>3. CASE regular # {}
    <2>1. PICK i \in regular : \A j \in regular : i <= j
      BY <1>1, <1>3, LeastNumber
    <2>2. ASSUME NEW j \in ready \ {i} PROVE Precedes(route, i, j)
      <3>1. CASE j \in regular
        <4>1. i < j
          BY <1>1, <2>1, <3>1
        <4>2. route[i].reserve = FALSE /\ route[j].reserve = FALSE
          BY <1>1, <3>1
        <4> QED  BY <4>1, <4>2 DEF Precedes
      <3>2. CASE j \notin regular
        BY <1>1, <3>2 DEF Precedes
      <3> QED  BY <3>1, <3>2
    <2> QED  BY <2>2
  <1> QED  BY <1>2, <1>3

-----------------------------------------------------------------------------
(* Events passed on.                                                        *)

\* Nothing has been passed on of whatever was produced.
LEMMA NothingPassedOn == ASSUME NEW produced PROVE PassedOn(<<>>, produced, 0)
  <1> DEFINE place == [n \in DOMAIN <<>> |-> n]
  <1>1. DOMAIN <<>> = {} /\ 1..0 = {}
    OBVIOUS
  <1>2. place \in [DOMAIN <<>> -> 1..0]
    BY <1>1
  <1>3. /\ \A n \in DOMAIN <<>> : <<>>[n] = produced[place[n]]
        /\ \A m, n \in DOMAIN <<>> : m < n => place[m] < place[n]
        /\ {place[n] : n \in DOMAIN <<>>} = {n \in 1..0 : Forwarded(produced[n])}
    BY <1>1
  <1> HIDE DEF place
  <1> QED  BY <1>2, <1>3 DEF PassedOn

\* What counts of the events produced are those passed on so far.
LEMMA SamePassedOn ==
    ASSUME NEW sent, NEW produced, NEW longer, NEW given \in Nat,
           \A n \in 1..given : longer[n] = produced[n],
           PassedOn(sent, produced, given)
    PROVE  PassedOn(sent, longer, given)
  BY DEF PassedOn

\* Handing over the next event passes on one more, unless it is framing.
LEMMA OneMorePassedOn ==
    ASSUME NEW sent \in Seq(Event), NEW produced, NEW given \in Nat,
           PassedOn(sent, produced, given)
    PROVE  PassedOn(IF produced[given + 1].kind = "framing"
                    THEN sent ELSE Append(sent, produced[given + 1]),
                    produced, given + 1)
  <1> DEFINE e == produced[given + 1]
             len == Len(sent)
             more == Append(sent, e)
  <1>1. PICK place \in [DOMAIN sent -> 1..given] :
          /\ \A n \in DOMAIN sent : sent[n] = produced[place[n]]
          /\ \A m, n \in DOMAIN sent : m < n => place[m] < place[n]
          /\ {place[n] : n \in DOMAIN sent} = {n \in 1..given : Forwarded(produced[n])}
    BY DEF PassedOn
  <1>2. DOMAIN sent = 1..len /\ len \in Nat
    OBVIOUS
  <1>3. \A n \in 1..(given + 1) : n \in 1..given \/ n = given + 1
    OBVIOUS
  <1>4. CASE e.kind = "framing"
    <2>1. {n \in 1..(given + 1) : Forwarded(produced[n])} = {n \in 1..given : Forwarded(produced[n])}
      BY <1>3, <1>4 DEF Forwarded
    <2>2. place \in [DOMAIN sent -> 1..(given + 1)]
      BY <1>1
    <2>3. PassedOn(sent, produced, given + 1)
      BY <1>1, <2>1, <2>2 DEF PassedOn
    <2> QED  BY <1>4, <2>3
  <1>5. CASE e.kind # "framing"
    <2> DEFINE longer == [n \in 1..(len + 1) |-> IF n = len + 1 THEN given + 1 ELSE place[n]]
    <2>1. /\ DOMAIN more = 1..(len + 1)
          /\ \A n \in 1..len : more[n] = sent[n]
          /\ more[len + 1] = e
      OBVIOUS
    <2>2. \A n \in 1..(len + 1) : n \in 1..len \/ n = len + 1
      BY <1>2
    <2>3. /\ longer[len + 1] = given + 1
          /\ \A n \in 1..len : longer[n] = place[n] /\ place[n] \in 1..given
      BY <1>1, <1>2
    <2>4. longer \in [DOMAIN more -> 1..(given + 1)]
      BY <2>1, <2>2, <2>3
    <2> HIDE DEF longer, more
    <2>5. \A n \in DOMAIN more : more[n] = produced[longer[n]]
      BY <1>1, <1>2, <2>1, <2>2, <2>3
    <2>6. \A m, n \in DOMAIN more : m < n => longer[m] < longer[n]
      <3> SUFFICES ASSUME NEW m \in 1..(len + 1), NEW n \in 1..(len + 1), m < n
                   PROVE  longer[m] < longer[n]
        BY <2>1
      <3>1. m \in 1..len
        BY <1>2
      <3>2. CASE n \in 1..len
        BY <1>1, <1>2, <2>3, <3>1, <3>2
      <3>3. CASE n = len + 1
        BY <2>3, <3>1, <3>3
      <3> QED  BY <2>2, <3>2, <3>3
    <2>7. {longer[n] : n \in DOMAIN more} = {n \in 1..(given + 1) : Forwarded(produced[n])}
      <3>1. ASSUME NEW n \in DOMAIN more
            PROVE  longer[n] \in 1..(given + 1) /\ Forwarded(produced[longer[n]])
        <4>1. CASE n \in 1..len
          <5>1. place[n] \in {k \in 1..given : Forwarded(produced[k])}
            BY <1>1, <1>2, <4>1
          <5> QED  BY <2>3, <4>1, <5>1
        <4>2. CASE n = len + 1
          BY <1>5, <2>3, <4>2 DEF Forwarded
        <4> QED  BY <2>1, <2>2, <3>1, <4>1, <4>2
      <3>2. ASSUME NEW k \in 1..(given + 1), Forwarded(produced[k])
            PROVE  \E n \in DOMAIN more : longer[n] = k
        <4>1. CASE k \in 1..given
          <5>1. PICK n \in DOMAIN sent : place[n] = k
            BY <1>1, <3>2, <4>1
          <5> QED  BY <1>2, <2>1, <2>2, <2>3, <5>1
        <4>2. CASE k = given + 1
          BY <1>2, <2>1, <2>3, <4>2
        <4> QED  BY <1>3, <3>2, <4>1, <4>2
      <3> QED  BY <3>1, <3>2
    <2>8. PassedOn(more, produced, given + 1)
      BY <2>4, <2>5, <2>6, <2>7 DEF PassedOn
    <2> QED  BY <1>5, <2>8 DEF more
  <1> QED  BY <1>4, <1>5

-----------------------------------------------------------------------------
(* Parts of a step.                                                         *)

\* A stream as Becomes leaves it in slot s.
Marked(r, st) == [r EXCEPT !.barred = @ \cup {i \in DOMAIN r.route : ~Eligible(st, r.route[i])}]

\* Marking adds to barred, and to nothing else.
LEMMA MarkedOutcome ==
    ASSUME NEW r \in Stream, NEW st
    PROVE  LET m == Marked(r, st) IN
           /\ m \in Stream
           /\ m.phase = r.phase /\ m.route = r.route /\ m.current = r.current
           /\ m.pending = r.pending /\ m.attempts = r.attempts /\ m.buffered = r.buffered
           /\ m.committed = r.committed /\ m.log = r.log /\ m.sent = r.sent
           /\ m.produced = r.produced /\ m.tried = r.tried
           /\ m.barred = r.barred \cup {i \in DOMAIN r.route : ~Eligible(st, r.route[i])}
  <1>1. DOMAIN r.route \subseteq Nat
    BY StreamRouteType DEF Stream
  <1>2. r.barred \cup {i \in DOMAIN r.route : ~Eligible(st, r.route[i])} \in SUBSET Nat
    BY <1>1 DEF Stream
  <1> QED  BY <1>2 DEF Marked, Stream

\* What is sound, numbered and fed stays so, and covered if it was.
LEMMA MarkedFine ==
    ASSUME NEW r \in Sound, NEW st, Numbered(r), Fed(r), OneUpstream(r),
           Covered(Marked(r, st))
    PROVE  Fine(Marked(r, st))
  <1> DEFINE m == Marked(r, st)
  <1>1. /\ m \in Stream
        /\ m.phase = r.phase /\ m.route = r.route /\ m.current = r.current
        /\ m.pending = r.pending /\ m.attempts = r.attempts /\ m.buffered = r.buffered
        /\ m.committed = r.committed /\ m.log = r.log /\ m.sent = r.sent
        /\ m.produced = r.produced /\ m.tried = r.tried
    BY MarkedOutcome DEF Sound
  <1> HIDE DEF m
  <1>2. m \in Sound
    BY <1>1 DEF Sound, Current
  <1>3. Numbered(m)
    BY <1>1 DEF Numbered, GoneOn
  <1>4. Fed(m)
    BY <1>1 DEF Fed
  <1>5. OneUpstream(m)
    BY <1>1 DEF OneUpstream, Unaltered
  <1> QED  BY <1>2, <1>3, <1>4, <1>5 DEF Fine, m

\* A route event is one more at the end of the log.
LEMMA RecordedOutcome ==
    ASSUME NEW r \in Stream, NEW class \in ErrorClass \cup {"none"},
           NEW action \in {"success", "next_candidate", "partial_stream_failure"}
    PROVE  LET q == Recorded(r, class, action) IN
           /\ q \in Stream
           /\ q.phase = r.phase /\ q.route = r.route /\ q.current = r.current
           /\ q.pending = r.pending /\ q.attempts = r.attempts /\ q.buffered = r.buffered
           /\ q.committed = r.committed /\ q.sent = r.sent
           /\ q.produced = r.produced /\ q.tried = r.tried /\ q.barred = r.barred
           /\ Len(q.log) = Len(r.log) + 1
           /\ \A n \in DOMAIN r.log : q.log[n] = r.log[n]
           /\ DOMAIN q.log = DOMAIN r.log \cup {Len(r.log) + 1}
           /\ q.log[Len(r.log) + 1].attempt = r.attempts
           /\ q.log[Len(r.log) + 1].action = action
  <1> DEFINE event == [attempt |-> r.attempts, class |-> class, action |-> action]
             log == Append(r.log, event)
             q == Recorded(r, class, action)
  <1>1. event \in RouteEvent /\ event.attempt = r.attempts /\ event.action = action
    BY DEF RouteEvent, Stream
  <1>2. r.log \in Seq(RouteEvent)
    BY DEF Stream
  <1> HIDE DEF event
  <1>3. /\ log \in Seq(RouteEvent) /\ Len(log) = Len(r.log) + 1
        /\ \A n \in 1..Len(r.log) : log[n] = r.log[n]
        /\ log[Len(r.log) + 1] = event
    BY <1>1, <1>2, AppendProperties
  <1>4. DOMAIN r.log = 1..Len(r.log) /\ DOMAIN log = 1..(Len(r.log) + 1) /\ Len(r.log) \in Nat
    BY <1>2, <1>3
  <1>5. DOMAIN log = DOMAIN r.log \cup {Len(r.log) + 1}
    BY <1>4
  <1>6. q = [r EXCEPT !.log = log]
    BY DEF Recorded, event
  <1> HIDE DEF log, q
  <1>7. /\ q \in Stream /\ q.log = log
        /\ q.phase = r.phase /\ q.route = r.route /\ q.current = r.current
        /\ q.pending = r.pending /\ q.attempts = r.attempts /\ q.buffered = r.buffered
        /\ q.committed = r.committed /\ q.sent = r.sent
        /\ q.produced = r.produced /\ q.tried = r.tried /\ q.barred = r.barred
    BY <1>3, <1>6 DEF Stream
  <1> QED  BY <1>1, <1>3, <1>4, <1>5, <1>7 DEF q

\* The next candidate is called with empty buffers, or is not callable.
LEMMA CalledOutcome ==
    ASSUME NEW r \in Stream, NEW i \in r.pending, r.pending \subseteq DOMAIN r.route
    PROVE  LET q == Called(r, i) IN
           /\ q \in Stream
           /\ q.phase = (IF Callable(r.route[i]) THEN "selecting" ELSE "aborted")
           /\ q.route = r.route /\ q.log = r.log /\ q.sent = r.sent
           /\ q.committed = r.committed /\ q.barred = r.barred
           /\ q.current = i
           /\ q.pending = {j \in r.pending : Precedes(r.route, i, j)}
           /\ q.attempts = r.attempts + 1
           /\ q.buffered = <<>> /\ q.produced = <<>>
           /\ q.tried = r.tried \cup {i}
  <1> DEFINE phase == IF Callable(r.route[i]) THEN "selecting" ELSE "aborted"
             left == {j \in r.pending : Precedes(r.route, i, j)}
             tried == r.tried \cup {i}
             q == Called(r, i)
  <1>1. i \in Nat /\ left \in SUBSET Nat /\ tried \in SUBSET Nat /\ r.attempts + 1 \in Nat
    BY DEF Stream
  <1>2. phase \in StreamPhase
    BY DEF StreamPhase, Open
  <1>3. <<>> \in Seq(Event)
    OBVIOUS
  <1>4. q = [r EXCEPT !.phase = phase, !.current = i, !.pending = left,
                      !.attempts = r.attempts + 1, !.buffered = <<>>, !.produced = <<>>,
                      !.tried = tried]
    BY DEF Called
  <1> HIDE DEF phase, left, tried, q
  <1>5. /\ q \in Stream
        /\ q.phase = phase
        /\ q.route = r.route /\ q.log = r.log /\ q.sent = r.sent
        /\ q.committed = r.committed /\ q.barred = r.barred
        /\ q.current = i /\ q.pending = left /\ q.attempts = r.attempts + 1
        /\ q.buffered = <<>> /\ q.produced = <<>> /\ q.tried = tried
    BY <1>1, <1>2, <1>3, <1>4 DEF Stream
  <1> QED  BY <1>5 DEF phase, left, tried, q

\* The loop goes on as the code has it: CHOOSE finds the first of those eligible.
LEMMA SelectOutcome ==
    ASSUME NEW r \in Stream, NEW st, r.route \in Routes, r.pending \subseteq DOMAIN r.route
    PROVE  \/ /\ Select(r, st) = [r EXCEPT !.phase = "no_eligible_candidate", !.pending = {}]
              /\ \/ \A j \in r.pending : ~Eligible(st, r.route[j])
                 \/ r.attempts >= HardCeiling
           \/ \E i \in r.pending :
                 /\ Select(r, st) = Called(r, i)
                 /\ Eligible(st, r.route[i])
                 /\ r.attempts < HardCeiling
                 /\ \A j \in r.pending :
                       j = i \/ Precedes(r.route, i, j) \/ ~Eligible(st, r.route[j])
  <1> DEFINE ready == {i \in r.pending : Eligible(st, r.route[i])}
             first == CHOOSE i \in ready : \A j \in ready \ {i} : Precedes(r.route, i, j)
  <1>0. r.attempts \in Nat /\ HardCeiling \in Nat
    BY PolicyAssumption DEF Stream
  <1>1. CASE ready = {} \/ r.attempts >= HardCeiling
    <2>1. Select(r, st) = [r EXCEPT !.phase = "no_eligible_candidate", !.pending = {}]
      BY <1>1 DEF Select
    <2> QED  BY <1>1, <2>1
  <1>2. CASE ~(ready = {} \/ r.attempts >= HardCeiling)
    <2>1. Select(r, st) = Called(r, first)
      BY <1>2 DEF Select
    <2>2. \E i \in ready : \A j \in ready \ {i} : Precedes(r.route, i, j)
      BY <1>2, FirstPosition
    <2>3. first \in ready /\ \A j \in ready \ {first} : Precedes(r.route, first, j)
      BY <2>2
    <2> HIDE DEF first
    <2>4. r.attempts < HardCeiling
      BY <1>0, <1>2
    <2> QED  BY <2>1, <2>3, <2>4
  <1> QED  BY <1>1, <1>2

\* From a stream whose attempts have all gone on, whose client has nothing, and
\* whose positions are tried, barred, pending or not eligible now, the selection
\* loop makes a fine one, and calls only what is eligible.
LEMMA SelectFine ==
    ASSUME NEW r \in Stream, NEW st,
           r.route \in Routes, r.pending \subseteq DOMAIN r.route,
           GoneOn(r), r.attempts = Len(r.log), r.sent = <<>>, r.committed = FALSE,
           \A i \in DOMAIN r.route : \/ i \in r.tried \cup r.barred \cup r.pending
                                     \/ ~Eligible(st, r.route[i])
    PROVE  LET q == Select(r, st) IN
           /\ q \in Stream /\ Fine(Marked(q, st))
           /\ q.phase \in {"selecting", "aborted", "no_eligible_candidate"}
           /\ q.phase = "selecting" => Eligible(st, Current(q))
           /\ q.sent = <<>> /\ q.committed = FALSE
  <1> DEFINE q == Select(r, st)
             m == Marked(q, st)
  <1>0. r.attempts \in Nat /\ HardCeiling \in Nat /\ r.log \in Seq(RouteEvent)
        /\ DOMAIN r.route \subseteq Nat
    BY PolicyAssumption, StreamRouteType DEF Stream
  <1>1. CASE /\ q = [r EXCEPT !.phase = "no_eligible_candidate", !.pending = {}]
             /\ \/ \A j \in r.pending : ~Eligible(st, r.route[j])
                \/ r.attempts >= HardCeiling
    <2> HIDE DEF q
    <2>1. /\ q \in Stream /\ q.phase = "no_eligible_candidate" /\ q.pending = {}
          /\ q.route = r.route /\ q.log = r.log /\ q.attempts = r.attempts
          /\ q.sent = <<>> /\ q.committed = FALSE /\ q.produced = r.produced
          /\ q.tried = r.tried /\ q.barred = r.barred
      BY <1>1 DEF Stream, StreamPhase
    <2>2. q \in Sound /\ Fed(q) /\ OneUpstream(q)
      BY <2>1 DEF Sound, Fed, OneUpstream, Open
    <2>3. Numbered(q)
      BY <2>1 DEF Numbered, GoneOn, Open
    <2>4. /\ m.phase = q.phase /\ m.route = q.route /\ m.attempts = q.attempts
          /\ m.produced = q.produced /\ m.tried = q.tried
          /\ m.barred = q.barred \cup {i \in DOMAIN q.route : ~Eligible(st, q.route[i])}
      BY <2>1, MarkedOutcome
    <2> HIDE DEF m
    <2>5. ASSUME m.attempts < HardCeiling PROVE DOMAIN m.route \subseteq m.tried \cup m.barred
      <3>1. \A j \in r.pending : ~Eligible(st, r.route[j])
        BY <1>0, <1>1, <2>1, <2>4, <2>5
      <3> QED  BY <2>1, <2>4, <3>1
    <2>6. Covered(m)
      BY <2>1, <2>4, <2>5 DEF Covered, Open
    <2>7. Fine(m)
      BY <2>2, <2>3, <2>6, MarkedFine DEF m
    <2> QED  BY <2>1, <2>7 DEF m, q
  <1>2. ASSUME NEW i \in r.pending,
               q = Called(r, i),
               Eligible(st, r.route[i]),
               r.attempts < HardCeiling,
               \A j \in r.pending : j = i \/ Precedes(r.route, i, j) \/ ~Eligible(st, r.route[j])
        PROVE  /\ q \in Stream /\ Fine(m)
               /\ q.phase \in {"selecting", "aborted", "no_eligible_candidate"}
               /\ q.phase = "selecting" => Eligible(st, Current(q))
               /\ q.sent = <<>> /\ q.committed = FALSE
    <2> HIDE DEF q
    <2>1. /\ q \in Stream
          /\ q.phase = (IF Callable(r.route[i]) THEN "selecting" ELSE "aborted")
          /\ q.route = r.route /\ q.log = r.log /\ q.sent = r.sent
          /\ q.committed = r.committed /\ q.barred = r.barred
          /\ q.current = i
          /\ q.pending = {j \in r.pending : Precedes(r.route, i, j)}
          /\ q.attempts = r.attempts + 1
          /\ q.buffered = <<>> /\ q.produced = <<>>
          /\ q.tried = r.tried \cup {i}
      BY <1>2, CalledOutcome
    <2>2. Current(q) = r.route[i]
      BY <2>1 DEF Current
    <2>3. q.phase \in {"selecting", "aborted"} /\ (q.phase = "selecting" => Current(q).key # NoKey)
      BY <2>1, <2>2 DEF Callable
    <2>4. q \in Sound
      BY <2>1, <2>3 DEF Sound, Open
    <2>5. Numbered(q)
      <3>1. Len(q.log) \in Nat /\ q.attempts = Len(q.log) + 1
        BY <1>0, <2>1
      <3>2. GoneOn(q)
        BY <2>1 DEF GoneOn
      <3> QED  BY <2>3, <3>1, <3>2 DEF Numbered, GoneOn
    <2>6. Fed(q) /\ OneUpstream(q)
      <3>1. q.attempts \in 1..HardCeiling
        BY <1>0, <1>2, <2>1
      <3>2. DOMAIN q.buffered = {} /\ DOMAIN q.sent = {}
        BY <2>1
      <3> QED  BY <2>1, <2>3, <3>1, <3>2 DEF Fed, OneUpstream
    <2>7. /\ m.phase = q.phase /\ m.route = q.route /\ m.pending = q.pending
          /\ m.tried = q.tried
          /\ m.barred = q.barred \cup {j \in DOMAIN q.route : ~Eligible(st, q.route[j])}
      BY <2>1, MarkedOutcome
    <2> HIDE DEF m
    <2>8. DOMAIN m.route \subseteq m.tried \cup m.barred \cup m.pending
      <3> SUFFICES ASSUME NEW j \in DOMAIN r.route PROVE j \in m.tried \cup m.barred \cup m.pending
        BY <2>1, <2>7
      <3>1. CASE j \in r.pending
        BY <1>2, <2>1, <2>7, <3>1
      <3>2. CASE j \notin r.pending
        BY <2>1, <2>7, <3>2
      <3> QED  BY <3>1, <3>2
    <2>9. Covered(m)
      BY <2>1, <2>3, <2>7, <2>8 DEF Covered
    <2>10. Fine(m)
      BY <2>4, <2>5, <2>6, <2>9, MarkedFine DEF m
    <2> QED  BY <1>2, <2>1, <2>2, <2>3, <2>10
  <1>3. \/ /\ q = [r EXCEPT !.phase = "no_eligible_candidate", !.pending = {}]
           /\ \/ \A j \in r.pending : ~Eligible(st, r.route[j])
              \/ r.attempts >= HardCeiling
        \/ \E i \in r.pending :
              /\ q = Called(r, i)
              /\ Eligible(st, r.route[i])
              /\ r.attempts < HardCeiling
              /\ \A j \in r.pending :
                    j = i \/ Precedes(r.route, i, j) \/ ~Eligible(st, r.route[j])
    BY SelectOutcome
  <1>4. /\ q \in Stream /\ Fine(m)
        /\ q.phase \in {"selecting", "aborted", "no_eligible_candidate"}
        /\ q.phase = "selecting" => Eligible(st, Current(q))
        /\ q.sent = <<>> /\ q.committed = FALSE
    <2>1. CASE /\ q = [r EXCEPT !.phase = "no_eligible_candidate", !.pending = {}]
               /\ \/ \A j \in r.pending : ~Eligible(st, r.route[j])
                  \/ r.attempts >= HardCeiling
      <3>1. q \in Stream /\ Fine(m)
            /\ q.phase = "no_eligible_candidate" /\ q.sent = <<>> /\ q.committed = FALSE
        <4>1. q.phase = "no_eligible_candidate"
          <5> HIDE DEF q
          <5> QED  BY <2>1 DEF Stream
        <4> QED  BY <1>1, <2>1, <4>1
      <3> QED  BY <3>1
    <2> QED  BY <1>2, <1>3, <2>1
  <1> QED  BY <1>4

\* What handing over an event makes of a stream.
LEMMA GivenOutcome ==
    ASSUME NEW r \in Stream, NEW e \in Event
    PROVE  LET q == Given(r, e) IN
           /\ q \in Stream
           /\ q.route = r.route /\ q.current = r.current /\ q.pending = r.pending
           /\ q.attempts = r.attempts /\ q.buffered = r.buffered
           /\ q.produced = r.produced /\ q.tried = r.tried /\ q.barred = r.barred
           /\ q.sent = (IF e.kind = "framing" THEN r.sent ELSE Append(r.sent, e))
           /\ q.committed = (r.committed \/ e.kind = "content")
           /\ e.kind # "done" => q.phase = r.phase /\ q.log = r.log
           /\ e.kind = "done" =>
                 /\ q.phase = "done"
                 /\ Len(q.log) = Len(r.log) + 1
                 /\ \A n \in DOMAIN r.log : q.log[n] = r.log[n]
                 /\ DOMAIN q.log = DOMAIN r.log \cup {Len(r.log) + 1}
                 /\ q.log[Len(r.log) + 1].attempt = r.attempts
                 /\ q.log[Len(r.log) + 1].action = "success"
  <1> DEFINE sent == IF e.kind = "framing" THEN r.sent ELSE Append(r.sent, e)
             committed == r.committed \/ e.kind = "content"
             given == [r EXCEPT !.sent = sent, !.committed = committed]
             recorded == Recorded(given, "none", "success")
             q == Given(r, e)
  <1>1. sent \in Seq(Event)
    <2>1. r.sent \in Seq(Event)
      BY DEF Stream
    <2> QED  BY <2>1, AppendProperties
  <1>2. committed \in BOOLEAN
    OBVIOUS
  <1>3. q = IF e.kind = "done" THEN [recorded EXCEPT !.phase = "done"] ELSE given
    BY DEF Given, Forwarded, IsValidChunk
  <1> HIDE DEF sent, committed
  <1>4. /\ given \in Stream
        /\ given.route = r.route /\ given.current = r.current /\ given.pending = r.pending
        /\ given.attempts = r.attempts /\ given.buffered = r.buffered
        /\ given.produced = r.produced /\ given.tried = r.tried /\ given.barred = r.barred
        /\ given.sent = sent /\ given.committed = committed
        /\ given.phase = r.phase /\ given.log = r.log
    BY <1>1, <1>2 DEF Stream
  <1> HIDE DEF given, recorded, q
  <1>5. CASE e.kind # "done"
    <2>1. q = given
      BY <1>3, <1>5
    <2> QED  BY <1>4, <1>5, <2>1 DEF sent, committed, q
  <1>6. CASE e.kind = "done"
    <2>1. /\ recorded \in Stream
          /\ recorded.route = r.route /\ recorded.current = r.current
          /\ recorded.pending = r.pending /\ recorded.attempts = r.attempts
          /\ recorded.buffered = r.buffered /\ recorded.produced = r.produced
          /\ recorded.tried = r.tried /\ recorded.barred = r.barred
          /\ recorded.sent = sent /\ recorded.committed = committed
          /\ Len(recorded.log) = Len(r.log) + 1
          /\ \A n \in DOMAIN r.log : recorded.log[n] = r.log[n]
          /\ DOMAIN recorded.log = DOMAIN r.log \cup {Len(r.log) + 1}
          /\ recorded.log[Len(r.log) + 1].attempt = r.attempts
          /\ recorded.log[Len(r.log) + 1].action = "success"
      BY <1>4, RecordedOutcome DEF recorded
    <2>2. q = [recorded EXCEPT !.phase = "done"]
      BY <1>3, <1>6
    <2>3. /\ q \in Stream /\ q.phase = "done" /\ q.log = recorded.log
          /\ q.route = recorded.route /\ q.current = recorded.current
          /\ q.pending = recorded.pending /\ q.attempts = recorded.attempts
          /\ q.buffered = recorded.buffered /\ q.produced = recorded.produced
          /\ q.tried = recorded.tried /\ q.barred = recorded.barred
          /\ q.sent = recorded.sent /\ q.committed = recorded.committed
      BY <2>1, <2>2 DEF Stream, StreamPhase
    <2> QED  BY <1>6, <2>1, <2>3 DEF sent, committed, q
  <1> QED  BY <1>5, <1>6

\* What a failure around the replay makes of a stream.
LEMMA FailedOutcome ==
    ASSUME NEW r \in Stream, NEW class \in ErrorClass
    PROVE  LET q == Failed(r, class) IN
           /\ q \in Stream
           /\ q.phase = (IF r.committed THEN "partial_stream_failure" ELSE "no_eligible_candidate")
           /\ q.route = r.route /\ q.current = r.current /\ q.pending = r.pending
           /\ q.attempts = r.attempts /\ q.sent = r.sent /\ q.committed = r.committed
           /\ q.buffered = r.buffered
           /\ q.produced = r.produced /\ q.tried = r.tried /\ q.barred = r.barred
           /\ Len(q.log) = Len(r.log) + 1
           /\ \A n \in DOMAIN r.log : q.log[n] = r.log[n]
           /\ DOMAIN q.log = DOMAIN r.log \cup {Len(r.log) + 1}
           /\ q.log[Len(r.log) + 1].attempt = r.attempts
           /\ q.log[Len(r.log) + 1].action
                 = (IF r.committed THEN "partial_stream_failure" ELSE "next_candidate")
  <1> DEFINE action == IF r.committed THEN "partial_stream_failure" ELSE "next_candidate"
             phase == IF r.committed THEN "partial_stream_failure" ELSE "no_eligible_candidate"
             recorded == Recorded(r, class, action)
             q == Failed(r, class)
  <1>1. /\ action \in {"success", "next_candidate", "partial_stream_failure"}
        /\ phase \in StreamPhase
    BY DEF StreamPhase
  <1>2. q = [recorded EXCEPT !.phase = phase]
    BY DEF Failed
  <1> HIDE DEF action, phase
  <1> HIDE DEF recorded, q
  <1>3. /\ recorded \in Stream
        /\ recorded.route = r.route /\ recorded.current = r.current
        /\ recorded.pending = r.pending /\ recorded.attempts = r.attempts
        /\ recorded.produced = r.produced /\ recorded.buffered = r.buffered
        /\ recorded.tried = r.tried /\ recorded.barred = r.barred
        /\ recorded.sent = r.sent /\ recorded.committed = r.committed
        /\ Len(recorded.log) = Len(r.log) + 1
        /\ \A n \in DOMAIN r.log : recorded.log[n] = r.log[n]
        /\ DOMAIN recorded.log = DOMAIN r.log \cup {Len(r.log) + 1}
        /\ recorded.log[Len(r.log) + 1].attempt = r.attempts
        /\ recorded.log[Len(r.log) + 1].action = action
    <2>1. class \in ErrorClass \cup {"none"}
      OBVIOUS
    <2>2. CASE r.committed
      <3>1. action = "partial_stream_failure"
        BY <2>2 DEF action
      <3>2. "partial_stream_failure" \in {"success", "next_candidate", "partial_stream_failure"}
        OBVIOUS
      <3> QED  BY <2>1, <3>1, <3>2, RecordedOutcome DEF recorded
    <2>3. CASE ~r.committed
      <3>1. action = "next_candidate"
        BY <2>3 DEF action
      <3>2. "next_candidate" \in {"success", "next_candidate", "partial_stream_failure"}
        OBVIOUS
      <3> QED  BY <2>1, <3>1, <3>2, RecordedOutcome DEF recorded
    <2> QED  BY <2>2, <2>3
  <1>4. /\ q \in Stream /\ q.phase = phase /\ q.log = recorded.log
        /\ q.route = recorded.route /\ q.current = recorded.current
        /\ q.pending = recorded.pending /\ q.attempts = recorded.attempts
        /\ q.produced = recorded.produced /\ q.buffered = recorded.buffered
        /\ q.tried = recorded.tried /\ q.barred = recorded.barred
        /\ q.sent = recorded.sent /\ q.committed = recorded.committed
    BY <1>1, <1>2, <1>3 DEF Stream
  <1> QED  BY <1>3, <1>4 DEF action, phase, q

-----------------------------------------------------------------------------
(* The streams that the steps make are fine.                                *)

\* A log that has gone on, with one more event of the attempt in hand.
LEMMA LastEvent ==
    ASSUME NEW r \in Stream, NEW q \in Stream, GoneOn(r), r.attempts = Len(r.log) + 1,
           q.attempts = r.attempts,
           Len(q.log) = Len(r.log) + 1,
           \A n \in DOMAIN r.log : q.log[n] = r.log[n],
           DOMAIN q.log = DOMAIN r.log \cup {Len(r.log) + 1},
           q.log[Len(r.log) + 1].attempt = r.attempts
    PROVE  /\ q.attempts = Len(q.log)
           /\ \A n \in DOMAIN q.log :
                 /\ q.log[n].attempt = n
                 /\ n # q.attempts => q.log[n].action = "next_candidate"
           /\ q.log[q.attempts].action = "next_candidate" => GoneOn(q)
  BY DEF GoneOn

\* An open stream that ends with nothing recorded is fine.
LEMMA LeftFine ==
    ASSUME NEW r, Fine(r), r.phase \in Open, NEW st, NEW phase \in {"done", "aborted", "gone"},
           phase = "done" => r.phase = "relaying"
    PROVE  LET q == [r EXCEPT !.phase = phase] IN
           /\ q \in Stream /\ Fine(Marked(q, st))
           /\ q.phase = phase /\ q.sent = r.sent /\ q.committed = r.committed
           /\ q.current = r.current
  <1> DEFINE q == [r EXCEPT !.phase = phase]
  <1>0. r \in Stream /\ r \in Sound
    BY DEF Fine, Sound
  <1>1. phase \in StreamPhase /\ phase \notin Open /\ phase # "relaying"
        /\ phase \notin {"no_eligible_candidate", "partial_stream_failure"}
    BY DEF StreamPhase, Open
  <1>2. /\ q \in Stream /\ q.phase = phase
        /\ q.route = r.route /\ q.current = r.current /\ q.pending = r.pending
        /\ q.attempts = r.attempts /\ q.sent = r.sent /\ q.committed = r.committed
        /\ q.log = r.log /\ q.buffered = r.buffered /\ q.produced = r.produced
    BY <1>0, <1>1 DEF Stream
  <1> HIDE DEF q
  <1>3. q \in Sound /\ Fed(q) /\ OneUpstream(q)
    <2>1. q \in Sound /\ Fed(q)
      BY <1>0, <1>1, <1>2 DEF Sound, Fed
    <2>2. OneUpstream(q)
      BY <1>2 DEF Fine, OneUpstream, Unaltered
    <2> QED  BY <2>1, <2>2
  <1>4. Numbered(q)
    BY <1>1, <1>2 DEF Fine, Numbered, GoneOn
  <1>5. Marked(q, st).phase = phase
    BY <1>2, MarkedOutcome
  <1>6. Covered(Marked(q, st))
    BY <1>1, <1>5 DEF Covered
  <1> QED  BY <1>2, <1>3, <1>4, <1>6, MarkedFine DEF q

\* A stream that fails once it is relayed is fine: it ends truncated, or it has
\* had a complete answer that could not be recorded.
LEMMA FailedFine ==
    ASSUME NEW r, Fine(r), r.phase = "relaying", NEW st, NEW class \in ErrorClass,
           r.committed \/ \E n \in DOMAIN r.produced : r.produced[n].kind = "done"
    PROVE  Failed(r, class) \in Stream /\ Fine(Marked(Failed(r, class), st))
  <1> DEFINE q == Failed(r, class)
  <1>0. r \in Stream /\ r \in Sound /\ GoneOn(r) /\ r.attempts = Len(r.log) + 1
    BY DEF Fine, Sound, Numbered, Open
  <1>1. /\ q \in Stream
        /\ q.phase = (IF r.committed THEN "partial_stream_failure" ELSE "no_eligible_candidate")
        /\ q.route = r.route /\ q.current = r.current /\ q.pending = r.pending
        /\ q.attempts = r.attempts /\ q.produced = r.produced
        /\ q.buffered = r.buffered /\ q.sent = r.sent
        /\ Len(q.log) = Len(r.log) + 1
        /\ \A n \in DOMAIN r.log : q.log[n] = r.log[n]
        /\ DOMAIN q.log = DOMAIN r.log \cup {Len(r.log) + 1}
        /\ q.log[Len(r.log) + 1].attempt = r.attempts
        /\ q.log[Len(r.log) + 1].action
              = (IF r.committed THEN "partial_stream_failure" ELSE "next_candidate")
    BY <1>0, FailedOutcome
  <1> HIDE DEF q
  <1>2. q.phase \notin Open
    BY <1>1 DEF Open
  <1>3. q \in Sound /\ Fed(q) /\ OneUpstream(q)
    <2>1. q \in Sound /\ Fed(q)
      BY <1>0, <1>1, <1>2 DEF Sound, Fed, Open
    <2>2. OneUpstream(q)
      BY <1>1 DEF Fine, OneUpstream, Unaltered
    <2> QED  BY <2>1, <2>2
  <1>4. /\ q.attempts = Len(q.log)
        /\ \A n \in DOMAIN q.log :
              /\ q.log[n].attempt = n
              /\ n # q.attempts => q.log[n].action = "next_candidate"
    BY <1>0, <1>1, LastEvent
  <1>5. q.log[q.attempts].action
           = (IF r.committed THEN "partial_stream_failure" ELSE "next_candidate")
    BY <1>0, <1>1
  <1>6. Numbered(q)
    BY <1>1, <1>2, <1>4, <1>5 DEF Numbered
  <1>7. Marked(q, st).phase = q.phase /\ Marked(q, st).produced = r.produced
    BY <1>1, MarkedOutcome
  <1>8. Covered(Marked(q, st))
    BY <1>1, <1>2, <1>7 DEF Covered
  <1> QED  BY <1>1, <1>3, <1>6, <1>8, MarkedFine DEF q

\* The event that was taken last from the upstream's, and not passed on yet, is e.
LastTaken(r, e) ==
    LET given == Len(r.produced) - Len(r.buffered) IN
    /\ given >= 1
    /\ r.produced[given] = e
    /\ \A n \in DOMAIN r.buffered : r.buffered[n] = r.produced[given + n]
    /\ PassedOn(r.sent, r.produced, given - 1)

\* A stream being relayed whose next event is e, which is no longer in its buffer.
Midway(r, e) ==
    /\ LastTaken(r, e)
    /\ r \in Sound /\ e \in Event
    /\ r.phase = "relaying"
    /\ GoneOn(r) /\ r.attempts = Len(r.log) + 1 /\ r.attempts \in 1..HardCeiling
    /\ r.route \in Routes /\ DOMAIN r.route \subseteq r.tried \cup r.barred \cup r.pending
    /\ \A n \in DOMAIN r.buffered : r.buffered[n].attempt = r.attempts
    /\ \A n \in DOMAIN r.sent : r.sent[n].attempt = r.attempts
    /\ r.committed => r.sent # <<>>
    /\ e.attempt = r.attempts
    /\ \/ r.committed
       \/ e.kind \in {"content", "done"}
       \/ \E n \in DOMAIN r.buffered : r.buffered[n].kind \in {"content", "done"}
    /\ (\E n \in DOMAIN r.buffered : r.buffered[n].kind = "done") =>
          \E n \in DOMAIN r.produced : r.produced[n].kind = "done"

\* Handing over the next event makes a fine stream.
LEMMA GivenFine ==
    ASSUME NEW r, NEW e, NEW st, Midway(r, e)
    PROVE  Given(r, e) \in Stream /\ Fine(Marked(Given(r, e), st))
  <1> DEFINE q == Given(r, e)
             m == Marked(q, st)
  <1>0. r \in Stream /\ e \in Event /\ r \in Sound
    BY DEF Midway, Sound
  <1>1. /\ q \in Stream
        /\ q.route = r.route /\ q.current = r.current /\ q.pending = r.pending
        /\ q.attempts = r.attempts /\ q.buffered = r.buffered
        /\ q.produced = r.produced /\ q.tried = r.tried /\ q.barred = r.barred
        /\ q.sent = (IF e.kind = "framing" THEN r.sent ELSE Append(r.sent, e))
        /\ q.committed = (r.committed \/ e.kind = "content")
        /\ e.kind # "done" => q.phase = r.phase /\ q.log = r.log
        /\ e.kind = "done" =>
              /\ q.phase = "done"
              /\ Len(q.log) = Len(r.log) + 1
              /\ \A n \in DOMAIN r.log : q.log[n] = r.log[n]
              /\ DOMAIN q.log = DOMAIN r.log \cup {Len(r.log) + 1}
              /\ q.log[Len(r.log) + 1].attempt = r.attempts
              /\ q.log[Len(r.log) + 1].action = "success"
    BY <1>0, GivenOutcome
  <1> HIDE DEF q
  <1>2. /\ m.phase = q.phase /\ m.route = q.route /\ m.pending = q.pending
        /\ m.tried = q.tried /\ q.barred \subseteq m.barred
    BY <1>1, MarkedOutcome
  <1> HIDE DEF m
  <1>3. q \in Sound
    BY <1>0, <1>1 DEF Midway, Sound, Open, Current
  <1>4. OneUpstream(q)
    <2> DEFINE given == Len(r.produced) - Len(r.buffered)
    <2>1. /\ r.sent \in Seq(Event) /\ given \in Nat /\ given - 1 \in Nat
          /\ (given - 1) + 1 = given /\ r.produced[given] = e
          /\ PassedOn(r.sent, r.produced, given - 1)
      BY <1>0 DEF Midway, LastTaken, Stream
    <2>2. PassedOn(q.sent, q.produced, given)
      <3> HIDE DEF given
      <3>1. PassedOn(IF e.kind = "framing" THEN r.sent ELSE Append(r.sent, e), r.produced, given)
        BY <2>1, OneMorePassedOn
      <3> QED  BY <1>1, <3>1
    <2>3. Unaltered(q)
      <3>1. given >= 0 /\ \A n \in DOMAIN q.buffered : q.buffered[n] = q.produced[given + n]
        BY <1>1, <2>1 DEF Midway, LastTaken
      <3>2. given = Len(q.produced) - Len(q.buffered)
        BY <1>1
      <3> HIDE DEF given
      <3> QED  BY <2>2, <3>1, <3>2 DEF Unaltered
    <2>4. q.phase # "selecting"
      BY <1>1 DEF Midway
    <2>5. \A n \in DOMAIN q.sent : q.sent[n].attempt = q.attempts
      <3>1. CASE e.kind = "framing"
        BY <1>1, <3>1 DEF Midway
      <3>2. CASE e.kind # "framing"
        <4>1. /\ q.sent \in Seq(Event) /\ Len(q.sent) = Len(r.sent) + 1
              /\ \A n \in 1..Len(r.sent) : q.sent[n] = r.sent[n]
              /\ q.sent[Len(r.sent) + 1] = e
          BY <1>0, <1>1, <2>1, <3>2, AppendProperties
        <4> SUFFICES ASSUME NEW n \in DOMAIN q.sent PROVE q.sent[n].attempt = q.attempts
          OBVIOUS
        <4>2. n \in 1..Len(r.sent) \/ n = Len(r.sent) + 1
          BY <2>1, <4>1
        <4> QED  BY <1>1, <2>1, <4>1, <4>2 DEF Midway
      <3> QED  BY <3>1, <3>2
    <2> QED  BY <2>3, <2>4, <2>5 DEF OneUpstream
  <1>5. CASE e.kind = "done"
    <2>1. q.phase \notin Open /\ q.phase # "no_eligible_candidate"
      BY <1>1, <1>5 DEF Open
    <2>2. /\ q.attempts = Len(q.log)
          /\ \A n \in DOMAIN q.log :
                /\ q.log[n].attempt = n
                /\ n # q.attempts => q.log[n].action = "next_candidate"
      BY <1>0, <1>1, <1>5, LastEvent DEF Midway
    <2>3. q.log[q.attempts].action = "success"
      BY <1>1, <1>5 DEF Midway
    <2>4. Numbered(q)
      BY <1>1, <1>5, <2>1, <2>2, <2>3 DEF Numbered
    <2>5. Fed(q) /\ Covered(m)
      BY <1>2, <2>1 DEF Fed, Covered
    <2> QED  BY <1>1, <1>3, <1>4, <2>4, <2>5, MarkedFine DEF q, m
  <1>6. CASE e.kind # "done"
    <2>1. q.phase = "relaying" /\ q.log = r.log
      BY <1>1, <1>6 DEF Midway
    <2>2. Numbered(q)
      BY <1>1, <2>1 DEF Midway, Numbered, GoneOn
    <2>3. Covered(m)
      BY <1>1, <1>2, <2>1 DEF Midway, Covered
    <2>4. /\ \A n \in DOMAIN q.sent : q.sent[n].attempt = q.attempts
          /\ q.committed => q.sent # <<>>
      <3>1. \A n \in DOMAIN q.sent : q.sent[n].attempt = q.attempts
        BY <1>4 DEF OneUpstream
      <3>2. CASE e.kind = "framing"
        BY <1>1, <3>2 DEF Midway
      <3>3. CASE e.kind # "framing"
        <4>1. r.sent \in Seq(Event)
          BY <1>0 DEF Stream
        <4>2. q.sent # <<>>
          BY <1>0, <1>1, <3>3, <4>1, AppendProperties
        <4> QED  BY <3>1, <4>2
      <3> QED  BY <3>1, <3>2, <3>3
    <2>5. q.committed \/ \E n \in DOMAIN q.buffered : q.buffered[n].kind \in {"content", "done"}
      BY <1>1, <1>6 DEF Midway
    <2>6. Fed(q)
      BY <1>1, <2>1, <2>4, <2>5 DEF Midway, Fed
    <2> QED  BY <1>1, <1>3, <1>4, <2>2, <2>3, <2>6, MarkedFine DEF q, m
  <1> QED  BY <1>5, <1>6
-----------------------------------------------------------------------------
(* What a step does to one stream.                                          *)

\* What a step may do to a client's view: one disjunct for each action of
\* StreamPromise.
Moves(v, w) ==
    \/ w = v
    \/ /\ v.verdict # "open" /\ w.verdict \in {"open", "error", "aborted"}
       /\ w.sources = {} /\ w.text = FALSE
    \/ /\ v.verdict = "open" /\ w.verdict \in {"open", "complete"}
       /\ \E attempt \in 1..HardCeiling : v.sources \subseteq {attempt} /\ w.sources = {attempt}
       /\ w.text = v.text \/ (w.text = TRUE /\ w.verdict = "open")
    \/ /\ v.verdict = "open" /\ w.sources = v.sources /\ w.text = v.text
       /\ \/ w.verdict = "truncated" /\ v.text
          \/ w.verdict = "error" /\ ~v.text
          \/ w.verdict \in {"aborted", "gone"}

\* Of stream r a step makes q, in the store st it leaves.
StepOf(r, q, st) ==
    /\ q \in Stream
    /\ Fine(Marked(q, st))
    /\ Moves(StreamView(r), StreamView(q))
    /\ (q.phase = "selecting" /\ (r.phase # "selecting" \/ q.current # r.current))
          => Eligible(st, Current(q))

\* What its client sees of a stream.
LEMMA ViewFields ==
    ASSUME NEW r
    PROVE  /\ StreamView(r).sources = {r.sent[n].attempt : n \in DOMAIN r.sent}
           /\ StreamView(r).text = r.committed
           /\ StreamView(r).verdict = VerdictOf(r.phase)
  BY DEF StreamView

LEMMA Verdicts ==
    /\ \A phase \in Open : VerdictOf(phase) = "open"
    /\ \A phase \in StreamPhase : VerdictOf(phase) = "open" => phase \in Open
    /\ VerdictOf("done") = "complete"
    /\ VerdictOf("partial_stream_failure") = "truncated"
    /\ VerdictOf("no_eligible_candidate") = "error"
    /\ VerdictOf("unknown_virtual_model") = "error"
    /\ VerdictOf("aborted") = "aborted"
    /\ VerdictOf("gone") = "gone"
    /\ VerdictOf("idle") = "gone"
  <1>1. "done" \notin Open /\ "partial_stream_failure" \notin Open
        /\ "no_eligible_candidate" \notin Open /\ "unknown_virtual_model" \notin Open
        /\ "aborted" \notin Open /\ "gone" \notin Open /\ "idle" \notin Open
    BY DEF Open
  <1>2. \A phase \in Open : VerdictOf(phase) = "open"
    BY Zenon DEF VerdictOf, Open
  <1>3. VerdictOf("done") = "complete" /\ VerdictOf("partial_stream_failure") = "truncated"
        /\ VerdictOf("no_eligible_candidate") = "error"
        /\ VerdictOf("unknown_virtual_model") = "error"
    BY Zenon, <1>1 DEF VerdictOf
  <1>4. VerdictOf("aborted") = "aborted"
    BY Zenon, <1>1 DEF VerdictOf
  <1>5. VerdictOf("gone") = "gone"
    BY Zenon, <1>1 DEF VerdictOf
  <1>6. VerdictOf("idle") = "gone"
    BY Zenon, <1>1 DEF VerdictOf
  <1>7. \A phase \in StreamPhase : VerdictOf(phase) = "open" => phase \in Open
    BY <1>3, <1>4, <1>5, <1>6 DEF StreamPhase
  <1> QED  BY <1>2, <1>3, <1>4, <1>5, <1>6, <1>7

\* A stream that stays open with what it has given shows nothing new.
LEMMA SameView ==
    ASSUME NEW r, NEW q, q.sent = r.sent, q.committed = r.committed,
           r.phase \in Open, q.phase \in Open
    PROVE  Moves(StreamView(r), StreamView(q))
  <1>1. StreamView(q) = StreamView(r)
    BY Verdicts DEF StreamView
  <1> QED  BY <1>1 DEF Moves

\* A stream that ends in an error, or breaks off.
LEMMA EndView ==
    ASSUME NEW r, NEW q, q.sent = r.sent, q.committed = r.committed, r.phase \in Open,
           \/ q.phase = "partial_stream_failure" /\ r.committed
           \/ q.phase = "no_eligible_candidate" /\ ~r.committed
           \/ q.phase \in {"aborted", "gone"}
    PROVE  Moves(StreamView(r), StreamView(q))
  <1>1. StreamView(r).verdict = "open" /\ StreamView(q).sources = StreamView(r).sources
        /\ StreamView(q).text = StreamView(r).text
    <2>1. StreamView(r).verdict = "open"
      BY ViewFields, Verdicts
    <2>2. StreamView(q).sources = StreamView(r).sources /\ StreamView(q).text = StreamView(r).text
      BY DEF StreamView
    <2> QED  BY <2>1, <2>2
  <1>2. \/ StreamView(q).verdict = "truncated" /\ StreamView(r).text
        \/ StreamView(q).verdict = "error" /\ ~StreamView(r).text
        \/ StreamView(q).verdict \in {"aborted", "gone"}
    BY ViewFields, Verdicts
  <1> QED  BY <1>1, <1>2 DEF Moves

\* An event handed over is an event of the attempt in hand.
LEMMA GivenView ==
    ASSUME NEW r, NEW e, Midway(r, e)
    PROVE  Moves(StreamView(r), StreamView(Given(r, e)))
  <1> DEFINE q == Given(r, e)
  <1>0. /\ r \in Stream /\ e \in Event /\ r.phase \in Open /\ r.sent \in Seq(Event)
        /\ r.attempts \in 1..HardCeiling /\ e.attempt = r.attempts
        /\ \A n \in DOMAIN r.sent : r.sent[n].attempt = r.attempts
    BY DEF Midway, Sound, Open, Stream
  <1>1. /\ q.sent = (IF e.kind = "framing" THEN r.sent ELSE Append(r.sent, e))
        /\ q.committed = (r.committed \/ e.kind = "content")
        /\ e.kind # "done" => q.phase = r.phase
        /\ e.kind = "done" => q.phase = "done"
    BY <1>0, GivenOutcome
  <1> HIDE DEF q
  <1>2. CASE e.kind = "framing"
    <2>1. q.committed = r.committed /\ r.committed \in BOOLEAN
      BY <1>0, <1>1, <1>2 DEF Stream
    <2> QED  BY <1>0, <1>1, <1>2, <2>1, SameView DEF q
  <1>3. CASE e.kind # "framing"
    <2>1. /\ Len(q.sent) = Len(r.sent) + 1 /\ q.sent \in Seq(Event)
          /\ \A n \in 1..Len(r.sent) : q.sent[n] = r.sent[n]
          /\ q.sent[Len(r.sent) + 1] = e
      BY <1>0, <1>1, <1>3, AppendProperties
    <2>2. \A n \in DOMAIN q.sent : q.sent[n].attempt = r.attempts
      <3>1. ASSUME NEW n \in DOMAIN q.sent PROVE q.sent[n].attempt = r.attempts
        <4>1. n \in 1..Len(r.sent) \/ n = Len(r.sent) + 1
          BY <1>0, <2>1, <3>1
        <4> QED  BY <1>0, <2>1, <4>1
      <3> QED  BY <3>1
    <2>3. Len(r.sent) + 1 \in DOMAIN q.sent
      BY <1>0, <2>1
    <2>4. StreamView(q).sources = {r.attempts}
      BY <2>2, <2>3, ViewFields
    <2>5. StreamView(r).sources \subseteq {r.attempts} /\ StreamView(r).verdict = "open"
      BY <1>0, ViewFields, Verdicts
    <2>6. StreamView(q).verdict = (IF e.kind = "done" THEN "complete" ELSE "open")
      BY <1>0, <1>1, ViewFields, Verdicts
    <2>7. StreamView(q).text = StreamView(r).text \/ (StreamView(q).text = TRUE /\ e.kind # "done")
      <3>1. r.committed \in BOOLEAN
        BY <1>0 DEF Stream
      <3> QED  BY <1>1, <3>1, ViewFields
    <2> QED  BY <1>0, <2>4, <2>5, <2>6, <2>7 DEF Moves, q
  <1> QED  BY <1>2, <1>3

\* A stream that closes after text is complete.
LEMMA CloseView ==
    ASSUME NEW r, Fine(r), r.phase = "relaying", r.committed,
           NEW q, q.sent = r.sent, q.committed = r.committed, q.phase = "done"
    PROVE  Moves(StreamView(r), StreamView(q))
  <1>1. /\ r.attempts \in 1..HardCeiling /\ r.sent # <<>> /\ r.phase \in Open
        /\ \A n \in DOMAIN r.sent : r.sent[n].attempt = r.attempts
    BY DEF Fine, Fed, Open
  <1>2. r.sent \in Seq(Event)
    BY DEF Fine, Sound, Stream
  <1>3. 1 \in DOMAIN r.sent
    BY <1>1, <1>2
  <1>4. StreamView(r).sources = {r.attempts} /\ StreamView(q).sources = {r.attempts}
    BY <1>1, <1>3, ViewFields
  <1>5. StreamView(r).verdict = "open" /\ StreamView(q).verdict = "complete"
        /\ StreamView(q).text = StreamView(r).text
    BY <1>1, ViewFields, Verdicts
  <1> QED  BY <1>1, <1>4, <1>5 DEF Moves

\* An attempt that ends before it is selected: the loop goes on.
LEMMA EarlyStep ==
    ASSUME NEW r, Fine(r), r.phase = "selecting", NEW st, NEW class \in ErrorClass
    PROVE  StepOf(r, Select(Recorded(r, class, "next_candidate"), st), st)
  <1> DEFINE p == Recorded(r, class, "next_candidate")
             q == Select(p, st)
  <1>0. r \in Stream /\ r \in Sound /\ r.phase \in Open
    BY DEF Fine, Sound, Open
  <1>1. /\ r.route \in Routes /\ DOMAIN r.route \subseteq r.tried \cup r.barred \cup r.pending
        /\ r.pending \subseteq DOMAIN r.route
        /\ GoneOn(r) /\ r.attempts = Len(r.log) + 1
        /\ r.sent = <<>> /\ ~r.committed /\ r.committed \in BOOLEAN
    BY <1>0 DEF Fine, Sound, Covered, Numbered, Fed, Stream
  <1>2. class \in ErrorClass \cup {"none"}
    OBVIOUS
  <1>3. /\ p \in Stream
        /\ p.route = r.route /\ p.pending = r.pending /\ p.attempts = r.attempts
        /\ p.committed = r.committed /\ p.sent = r.sent
        /\ p.tried = r.tried /\ p.barred = r.barred
        /\ Len(p.log) = Len(r.log) + 1
        /\ \A n \in DOMAIN r.log : p.log[n] = r.log[n]
        /\ DOMAIN p.log = DOMAIN r.log \cup {Len(r.log) + 1}
        /\ p.log[Len(r.log) + 1].attempt = r.attempts
        /\ p.log[Len(r.log) + 1].action = "next_candidate"
    BY <1>0, <1>2, RecordedOutcome
  <1> HIDE DEF p
  <1>4. p.attempts = Len(p.log) /\ GoneOn(p)
    BY <1>0, <1>1, <1>3, LastEvent
  <1>5. p.committed = FALSE /\ p.sent = <<>>
    BY <1>1, <1>3
  <1>6. /\ q \in Stream /\ Fine(Marked(q, st))
        /\ q.phase \in {"selecting", "aborted", "no_eligible_candidate"}
        /\ q.phase = "selecting" => Eligible(st, Current(q))
        /\ q.sent = <<>> /\ q.committed = FALSE
    BY <1>1, <1>3, <1>4, <1>5, SelectFine
  <1> HIDE DEF q
  <1>7. q.sent = r.sent /\ q.committed = r.committed
    BY <1>1, <1>6
  <1>8. Moves(StreamView(r), StreamView(q))
    <2>1. CASE q.phase = "selecting"
      BY <1>0, <1>7, <2>1, SameView DEF Open
    <2>2. CASE q.phase # "selecting"
      BY <1>0, <1>1, <1>6, <1>7, <2>2, EndView
    <2> QED  BY <2>1, <2>2
  <1> QED  BY <1>6, <1>8 DEF StepOf, q, p
-----------------------------------------------------------------------------
(* The actions.                                                             *)

\* The stream in slot s makes a step, and the store stays a store.
Advances(s) == store' \in Store /\ \E q : Becomes(s, q) /\ StepOf(stream[s], q, store')

\* Streams that are asked for and not opened.
LEMMA RefusedStep ==
    ASSUME NEW r \in Stream, r.phase \notin Open, NEW st,
           NEW q \in Stream, q.phase \in {"aborted", "unknown_virtual_model"},
           q.pending = {}, q.log = <<>>, q.attempts = 0, q.sent = <<>>, q.committed = FALSE
    PROVE  StepOf(r, q, st)
  <1>1. q.phase \notin Open /\ q.phase \notin {"relaying", "no_eligible_candidate",
                                              "partial_stream_failure"}
    BY DEF Open
  <1>2. q \in Sound /\ Fed(q) /\ OneUpstream(q)
    BY <1>1 DEF Sound, Fed, OneUpstream
  <1>3. Numbered(q)
    BY <1>1 DEF Numbered
  <1>4. Marked(q, st).phase = q.phase
    BY MarkedOutcome
  <1>5. Covered(Marked(q, st))
    BY <1>1, <1>4 DEF Covered
  <1>6. Fine(Marked(q, st))
    BY <1>2, <1>3, <1>5, MarkedFine
  <1>7. StreamView(r).verdict # "open"
    BY ViewFields, Verdicts DEF Stream
  <1>8. StreamView(q).verdict \in {"error", "aborted"}
    BY ViewFields, Verdicts
  <1>9. StreamView(q).sources = {} /\ StreamView(q).text = FALSE
    BY ViewFields
  <1>10. Moves(StreamView(r), StreamView(q))
    BY <1>7, <1>8, <1>9 DEF Moves
  <1>11. q.phase # "selecting"
    OBVIOUS
  <1> QED  BY <1>6, <1>10, <1>11 DEF StepOf

LEMMA QuietType == Quiet \in Stream
  <1>1. "idle" \in StreamPhase
    BY DEF StreamPhase
  <1> QED  BY <1>1 DEF Quiet, Stream

\* A request: what the gate leaves and the scorer passes is pending, and what
\* either holds back is barred.
LEMMA OpenStreamStep == ASSUME StreamInv, NEW s \in StreamSlots, OpenStream(s) PROVE Advances(s)
  <1> DEFINE r == stream[s]
  <1>0. /\ store' = store /\ store \in Store
        /\ r \in Stream /\ r.phase \notin Open
    BY DEF StreamInv, StreamTypeInv, OpenStream, Fine, Sound, Closed
  <1>1. PICK route \in Routes, need \in Needs :
          LET gated == Gate(route, need \cup {"stream"})
              asked == [Quiet EXCEPT !.route = route,
                                     !.pending = {i \in gated : Usable(store, route[i])},
                                     !.barred = DOMAIN route \ gated]
          IN  Becomes(s, IF gated = {} THEN [asked EXCEPT !.phase = "aborted"]
                                       ELSE Select(asked, store))
    BY DEF OpenStream
  <1> DEFINE gated == Gate(route, need \cup {"stream"})
             usable == {i \in gated : Usable(store, route[i])}
             barred == DOMAIN route \ gated
             asked == [Quiet EXCEPT !.route = route, !.pending = usable, !.barred = barred]
             refused == [asked EXCEPT !.phase = "aborted"]
  <1>2. Becomes(s, IF gated = {} THEN refused ELSE Select(asked, store))
    BY <1>1
  <1>3. DOMAIN route \subseteq Nat /\ gated \subseteq DOMAIN route
    BY StreamRouteType DEF Gate
  <1>4. usable \in SUBSET Nat /\ barred \in SUBSET Nat /\ usable \subseteq DOMAIN route
    BY <1>3
  <1>5. /\ asked \in Stream
        /\ asked.route = route /\ asked.pending = usable /\ asked.barred = barred
        /\ asked.log = <<>> /\ asked.attempts = 0 /\ asked.sent = <<>>
        /\ asked.committed = FALSE /\ asked.tried = {}
    <2> HIDE DEF usable, barred
    <2> QED  BY <1>4, QuietType DEF Quiet, Stream
  <1>6. CASE gated = {}
    <2>1. usable = {}
      BY <1>6
    <2> HIDE DEF usable, barred, asked
    <2>2. /\ refused \in Stream /\ refused.phase = "aborted"
          /\ refused.pending = {} /\ refused.log = <<>> /\ refused.attempts = 0
          /\ refused.sent = <<>> /\ refused.committed = FALSE
      BY <1>5, <2>1 DEF Stream, StreamPhase
    <2>3. Becomes(s, refused)
      BY <1>2, <1>6
    <2> HIDE DEF refused, r
    <2>4. StepOf(r, refused, store')
      BY <1>0, <2>2, RefusedStep
    <2> QED  BY <1>0, <2>3, <2>4 DEF Advances, r
  <1>7. CASE gated # {}
    <2> DEFINE q == Select(asked, store)
    <2>1. \A i \in DOMAIN asked.route :
             \/ i \in asked.tried \cup asked.barred \cup asked.pending
             \/ ~Eligible(store, asked.route[i])
      <3>1. ASSUME NEW i \in DOMAIN route PROVE i \in barred \cup usable \/ ~Eligible(store, route[i])
        BY DEF Eligible
      <3> HIDE DEF barred, usable, asked
      <3> QED  BY <1>5, <3>1
    <2>2. Becomes(s, q)
      BY <1>2, <1>7
    <2> HIDE DEF usable, barred, gated, asked
    <2>3. asked.attempts = Len(asked.log) /\ GoneOn(asked)
      BY <1>5 DEF GoneOn
    <2>4. /\ q \in Stream /\ Fine(Marked(q, store))
          /\ q.phase \in {"selecting", "aborted", "no_eligible_candidate"}
          /\ q.phase = "selecting" => Eligible(store, Current(q))
          /\ q.sent = <<>> /\ q.committed = FALSE
      BY <1>4, <1>5, <2>1, <2>3, SelectFine
    <2> HIDE DEF q, r
    <2>5. StreamView(r).verdict # "open"
      BY <1>0, ViewFields, Verdicts DEF Stream
    <2>6. StreamView(q).verdict \in {"open", "error", "aborted"}
      BY <2>4, ViewFields, Verdicts DEF Open
    <2>7. StreamView(q).sources = {} /\ StreamView(q).text = FALSE
      BY <2>4, ViewFields
    <2>8. Moves(StreamView(r), StreamView(q))
      BY <2>5, <2>6, <2>7 DEF Moves
    <2>9. StepOf(r, q, store')
      BY <1>0, <2>4, <2>8 DEF StepOf
    <2> QED  BY <1>0, <2>2, <2>9 DEF Advances, r
  <1> QED  BY <1>6, <1>7

LEMMA RefuseStep == ASSUME StreamInv, NEW s \in StreamSlots, Refuse(s) PROVE Advances(s)
  <1> DEFINE r == stream[s]
             q == [Quiet EXCEPT !.phase = "unknown_virtual_model"]
  <1>1. /\ store' = store /\ store \in Store
        /\ r \in Stream /\ r.phase \notin Open
        /\ Becomes(s, q)
    BY DEF StreamInv, StreamTypeInv, Refuse, Fine, Sound, Closed
  <1>2. /\ q \in Stream /\ q.phase = "unknown_virtual_model"
        /\ q.pending = {} /\ q.log = <<>> /\ q.attempts = 0
        /\ q.sent = <<>> /\ q.committed = FALSE
    BY QuietType DEF Quiet, Stream, StreamPhase
  <1> HIDE DEF q, r
  <1>3. StepOf(r, q, store')
    BY <1>1, <1>2, RefusedStep
  <1> QED  BY <1>1, <1>3 DEF Advances, r

\* A stream that is left, or that breaks off, whatever its handler wrote before.
LEMMA LeftStep ==
    ASSUME NEW r, Fine(r), r.phase \in Open, NEW st, NEW phase \in {"aborted", "gone"}
    PROVE  StepOf(r, [r EXCEPT !.phase = phase], st)
  <1> DEFINE q == [r EXCEPT !.phase = phase]
  <1>1. /\ q \in Stream /\ Fine(Marked(q, st))
        /\ q.phase = phase /\ q.sent = r.sent /\ q.committed = r.committed
    BY LeftFine
  <1> HIDE DEF q
  <1>2. Moves(StreamView(r), StreamView(q))
    BY <1>1, EndView
  <1> QED  BY <1>1, <1>2 DEF StepOf, q

LEMMA DisconnectStep == ASSUME StreamInv, NEW s \in StreamSlots, Disconnect(s) PROVE Advances(s)
  <1>1. /\ store' = store /\ store \in Store
        /\ Fine(stream[s]) /\ stream[s].phase \in Open
        /\ Becomes(s, [stream[s] EXCEPT !.phase = "gone"])
    BY DEF StreamInv, StreamTypeInv, Disconnect, Closed
  <1>2. StepOf(stream[s], [stream[s] EXCEPT !.phase = "gone"], store')
    BY <1>1, LeftStep
  <1> QED  BY <1>1, <1>2 DEF Advances

\* An event goes into the buffer; text or [DONE] selects the candidate.
LEMMA BufferStep == ASSUME StreamInv, NEW s \in StreamSlots, Buffer(s) PROVE Advances(s)
  <1> DEFINE r == stream[s]
  <1>0. /\ store' = store /\ store \in Store
        /\ Fine(r) /\ r \in Sound /\ r \in Stream /\ r.phase = "selecting"
    BY DEF StreamInv, StreamTypeInv, Buffer, Selecting, Fine, Sound
  <1>1. PICK kind \in Yields(Current(r)) :
          Becomes(s, [r EXCEPT !.buffered = Append(@, EventOf(r, kind)),
                               !.produced = Append(@, EventOf(r, kind)),
                               !.phase = IF kind = "done" \/ IsValidChunk(kind)
                                         THEN "relaying" ELSE @])
    BY DEF Buffer
  <1> DEFINE e == EventOf(r, kind)
             buffered == Append(r.buffered, e)
             produced == Append(r.produced, e)
             phase == IF kind \in {"content", "done"} THEN "relaying" ELSE "selecting"
             q == [r EXCEPT !.buffered = buffered, !.produced = produced, !.phase = phase]
             m == Marked(q, store')
  <1>2. Becomes(s, q)
    BY <1>0, <1>1 DEF IsValidChunk
  <1>3. kind \in Kind
    BY DEF Yields, Kind
  <1>4. e \in Event /\ e.attempt = r.attempts /\ e.kind = kind
    BY <1>0, <1>3 DEF EventOf, Event, Stream
  <1> HIDE DEF e, r
  <1>5. /\ buffered \in Seq(Event) /\ Len(buffered) = Len(r.buffered) + 1
        /\ \A n \in 1..Len(r.buffered) : buffered[n] = r.buffered[n]
        /\ buffered[Len(r.buffered) + 1] = e
    <2>1. r.buffered \in Seq(Event)
      BY <1>0 DEF Stream
    <2> QED  BY <1>4, <2>1, AppendProperties
  <1>6. /\ produced \in Seq(Event) /\ Len(produced) = Len(r.produced) + 1 /\ produced # <<>>
        /\ \A n \in 1..Len(r.produced) : produced[n] = r.produced[n]
        /\ produced[Len(r.produced) + 1] = e
    <2>1. r.produced \in Seq(Event)
      BY <1>0 DEF Stream
    <2> QED  BY <1>4, <2>1, AppendProperties
  <1>7. phase \in StreamPhase /\ phase \in Open /\ phase \in {"selecting", "relaying"}
    BY DEF StreamPhase, Open
  <1> HIDE DEF buffered, produced, phase
  <1>8. /\ q \in Stream
        /\ q.phase = phase /\ q.buffered = buffered /\ q.produced = produced
        /\ q.route = r.route /\ q.current = r.current /\ q.pending = r.pending
        /\ q.attempts = r.attempts /\ q.committed = r.committed /\ q.log = r.log
        /\ q.sent = r.sent /\ q.tried = r.tried /\ q.barred = r.barred
    BY <1>0, <1>5, <1>6, <1>7 DEF Stream
  <1> HIDE DEF q
  <1>9. q \in Sound
    BY <1>0, <1>6, <1>7, <1>8 DEF Sound, Open, Current
  <1>10. Numbered(q)
    BY <1>0, <1>7, <1>8 DEF Fine, Numbered, GoneOn, Open
  <1>11. Fed(q)
    <2>0. /\ r.attempts \in 1..HardCeiling /\ r.sent = <<>> /\ ~r.committed
          /\ \A n \in DOMAIN r.buffered : r.buffered[n].attempt = r.attempts
          /\ (\E n \in DOMAIN r.buffered : r.buffered[n].kind = "done") =>
                \E n \in DOMAIN r.produced : r.produced[n].kind = "done"
      BY <1>0 DEF Fine, Fed, Open
    <2>1. /\ DOMAIN r.buffered = 1..Len(r.buffered) /\ Len(r.buffered) \in Nat
          /\ DOMAIN r.produced = 1..Len(r.produced) /\ Len(r.produced) \in Nat
      BY <1>0 DEF Stream
    <2>2. /\ DOMAIN buffered = 1..(Len(r.buffered) + 1)
          /\ DOMAIN produced = 1..(Len(r.produced) + 1)
      BY <1>5, <1>6
    <2>3. ASSUME NEW n \in DOMAIN buffered PROVE buffered[n].attempt = r.attempts
      <3>1. n \in 1..Len(r.buffered) \/ n = Len(r.buffered) + 1
        BY <2>1, <2>2, <2>3
      <3> QED  BY <1>4, <1>5, <2>0, <2>1, <3>1
    <2>4. phase = "relaying" => \E n \in DOMAIN buffered : buffered[n].kind \in {"content", "done"}
      <3>1. Len(r.buffered) + 1 \in DOMAIN buffered
        BY <2>1, <2>2
      <3>2. phase = "relaying" => kind \in {"content", "done"}
        BY DEF phase
      <3> QED  BY <1>4, <1>5, <3>1, <3>2
    <2>5. ASSUME NEW n \in DOMAIN buffered, buffered[n].kind = "done"
          PROVE  \E k \in DOMAIN produced : produced[k].kind = "done"
      <3>1. CASE n \in 1..Len(r.buffered)
        <4>1. r.buffered[n].kind = "done" /\ n \in DOMAIN r.buffered
          BY <1>5, <2>1, <2>5, <3>1
        <4>2. PICK k \in DOMAIN r.produced : r.produced[k].kind = "done"
          BY <2>0, <4>1
        <4>3. k \in DOMAIN produced /\ produced[k].kind = "done"
          BY <1>6, <2>1, <2>2, <4>2
        <4> QED  BY <4>3
      <3>2. CASE n = Len(r.buffered) + 1
        <4>1. e.kind = "done"
          BY <1>5, <2>5, <3>2
        <4>2. Len(r.produced) + 1 \in DOMAIN produced
          BY <2>1, <2>2
        <4> QED  BY <1>6, <4>1, <4>2
      <3> QED  BY <2>1, <2>2, <2>5, <3>1, <3>2
    <2>6. q.attempts \in 1..HardCeiling /\ q.sent = <<>> /\ ~q.committed
      BY <1>8, <2>0
    <2>7. /\ \A n \in DOMAIN q.buffered : q.buffered[n].attempt = q.attempts
          /\ \A n \in DOMAIN q.sent : q.sent[n].attempt = q.attempts
      BY <1>8, <2>0, <2>3
    <2>8. (\E n \in DOMAIN q.buffered : q.buffered[n].kind = "done") =>
             \E n \in DOMAIN q.produced : q.produced[n].kind = "done"
      BY <1>8, <2>5
    <2>9. q.phase = "relaying" => \E n \in DOMAIN q.buffered : q.buffered[n].kind \in {"content", "done"}
      BY <1>8, <2>4
    <2> QED  BY <2>6, <2>7, <2>8, <2>9 DEF Fed
  <1>12. Covered(m)
    <2>1. /\ m.phase = q.phase /\ m.route = q.route /\ m.pending = q.pending
          /\ m.tried = q.tried /\ q.barred \subseteq m.barred
      BY <1>8, MarkedOutcome
    <2> HIDE DEF m
    <2>2. r.route \in Routes /\ DOMAIN r.route \subseteq r.tried \cup r.barred \cup r.pending
      BY <1>0 DEF Fine, Covered, Open
    <2>3. m.phase # "no_eligible_candidate"
      BY <1>7, <1>8, <2>1
    <2> QED  BY <1>8, <2>1, <2>2, <2>3 DEF Covered
  <1>13. OneUpstream(q)
    <2>1. q.sent = <<>> /\ q.buffered = q.produced
      <3>1. r.sent = <<>> /\ r.buffered = r.produced
        BY <1>0 DEF Fine, OneUpstream
      <3> QED  BY <1>8, <3>1 DEF buffered, produced
    <2>2. Len(q.produced) - Len(q.buffered) = 0 /\ DOMAIN q.buffered \subseteq Nat
      BY <1>5, <1>8, <2>1
    <2>3. PassedOn(q.sent, q.produced, 0)
      BY <2>1, NothingPassedOn
    <2>4. Unaltered(q)
      BY <2>1, <2>2, <2>3 DEF Unaltered
    <2> QED  BY <2>1, <2>4 DEF OneUpstream
  <1>14. Fine(m)
    BY <1>9, <1>10, <1>11, <1>12, <1>13, MarkedFine
  <1>15. Moves(StreamView(r), StreamView(q))
    BY <1>0, <1>7, <1>8, SameView DEF Open
  <1>16. StepOf(r, q, store')
    BY <1>0, <1>8, <1>14, <1>15 DEF StepOf
  <1> QED  BY <1>0, <1>2, <1>16 DEF Advances, q, r

LEMMA CloseEarlyStep == ASSUME StreamInv, NEW s \in StreamSlots, CloseEarly(s) PROVE Advances(s)
  <1>1. /\ store' = store /\ store \in Store
        /\ Fine(stream[s]) /\ stream[s].phase = "selecting"
        /\ Becomes(s, Select(Recorded(stream[s], "server", "next_candidate"), store))
    BY DEF StreamInv, StreamTypeInv, CloseEarly, Selecting
  <1>2. "server" \in ErrorClass
    BY DEF ErrorClass
  <1>3. StepOf(stream[s], Select(Recorded(stream[s], "server", "next_candidate"), store), store)
    BY <1>1, <1>2, EarlyStep
  <1> QED  BY <1>1, <1>3 DEF Advances

\* The store after a failure of the candidate in hand is a store.
LEMMA FailureStore ==
    ASSUME StreamInv, NEW s \in StreamSlots, stream[s].phase = "selecting", NEW class \in StreamErrors
    PROVE  class \in ErrorClass /\ ApplyFailure(store, Current(stream[s]), class) \in Store
  <1> DEFINE r == stream[s]
  <1>1. store \in Store /\ r \in Sound
    BY DEF StreamInv, StreamTypeInv, Fine
  <1>2. r.current \in DOMAIN r.route /\ Current(r).key # NoKey /\ r.route \in Routes \cup {<<>>}
    BY <1>1 DEF Sound, Open, Stream
  <1>3. Current(r) \in Candidate
    BY <1>2, StreamRouteType DEF Current
  <1>4. class \in ErrorClass
    BY StreamAssumption
  <1> QED  BY <1>1, <1>2, <1>3, <1>4, ApplyFailureType

LEMMA FailEarlyStep == ASSUME StreamInv, NEW s \in StreamSlots, FailEarly(s) PROVE Advances(s)
  <1>1. Fine(stream[s]) /\ stream[s].phase = "selecting"
    BY DEF StreamInv, StreamTypeInv, FailEarly, Selecting
  <1>2. PICK class \in StreamErrors :
           /\ store' = ApplyFailure(store, Current(stream[s]), class)
           /\ Becomes(s, Select(Recorded(stream[s], class, "next_candidate"), store'))
    BY DEF FailEarly
  <1>3. class \in ErrorClass /\ store' \in Store
    BY <1>1, <1>2, FailureStore
  <1>4. StepOf(stream[s], Select(Recorded(stream[s], class, "next_candidate"), store'), store')
    BY <1>1, <1>3, EarlyStep
  <1> QED  BY <1>2, <1>3, <1>4 DEF Advances

\* Handing over the next event is a step.
LEMMA GivenStep ==
    ASSUME NEW r, NEW p, NEW e, NEW st, Midway(p, e),
           p.sent = r.sent, p.committed = r.committed, p.phase = r.phase
    PROVE  StepOf(r, Given(p, e), st)
  <1>1. Given(p, e) \in Stream /\ Fine(Marked(Given(p, e), st))
    BY GivenFine
  <1>2. StreamView(p) = StreamView(r)
    BY DEF StreamView
  <1>3. Moves(StreamView(r), StreamView(Given(p, e)))
    BY <1>2, GivenView
  <1>4. Given(p, e).phase # "selecting"
    <2>1. p \in Stream /\ e \in Event /\ p.phase = "relaying"
      BY DEF Midway, Sound
    <2> QED  BY <2>1, GivenOutcome
  <1> QED  BY <1>1, <1>3, <1>4 DEF StepOf

LEMMA ReplayStep == ASSUME StreamInv, NEW s \in StreamSlots, Replay(s) PROVE Advances(s)
  <1> DEFINE r == stream[s]
             left == Tail(r.buffered)
             e == Head(r.buffered)
             p == [r EXCEPT !.buffered = left]
  <1>0. /\ store' = store /\ store \in Store
        /\ Fine(r) /\ r \in Sound /\ r \in Stream /\ r.phase = "relaying" /\ r.buffered # <<>>
        /\ Becomes(s, Given(p, e))
    BY DEF StreamInv, StreamTypeInv, Replay, Replaying, Fine, Sound
  <1> HIDE DEF r
  <1>1. /\ r.buffered \in Seq(Event) /\ r.buffered # <<>>
        /\ DOMAIN r.buffered = 1..Len(r.buffered) /\ Len(r.buffered) \in Nat
    BY <1>0 DEF Stream
  <1>2. /\ left \in Seq(Event) /\ Len(left) = Len(r.buffered) - 1
        /\ \A n \in 1..Len(left) : left[n] = r.buffered[n + 1]
        /\ e \in Event /\ e = r.buffered[1]
    BY <1>1, HeadTailProperties
  <1>3. DOMAIN left = 1..Len(left)
    BY <1>2
  <1>4. \A n \in DOMAIN left : n + 1 \in DOMAIN r.buffered /\ left[n] = r.buffered[n + 1]
    BY <1>1, <1>2, <1>3
  <1>5. 1 \in DOMAIN r.buffered /\ \A n \in DOMAIN r.buffered : n = 1 \/ n - 1 \in DOMAIN left
    <2>1. Len(r.buffered) >= 1
      BY <1>1
    <2> QED  BY <1>1, <1>2, <1>3, <2>1
  <1>6. \A n \in DOMAIN r.buffered : r.buffered[n] = e \/ \E k \in DOMAIN left : left[k] = r.buffered[n]
    <2> SUFFICES ASSUME NEW n \in DOMAIN r.buffered, n # 1
                 PROVE  \E k \in DOMAIN left : left[k] = r.buffered[n]
      BY <1>2
    <2>1. n - 1 \in DOMAIN left /\ (n - 1) + 1 = n
      BY <1>1, <1>5
    <2>2. left[n - 1] = r.buffered[n]
      BY <1>4, <2>1
    <2> QED  BY <2>1, <2>2
  <1> HIDE DEF left, e
  <1>7. /\ p \in Stream /\ p.buffered = left
        /\ p.phase = r.phase /\ p.route = r.route /\ p.current = r.current
        /\ p.pending = r.pending /\ p.attempts = r.attempts /\ p.committed = r.committed
        /\ p.log = r.log /\ p.sent = r.sent /\ p.produced = r.produced
        /\ p.tried = r.tried /\ p.barred = r.barred
    BY <1>0, <1>2 DEF Stream
  <1> HIDE DEF p
  <1>8. p \in Sound
    BY <1>0, <1>7 DEF Sound, Current
  <1>9. /\ GoneOn(p) /\ p.attempts = Len(p.log) + 1
        /\ p.route \in Routes /\ DOMAIN p.route \subseteq p.tried \cup p.barred \cup p.pending
    BY <1>0, <1>7 DEF Fine, Numbered, Covered, GoneOn, Open
  <1>10. /\ r.attempts \in 1..HardCeiling
         /\ \A n \in DOMAIN r.buffered : r.buffered[n].attempt = r.attempts
         /\ \A n \in DOMAIN r.sent : r.sent[n].attempt = r.attempts
         /\ r.committed => r.sent # <<>>
         /\ \/ r.committed
            \/ \E n \in DOMAIN r.buffered : r.buffered[n].kind \in {"content", "done"}
         /\ (\E n \in DOMAIN r.buffered : r.buffered[n].kind = "done") =>
               \E n \in DOMAIN r.produced : r.produced[n].kind = "done"
    BY <1>0 DEF Fine, Fed, Open
  <1>11. \A n \in DOMAIN left : left[n].attempt = r.attempts
    BY <1>4, <1>10
  <1>12. e.attempt = r.attempts
    BY <1>2, <1>5, <1>10
  <1>13. \/ r.committed
         \/ e.kind \in {"content", "done"}
         \/ \E n \in DOMAIN left : left[n].kind \in {"content", "done"}
    BY <1>6, <1>10
  <1>14. (\E n \in DOMAIN left : left[n].kind = "done") =>
            \E n \in DOMAIN r.produced : r.produced[n].kind = "done"
    BY <1>4, <1>10
  <1>15. LastTaken(p, e)
    <2> DEFINE given == Len(r.produced) - Len(r.buffered)
               taken == Len(p.produced) - Len(p.buffered)
    <2>1. /\ given >= 0 /\ PassedOn(r.sent, r.produced, given)
          /\ \A n \in DOMAIN r.buffered : r.buffered[n] = r.produced[given + n]
      <3>1. Unaltered(r)
        BY <1>0 DEF Fine, OneUpstream
      <3> QED  BY <3>1 DEF Unaltered
    <2>2. Len(r.produced) \in Nat
      BY <1>0 DEF Stream
    <2>3. taken = given + 1 /\ given \in Nat
      <3>1. Len(p.produced) = Len(r.produced) /\ Len(p.buffered) = Len(r.buffered) - 1
        BY <1>2, <1>7
      <3>2. Len(r.buffered) \in Nat /\ given \in Nat
        <4>1. given >= 0
          BY <2>1
        <4> QED  BY <1>1, <2>2, <4>1
      <3> QED  BY <2>2, <3>1, <3>2
    <2> HIDE DEF given, taken
    <2>4. taken >= 1 /\ taken - 1 = given
      BY <2>3
    <2>5. p.produced[taken] = e
      BY <1>2, <1>5, <1>7, <2>1, <2>3
    <2>6. ASSUME NEW n \in DOMAIN p.buffered PROVE p.buffered[n] = p.produced[taken + n]
      <3>1. n \in Nat /\ n + 1 \in DOMAIN r.buffered /\ p.buffered[n] = r.buffered[n + 1]
        BY <1>2, <1>3, <1>4, <1>7, <2>6
      <3>2. given + (n + 1) = taken + n
        BY <2>3, <3>1
      <3> QED  BY <1>7, <2>1, <3>1, <3>2
    <2> QED  BY <1>7, <2>1, <2>4, <2>5, <2>6 DEF LastTaken, taken
  <1>16. Midway(p, e)
    BY <1>0, <1>2, <1>7, <1>8, <1>9, <1>10, <1>11, <1>12, <1>13, <1>14, <1>15 DEF Midway
  <1>17. StepOf(r, Given(p, e), store')
    BY <1>7, <1>16, GivenStep
  <1> QED  BY <1>0, <1>17 DEF Advances, r

LEMMA RelayStep == ASSUME StreamInv, NEW s \in StreamSlots, Relay(s) PROVE Advances(s)
  <1> DEFINE r == stream[s]
  <1>0. /\ store' = store /\ store \in Store
        /\ Fine(r) /\ r \in Sound /\ r \in Stream /\ r.phase = "relaying" /\ r.buffered = <<>>
    BY DEF StreamInv, StreamTypeInv, Relay, Pulling, Fine, Sound
  <1>1. PICK kind \in Yields(Current(r)) :
          Becomes(s, Given([r EXCEPT !.produced = Append(@, EventOf(r, kind))],
                           EventOf(r, kind)))
    BY DEF Relay
  <1> DEFINE e == EventOf(r, kind)
             produced == Append(r.produced, e)
             p == [r EXCEPT !.produced = produced]
  <1>2. Becomes(s, Given(p, e))
    BY <1>1
  <1>3. kind \in Kind
    BY DEF Yields, Kind
  <1>4. e \in Event /\ e.attempt = r.attempts
    BY <1>0, <1>3 DEF EventOf, Event, Stream
  <1> HIDE DEF e, r
  <1>5. /\ produced \in Seq(Event) /\ produced # <<>> /\ Len(produced) = Len(r.produced) + 1
        /\ \A n \in 1..Len(r.produced) : produced[n] = r.produced[n]
        /\ produced[Len(r.produced) + 1] = e
    <2>1. r.produced \in Seq(Event)
      BY <1>0 DEF Stream
    <2> QED  BY <1>4, <2>1, AppendProperties
  <1> HIDE DEF produced
  <1>6. /\ p \in Stream /\ p.produced = produced
        /\ p.phase = r.phase /\ p.route = r.route /\ p.current = r.current
        /\ p.pending = r.pending /\ p.attempts = r.attempts /\ p.committed = r.committed
        /\ p.log = r.log /\ p.sent = r.sent /\ p.buffered = r.buffered
        /\ p.tried = r.tried /\ p.barred = r.barred
    BY <1>0, <1>5 DEF Stream
  <1> HIDE DEF p
  <1>7. p \in Sound
    BY <1>0, <1>5, <1>6 DEF Sound, Current
  <1>8. /\ GoneOn(p) /\ p.attempts = Len(p.log) + 1
        /\ p.route \in Routes /\ DOMAIN p.route \subseteq p.tried \cup p.barred \cup p.pending
    BY <1>0, <1>6 DEF Fine, Numbered, Covered, GoneOn, Open
  <1>9. /\ r.attempts \in 1..HardCeiling /\ r.committed /\ DOMAIN r.buffered = {}
        /\ \A n \in DOMAIN r.sent : r.sent[n].attempt = r.attempts
        /\ r.committed => r.sent # <<>>
    BY <1>0 DEF Fine, Fed, Open
  <1>10. LastTaken(p, e)
    <2>1. Len(r.produced) \in Nat /\ Len(r.buffered) = 0
      BY <1>0 DEF Stream
    <2>2. PassedOn(r.sent, r.produced, Len(r.produced))
      BY <1>0, <2>1 DEF Fine, OneUpstream, Unaltered
    <2>3. PassedOn(r.sent, produced, Len(r.produced))
      BY <1>5, <2>1, <2>2, SamePassedOn
    <2>4. Len(p.produced) - Len(p.buffered) = Len(r.produced) + 1
      BY <1>5, <1>6, <2>1
    <2> QED  BY <1>5, <1>6, <1>9, <2>1, <2>3, <2>4 DEF LastTaken
  <1>11. Midway(p, e)
    BY <1>0, <1>4, <1>6, <1>7, <1>8, <1>9, <1>10 DEF Midway
  <1>12. StepOf(r, Given(p, e), store')
    BY <1>6, <1>11, GivenStep
  <1> QED  BY <1>0, <1>2, <1>12 DEF Advances, r

\* A stream whose buffer is empty has given text to its client.
LEMMA PullingCommitted ==
    ASSUME NEW r, Fine(r), r.phase = "relaying", r.buffered = <<>>
    PROVE  r.committed
  BY DEF Fine, Fed, Open

LEMMA CloseLateStep == ASSUME StreamInv, NEW s \in StreamSlots, CloseLate(s) PROVE Advances(s)
  <1> DEFINE r == stream[s]
             q == [r EXCEPT !.phase = "done"]
  <1>1. /\ store' = store /\ store \in Store
        /\ Fine(r) /\ r.phase = "relaying" /\ r.buffered = <<>>
        /\ Becomes(s, q)
    BY DEF StreamInv, StreamTypeInv, CloseLate, Pulling
  <1> HIDE DEF r
  <1>2. r.committed
    BY <1>1, PullingCommitted
  <1>3. /\ q \in Stream /\ Fine(Marked(q, store'))
        /\ q.phase = "done" /\ q.sent = r.sent /\ q.committed = r.committed
    BY <1>1, LeftFine DEF Open
  <1> HIDE DEF q
  <1>4. Moves(StreamView(r), StreamView(q))
    BY <1>1, <1>2, <1>3, CloseView
  <1>5. StepOf(r, q, store')
    BY <1>3, <1>4 DEF StepOf
  <1> QED  BY <1>1, <1>5 DEF Advances, q, r

\* A stream that fails while it is relayed.
LEMMA FailedStep ==
    ASSUME NEW r, Fine(r), r.phase = "relaying", NEW st, NEW class \in ErrorClass,
           r.committed \/ \E n \in DOMAIN r.produced : r.produced[n].kind = "done"
    PROVE  StepOf(r, Failed(r, class), st)
  <1> DEFINE q == Failed(r, class)
  <1>0. r \in Stream /\ r.phase \in Open
    BY DEF Fine, Sound, Open
  <1>1. q \in Stream /\ Fine(Marked(q, st))
    BY FailedFine
  <1>2. /\ q.phase = (IF r.committed THEN "partial_stream_failure" ELSE "no_eligible_candidate")
        /\ q.sent = r.sent /\ q.committed = r.committed
    BY <1>0, FailedOutcome
  <1> HIDE DEF q
  <1>3. Moves(StreamView(r), StreamView(q))
    BY <1>0, <1>2, EndView
  <1>4. q.phase # "selecting"
    BY <1>2
  <1> QED  BY <1>1, <1>3, <1>4 DEF StepOf, q

LEMMA FailLateStep == ASSUME StreamInv, NEW s \in StreamSlots, FailLate(s) PROVE Advances(s)
  <1>1. /\ store' = store /\ store \in Store
        /\ Fine(stream[s]) /\ stream[s].phase = "relaying" /\ stream[s].buffered = <<>>
    BY DEF StreamInv, StreamTypeInv, FailLate, Pulling
  <1>2. PICK class \in StreamErrors : Becomes(s, Failed(stream[s], class))
    BY DEF FailLate
  <1>3. class \in ErrorClass
    BY StreamAssumption
  <1>4. StepOf(stream[s], Failed(stream[s], class), store')
    BY <1>1, <1>3, PullingCommitted, FailedStep
  <1> QED  BY <1>1, <1>2, <1>4 DEF Advances

LEMMA HandlerRaisesStep == ASSUME StreamInv, NEW s \in StreamSlots, HandlerRaises(s) PROVE Advances(s)
  <1>1. /\ Fine(stream[s]) /\ store \in Store
        /\ stream[s].phase \in Open
        /\ Becomes(s, [stream[s] EXCEPT !.phase = "aborted"])
    BY DEF StreamInv, StreamTypeInv, HandlerRaises, Selecting, Pulling, Open
  <1>2. store' \in Store
    <2>1. CASE /\ stream[s].phase = "selecting"
               /\ \E class \in StreamErrors :
                     store' \in {store, ApplyFailure(store, Current(stream[s]), class)}
      BY <1>1, <2>1, FailureStore
    <2>2. CASE store' = store
      BY <1>1, <2>2
    <2> QED  BY <2>1, <2>2 DEF HandlerRaises, Selecting
  <1>3. StepOf(stream[s], [stream[s] EXCEPT !.phase = "aborted"], store')
    BY <1>1, LeftStep
  <1> QED  BY <1>1, <1>2, <1>3 DEF Advances

\* [DONE] that cannot be recorded: it is in the buffer, or text went before it.
LEMMA SuccessRaisesStep == ASSUME StreamInv, NEW s \in StreamSlots, SuccessRaises(s) PROVE Advances(s)
  <1> DEFINE r == stream[s]
  <1>1. /\ store' = store /\ store \in Store /\ Fine(r) /\ r.phase = "relaying"
        /\ Becomes(s, Failed(r, "server")) \/ Becomes(s, [r EXCEPT !.phase = "aborted"])
    BY DEF StreamInv, StreamTypeInv, SuccessRaises, Replaying, Pulling
  <1>2. CASE Becomes(s, Failed(r, "server"))
    <2>1. r.committed \/ \E n \in DOMAIN r.produced : r.produced[n].kind = "done"
      <3>1. CASE r.buffered = <<>>
        BY <1>1, <3>1, PullingCommitted
      <3>2. CASE r.buffered # <<>>
        <4>1. Head(r.buffered).kind = "done"
          BY <3>2 DEF SuccessRaises, Pulling
        <4>2. r.buffered \in Seq(Event)
          BY <1>1 DEF Fine, Sound, Stream
        <4>3. 1 \in DOMAIN r.buffered /\ r.buffered[1] = Head(r.buffered)
          BY <3>2, <4>2
        <4> QED  BY <1>1, <4>1, <4>3 DEF Fine, Fed, Open
      <3> QED  BY <3>1, <3>2
    <2>2. "server" \in ErrorClass
      BY DEF ErrorClass
    <2>3. StepOf(r, Failed(r, "server"), store')
      BY <1>1, <2>1, <2>2, FailedStep
    <2> QED  BY <1>1, <1>2, <2>3 DEF Advances
  <1>3. CASE Becomes(s, [r EXCEPT !.phase = "aborted"])
    <2>1. StepOf(r, [r EXCEPT !.phase = "aborted"], store')
      BY <1>1, LeftStep DEF Open
    <2> QED  BY <1>1, <1>3, <2>1 DEF Advances
  <1> QED  BY <1>1, <1>2, <1>3

-----------------------------------------------------------------------------
(* The theorems.                                                            *)

LEMMA EveryStepAdvances ==
    ASSUME StreamInv, NEW s \in StreamSlots, OpenStream(s) \/ Refuse(s) \/ Disconnect(s) \/ Proceed(s)
    PROVE  Advances(s)
  BY OpenStreamStep, RefuseStep, DisconnectStep, BufferStep, CloseEarlyStep, FailEarlyStep,
     ReplayStep, RelayStep, CloseLateStep, FailLateStep, HandlerRaisesStep,
     SuccessRaisesStep DEF Proceed

\* Nothing has been asked for: StreamInv holds at first.
LEMMA InitStreamInv == StreamInit => StreamInv
  <1> SUFFICES ASSUME StreamInit PROVE StreamInv
    OBVIOUS
  <1>1. Fine(Quiet)
    <2>1. /\ Quiet.phase = "idle" /\ Quiet.pending = {} /\ Quiet.log = <<>>
          /\ Quiet.attempts = 0 /\ Quiet.sent = <<>>
      BY DEF Quiet
    <2>2. Quiet.phase \notin Open
      BY <2>1 DEF Open
    <2>3. Quiet \in Sound /\ Fed(Quiet) /\ OneUpstream(Quiet) /\ Covered(Quiet)
      BY <2>1, <2>2, QuietType DEF Sound, Fed, OneUpstream, Covered
    <2>4. Numbered(Quiet)
      BY <2>1, <2>2 DEF Numbered
    <2> QED  BY <2>3, <2>4 DEF Fine
  <1> QED  BY <1>1, EmptyStoreType DEF StreamInit, StreamInv, StreamTypeInv, Fine

\* Slots that have not moved keep their stream; stream is a function of the slots.
LEMMA Moved ==
    ASSUME NEW s \in StreamSlots, NEW q, Becomes(s, q), DOMAIN stream = StreamSlots
    PROVE  /\ DOMAIN stream' = StreamSlots
           /\ stream'[s] = Marked(q, store')
           /\ \A t \in StreamSlots \ {s} : stream'[t] = stream[t]
  BY DEF Becomes, Marked
\* A step moves one stream, or none.
LEMMA NextMoves ==
    ASSUME StreamInv, [StreamNext]_streamVars
    PROVE  \/ \E s \in StreamSlots : Advances(s)
           \/ store' \in Store /\ stream' = stream
  <1>1. CASE \E s \in StreamSlots : OpenStream(s) \/ Refuse(s) \/ Disconnect(s) \/ Proceed(s)
    BY <1>1, EveryStepAdvances
  <1>2. CASE StreamTick
    BY <1>2, AgeType DEF StreamTick, StreamInv, StreamTypeInv
  <1>3. CASE UNCHANGED streamVars
    BY <1>3 DEF streamVars, StreamInv, StreamTypeInv
  <1> QED  BY <1>1, <1>2, <1>3 DEF StreamNext

\* The step of one stream keeps the conditions of all streams.
LEMMA AdvanceKeeps ==
    ASSUME StreamInv, NEW s \in StreamSlots, Advances(s)
    PROVE  StreamInv'
  <1>0. DOMAIN stream = StreamSlots /\ \A t \in StreamSlots : Fine(stream[t])
    BY DEF StreamInv, StreamTypeInv
  <1>1. PICK q : Becomes(s, q) /\ StepOf(stream[s], q, store')
    BY DEF Advances
  <1>2. /\ stream'[s] = Marked(q, store')
        /\ \A t \in StreamSlots \ {s} : stream'[t] = stream[t]
    BY <1>0, <1>1, Moved
  <1>3. \A t \in StreamSlots : Fine(stream'[t])
    BY <1>0, <1>1, <1>2 DEF StepOf
  <1>4. stream' = [t \in StreamSlots |-> stream'[t]]
    BY <1>0, <1>1 DEF Becomes, StreamInv, StreamTypeInv
  <1>5. stream' \in [StreamSlots -> Sound]
    BY <1>3, <1>4 DEF Fine
  <1> QED  BY <1>3, <1>5 DEF Advances, StreamInv, StreamTypeInv

\* The conditions do not depend on the store, as long as it is a store.
LEMMA StoreMayChange ==
    ASSUME StreamInv, store' \in Store, stream' = stream
    PROVE  StreamInv'
  BY DEF StreamInv, StreamTypeInv

\* Every step keeps the conditions of every stream.
LEMMA StreamInvStep == StreamInv /\ [StreamNext]_streamVars => StreamInv'
  BY NextMoves, AdvanceKeeps, StoreMayChange

LEMMA StreamInvKept == StreamSpec => []StreamInv
  BY InitStreamInv, StreamInvStep, PTL DEF StreamSpec

\* The type invariant is a part of the conditions.
LEMMA StreamsTyped == StreamInv => StreamTypeOK
  <1> SUFFICES ASSUME StreamInv PROVE StreamTypeOK
    OBVIOUS
  <1>1. \A s \in StreamSlots : stream[s] \in Sound
    BY DEF StreamInv, Fine
  <1>2. stream \in [StreamSlots -> Stream]
    BY <1>1 DEF StreamInv, StreamTypeInv, Sound
  <1> QED  BY <1>1, <1>2 DEF StreamTypeOK, StreamInv, StreamTypeInv, Sound

\* The type invariant of streams: whatever the upstreams send, and whichever
\* writes raise, every stream is in a state the code has a branch for.
THEOREM StreamTypes == StreamSpec => []StreamTypeOK
  BY StreamsTyped, StreamInvKept, PTL

\* The numbers and actions of the route events follow from the conditions.
LEMMA LoggedInOrder == StreamInv => EventPerAttempt
  <1> SUFFICES ASSUME StreamInv, NEW s \in StreamSlots
               PROVE  LET r == stream[s] IN
                      /\ \A n \in DOMAIN r.log :
                            /\ r.log[n].attempt = n
                            /\ r.log[n].action = "success" => n = r.attempts /\ r.phase = "done"
                            /\ r.log[n].action = "partial_stream_failure"
                                  => n = r.attempts /\ r.phase = "partial_stream_failure"
                      /\ Len(r.log) \in {r.attempts} \cup {n \in Nat : n + 1 = r.attempts}
                      /\ r.phase \in {"no_eligible_candidate", "partial_stream_failure"}
                            => Len(r.log) = r.attempts
    BY DEF EventPerAttempt
  <1>1. Numbered(stream[s]) /\ stream[s].log \in Seq(RouteEvent)
    BY DEF StreamInv, Fine, Sound, Stream
  <1> QED  BY <1>1 DEF Numbered

\* The route events of a stream number its attempts one by one, and only the last
\* may be a success or a partial failure, however many routes and attempts there are.
THEOREM AttemptsAreLogged == StreamSpec => []EventPerAttempt
  BY LoggedInOrder, StreamInvKept, PTL

\* What the client of a stream is given is what one upstream sent, unaltered and
\* in order, however long the streams and their buffered prefixes are.
THEOREM ClientsGetWhatWasSent == StreamSpec => []ClientSeesOneUpstream
  <1>1. StreamInv => ClientSeesOneUpstream
    BY DEF StreamInv, Fine, ClientSeesOneUpstream
  <1> QED  BY <1>1, StreamInvKept, PTL

\* That no candidate is passed over follows from the conditions.
LEMMA AllTheWay == StreamInv => NobodyPassedOver
  BY DEF StreamInv, Fine, Covered, NobodyPassedOver

\* A stream that gives up under the ceiling has attempted every candidate of its
\* route that it did not find held back.
THEOREM StreamForgetsNobody == StreamSpec => []NobodyPassedOver
  BY AllTheWay, StreamInvKept, PTL

\* What a step calls is eligible in the store that the step leaves.
LEMMA AdvanceCallsEligible ==
    ASSUME StreamInv, NEW t \in StreamSlots, Advances(t),
           NEW s \in StreamSlots, stream'[s].phase = "selecting",
           stream[s].phase # "selecting" \/ stream'[s].current # stream[s].current
    PROVE  Eligible(store', Current(stream'[s]))
  <1>0. DOMAIN stream = StreamSlots
    BY DEF StreamInv, StreamTypeInv
  <1>1. PICK q : Becomes(t, q) /\ StepOf(stream[t], q, store')
    BY DEF Advances
  <1>2. /\ stream'[t] = Marked(q, store')
        /\ \A u \in StreamSlots \ {t} : stream'[u] = stream[u]
    BY <1>0, <1>1, Moved
  <1>3. s = t
    BY <1>2
  <1>4. q \in Stream
    BY <1>1 DEF StepOf
  <1>5. /\ stream'[s].phase = q.phase /\ stream'[s].current = q.current
        /\ stream'[s].route = q.route
    BY <1>2, <1>3, <1>4, MarkedOutcome
  <1>6. Eligible(store', Current(q))
    BY <1>1, <1>3, <1>5 DEF StepOf
  <1> QED  BY <1>5, <1>6 DEF Current

\* A stream calls only what is eligible when it calls it, however many streams
\* share the store.
THEOREM StreamCallsAreChecked == StreamSpec => CallsAreEligible
  <1> DEFINE Checked == \A s \in StreamSlots :
                LET r == stream'[s] IN
                (/\ r.phase = "selecting"
                 /\ stream[s].phase # "selecting" \/ r.current # stream[s].current)
                   => Eligible(store', Current(r))
  <1>1. StreamInv /\ [StreamNext]_streamVars => Checked
    BY NextMoves, AdvanceCallsEligible
  <1> QED  BY <1>1, StreamInvKept, PTL DEF StreamSpec, CallsAreEligible

\* What the clients see, slot by slot, as the promise reads it.
Shown == [s \in StreamSlots |-> StreamView(stream[s])]

LEMMA InitCommitment == StreamInit => Commitment!Init
  <1> SUFFICES ASSUME StreamInit PROVE Commitment!Init
    OBVIOUS
  <1>1. StreamView(Quiet) = Commitment!Nothing
    <2>1. Quiet.sent = <<>> /\ Quiet.committed = FALSE /\ Quiet.phase = "idle"
      BY DEF Quiet
    <2>2. {Quiet.sent[n].attempt : n \in DOMAIN Quiet.sent} = {}
      BY <2>1
    <2> QED  BY <2>1, <2>2, Verdicts DEF StreamView, Commitment!Nothing
  <1>2. \A s \in StreamSlots : stream[s] = Quiet
    BY DEF StreamInit
  <1> QED  BY <1>1, <1>2 DEF Commitment!Init

LEMMA VerdictOnly ==
    ASSUME NEW sources, NEW text, NEW before, NEW verdict
    PROVE  [[sources |-> sources, text |-> text, verdict |-> before] EXCEPT !.verdict = verdict]
              = [sources |-> sources, text |-> text, verdict |-> verdict]
  OBVIOUS

LEMMA AskedView ==
    ASSUME NEW verdict
    PROVE  [Commitment!Nothing EXCEPT !.verdict = verdict]
              = [sources |-> {}, text |-> FALSE, verdict |-> verdict]
  BY VerdictOnly, Zenon DEF Commitment!Nothing

\* A move of one view is an action of the promise, or no step of it.
LEMMA MovePromise ==
    ASSUME StreamInv, NEW s \in StreamSlots, NEW w,
           Shown' = [Shown EXCEPT ![s] = w],
           w = [sources |-> w.sources, text |-> w.text, verdict |-> w.verdict],
           w.text \in BOOLEAN,
           Moves(StreamView(stream[s]), w)
    PROVE  Commitment!Next \/ Shown' = Shown
  <1> DEFINE v == StreamView(stream[s])
  <1>1. Shown[s] = v /\ DOMAIN Shown = StreamSlots
    BY DEF Shown
  <1>2. v = [sources |-> v.sources, text |-> v.text, verdict |-> v.verdict]
    BY DEF StreamView
  <1>3. v.text \in BOOLEAN
    BY ViewFields DEF StreamInv, Fine, Sound, Stream
  <1> HIDE DEF v
  <1>4. CASE w = v
    <2>1. Shown' = Shown
      BY <1>1, <1>4 DEF Shown
    <2> QED  BY <2>1
  <1>5. CASE /\ v.verdict # "open" /\ w.verdict \in {"open", "error", "aborted"}
             /\ w.sources = {} /\ w.text = FALSE
    <2>1. w = [Commitment!Nothing EXCEPT !.verdict = w.verdict]
      <3>1. PICK sources, text, verdict :
                w = [sources |-> sources, text |-> text, verdict |-> verdict]
        OBVIOUS
      <3>2. sources = {} /\ text = FALSE
        BY <1>5, <3>1
      <3>3. w = [sources |-> {}, text |-> FALSE, verdict |-> w.verdict]
        BY <3>1, <3>2
      <3> QED  BY <3>3, AskedView
    <2>2. Commitment!Ask(s)
      BY <1>1, <1>5, <2>1 DEF Commitment!Ask, Commitment!IsOpen, Shown
    <2> QED  BY <2>2 DEF Commitment!Next
  <1>6. CASE /\ v.verdict = "open" /\ w.verdict \in {"open", "complete"}
             /\ \E attempt \in 1..HardCeiling :
                   v.sources \subseteq {attempt} /\ w.sources = {attempt}
             /\ w.text = v.text \/ (w.text = TRUE /\ w.verdict = "open")
    <2>1. PICK attempt \in 1..HardCeiling :
             v.sources \subseteq {attempt} /\ w.sources = {attempt}
      BY <1>6
    <2>2. CASE w.verdict = "open"
      <3>1. PICK text \in BOOLEAN : w.text = (v.text \/ text)
        <4>1. CASE w.text = v.text
          BY <1>3, <4>1
        <4>2. CASE w.text = TRUE
          BY <4>2
        <4> QED  BY <1>6, <4>1, <4>2
      <3>2. w = [v EXCEPT !.sources = {attempt}, !.text = v.text \/ text]
        BY <1>2, <1>6, <2>1, <2>2, <3>1
      <3>3. Shown' = [Shown EXCEPT ![s].sources = {attempt}, ![s].text = @ \/ text]
        BY <1>1, <3>2 DEF Shown
      <3>4. Commitment!Give(s)
        BY <1>1, <1>6, <2>1, <3>3 DEF Commitment!Give, Commitment!IsOpen, Shown
      <3> QED  BY <3>4 DEF Commitment!Next
    <2>3. CASE w.verdict = "complete"
      <3>1. w = [v EXCEPT !.sources = {attempt}, !.verdict = "complete"]
        BY <1>2, <1>6, <2>1, <2>3
      <3>2. Shown' = [Shown EXCEPT ![s].sources = {attempt}, ![s].verdict = "complete"]
        BY <1>1, <3>1 DEF Shown
      <3>3. Commitment!Complete(s)
        BY <1>1, <1>6, <2>1, <3>2 DEF Commitment!Complete, Commitment!IsOpen, Shown
      <3> QED  BY <3>3 DEF Commitment!Next
    <2> QED  BY <1>6, <2>2, <2>3
  <1>7. CASE /\ v.verdict = "open" /\ w.sources = v.sources /\ w.text = v.text
             /\ \/ w.verdict = "truncated" /\ v.text
                \/ w.verdict = "error" /\ ~v.text
                \/ w.verdict \in {"aborted", "gone"}
    <2>1. w = [v EXCEPT !.verdict = w.verdict]
      BY <1>2, <1>7
    <2>2. Shown' = [Shown EXCEPT ![s].verdict = w.verdict]
      BY <1>1, <2>1 DEF Shown
    <2>3. CASE w.verdict = "truncated" /\ v.text
      <3>1. Commitment!Truncate(s)
        BY <1>1, <1>7, <2>2, <2>3 DEF Commitment!Truncate, Commitment!IsOpen, Shown
      <3> QED  BY <3>1 DEF Commitment!Next
    <2>4. CASE w.verdict = "error" /\ ~v.text
      <3>1. Commitment!Refuse(s)
        BY <1>1, <1>7, <2>2, <2>4 DEF Commitment!Refuse, Commitment!IsOpen, Shown
      <3> QED  BY <3>1 DEF Commitment!Next
    <2>5. CASE w.verdict = "aborted"
      <3>1. Commitment!Break(s)
        BY <1>1, <1>7, <2>2, <2>5 DEF Commitment!Break, Commitment!IsOpen, Shown
      <3> QED  BY <3>1 DEF Commitment!Next
    <2>6. CASE w.verdict = "gone"
      <3>1. Commitment!Leave(s)
        BY <1>1, <1>7, <2>2, <2>6 DEF Commitment!Leave, Commitment!IsOpen, Shown
      <3> QED  BY <3>1 DEF Commitment!Next
    <2> QED  BY <1>7, <2>3, <2>4, <2>5, <2>6
  <1> QED  BY <1>4, <1>5, <1>6, <1>7 DEF Moves, v

LEMMA CommitmentStep ==
    StreamInv /\ [StreamNext]_streamVars => [Commitment!Next]_([s \in StreamSlots |-> StreamView(stream[s])])
  <1> SUFFICES ASSUME StreamInv, [StreamNext]_streamVars
               PROVE  Commitment!Next \/ Shown' = Shown
    BY DEF Shown
  <1>0. DOMAIN stream = StreamSlots
    BY DEF StreamInv, StreamTypeInv
  <1>1. CASE stream' = stream
    BY <1>1 DEF Shown
  <1>2. ASSUME NEW s \in StreamSlots, Advances(s) PROVE Commitment!Next \/ Shown' = Shown
    <2>1. PICK q : Becomes(s, q) /\ StepOf(stream[s], q, store')
      BY <1>2 DEF Advances
    <2>2. /\ stream'[s] = Marked(q, store')
          /\ \A t \in StreamSlots \ {s} : stream'[t] = stream[t]
      BY <1>0, <2>1, Moved
    <2>3. q \in Stream /\ Moves(StreamView(stream[s]), StreamView(q))
      BY <2>1 DEF StepOf
    <2>4. StreamView(stream'[s]) = StreamView(q)
      <3>1. /\ stream'[s].sent = q.sent /\ stream'[s].committed = q.committed
            /\ stream'[s].phase = q.phase
        BY <2>2, <2>3, MarkedOutcome
      <3> QED  BY <3>1 DEF StreamView
    <2>5. Shown' = [Shown EXCEPT ![s] = StreamView(q)]
      BY <2>2, <2>4 DEF Shown
    <2>6. /\ StreamView(q) = [sources |-> StreamView(q).sources, text |-> StreamView(q).text,
                          verdict |-> StreamView(q).verdict]
          /\ StreamView(q).text \in BOOLEAN
      BY <2>3, ViewFields DEF StreamView, Stream
    <2> QED  BY <2>3, <2>5, <2>6, MovePromise
  <1> QED  BY <1>1, <1>2, NextMoves

\* chat_stream keeps the commit semantics its clients are promised: with all its
\* candidates, buffers, failures and faults, a client gets events of one attempt
\* at most, no error event after text, and no [DONE] after a truncation.
THEOREM StreamsKeepPromise == StreamSpec => KeepsPromise
  BY StreamInvKept, InitCommitment, CommitmentStep, PTL DEF StreamSpec, KeepsPromise, Commitment!Spec
=============================================================================
