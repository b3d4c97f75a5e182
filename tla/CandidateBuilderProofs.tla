------------------------ MODULE CandidateBuilderProofs ------------------------
(***************************************************************************)
(* Theorems about configurations and the enumeration of candidates, for    *)
(* every configuration file, every matrix and every number of requests.    *)
(***************************************************************************)
EXTENDS CandidateBuilder, FiniteSetTheorems, WellFoundedInduction, TLAPS

-----------------------------------------------------------------------------
(* Numbers.                                                                 *)

\* A set of numbers that is not empty has a least member, which is its Min.
LEMMA MinExists ==
    ASSUME NEW numbers \in SUBSET Nat, numbers # {}
    PROVE  Min(numbers) \in numbers /\ \A n \in numbers : Min(numbers) <= n
  <1> DEFINE less == OpToRel(<, Nat)
  <1>1. IsWellFoundedOn(less, Nat)
    BY NatLessThanWellFounded
  <1>2. PICK least \in numbers : \A n \in numbers : ~ (<<n, least>> \in less)
    <2> HIDE DEF less
    <2> QED  BY <1>1, WFMin
  <1>3. \A n \in numbers : ~ (n < least)
    BY <1>2 DEF OpToRel
  <1>4. \A n \in numbers : least <= n
    BY <1>3
  <1> QED  BY <1>4 DEF Min

\* Quotient and remainder are unique.
LEMMA RemainderUnique ==
    ASSUME NEW a \in Int, NEW b \in Nat \ {0}, NEW q \in Int, NEW r \in 0..(b - 1), a = b * q + r
    PROVE  a % b = r
  <1> DEFINE s == a % b
             p == a \div b
  <1>1. s \in 0..(b - 1) /\ p \in Int /\ a = b * p + s
    OBVIOUS
  <1> HIDE DEF s, p
  <1>2. b * (q - p) = s - r
    BY <1>1
  <1>3. q = p
    <2>1. ASSUME q - p >= 1 PROVE FALSE
      <3>1. b * (q - p) >= b
        BY <1>1, <2>1
      <3> QED  BY <1>1, <1>2, <3>1
    <2>2. ASSUME q - p <= -1 PROVE FALSE
      <3>1. b * (q - p) <= -b
        BY <1>1, <2>2
      <3> QED  BY <1>1, <1>2, <3>1
    <2> QED  BY <1>1, <2>1, <2>2
  <1>4. s = r
    BY <1>1, <1>2, <1>3
  <1> QED  BY <1>4 DEF s

\* A number below the modulus is its own remainder, also with the modulus added.
LEMMA SmallRemainder ==
    ASSUME NEW b \in Nat \ {0}, NEW r \in 0..(b - 1)
    PROVE  r % b = r /\ (r + b) % b = r
  <1>1. r = b * 0 + r /\ r + b = b * 1 + r
    OBVIOUS
  <1> QED  BY <1>1, RemainderUnique

\* The remainder of the next number.
LEMMA NextRemainder ==
    ASSUME NEW a \in Nat, NEW b \in Nat \ {0}
    PROVE  (a + 1) % b = IF a % b = b - 1 THEN 0 ELSE (a % b) + 1
  <1> DEFINE r == a % b
             q == a \div b
  <1>1. r \in 0..(b - 1) /\ q \in Int /\ a = b * q + r
    OBVIOUS
  <1> HIDE DEF r, q
  <1>2. CASE r = b - 1
    <2>1. a + 1 = b * (q + 1) + 0
      BY <1>1, <1>2
    <2>2. (a + 1) % b = 0
      BY <1>1, <2>1, RemainderUnique
    <2> QED  BY <1>2, <2>2 DEF r
  <1>3. CASE r # b - 1
    <2>1. a + 1 = b * q + (r + 1) /\ r + 1 \in 0..(b - 1)
      BY <1>1, <1>3
    <2>2. (a + 1) % b = r + 1
      BY <1>1, <2>1, RemainderUnique
    <2> QED  BY <1>3, <2>2 DEF r
  <1> QED  BY <1>2, <1>3

\* Equal remainders stay equal when both numbers grow, or shrink, by one.
LEMMA RemaindersInStep ==
    ASSUME NEW a \in Nat, NEW c \in Nat, NEW b \in Nat \ {0}
    PROVE  (a + 1) % b = (c + 1) % b <=> a % b = c % b
  <1>1. a % b \in 0..(b - 1) /\ c % b \in 0..(b - 1)
    OBVIOUS
  <1>2. (a + 1) % b = IF a % b = b - 1 THEN 0 ELSE (a % b) + 1
    BY NextRemainder
  <1>3. (c + 1) % b = IF c % b = b - 1 THEN 0 ELSE (c % b) + 1
    BY NextRemainder
  <1> DEFINE r == a % b
             t == c % b
  <1> HIDE DEF r, t
  <1>4. r \in 0..(b - 1) /\ t \in 0..(b - 1)
    BY <1>1 DEF r, t
  <1>5. (IF r = b - 1 THEN 0 ELSE r + 1) = (IF t = b - 1 THEN 0 ELSE t + 1) <=> r = t
    BY <1>4
  <1> QED  BY <1>2, <1>3, <1>5 DEF r, t

\* The counter, kept modulo a multiple of the pool's size, goes through the pool as
\* if it were not.
LEMMA CounterWraps ==
    ASSUME NEW period \in Nat \ {0}, NEW b \in Nat \ {0}, period % b = 0,
           NEW a \in 0..(period - 1)
    PROVE  ((a + 1) % period) % b = (a + 1) % b
  <1>1. CASE a + 1 = period
    <2>1. 0 % period = 0 /\ 0 % b = 0 /\ (0 + period) % period = 0
      BY SmallRemainder
    <2>2. (a + 1) % period = 0 /\ (a + 1) % b = 0
      BY <1>1, <2>1
    <2> QED  BY <2>1, <2>2
  <1>2. CASE a + 1 # period
    <2>1. a + 1 \in 0..(period - 1)
      BY <1>2
    <2>2. (a + 1) % period = a + 1
      BY <2>1, SmallRemainder
    <2> QED  BY <2>2
  <1> QED  BY <1>1, <1>2

\* A sequence that is not empty has a first member.
LEMMA NotEmpty ==
    ASSUME NEW S, NEW seq \in Seq(S)
    PROVE  /\ DOMAIN seq = 1..Len(seq) /\ Len(seq) \in Nat
           /\ seq # <<>> => Len(seq) # 0 /\ 1 \in DOMAIN seq
  <1>1. Len(seq) \in Nat /\ DOMAIN seq = 1..Len(seq)
    OBVIOUS
  <1>2. Len(seq) = 0 => seq = <<>>
    OBVIOUS
  <1> QED  BY <1>1, <1>2

-----------------------------------------------------------------------------
(* Concatenation.                                                           *)

\* What f says of the concatenation of the first sequences, up to the n-th.
Concatenates(f, n, ss) ==
    f = [i \in 1..n |-> IF i = 1 THEN ss[i] ELSE f[i - 1] \o ss[i]]

\* Such a function exists, whatever n.
LEMMA ConcatenationExists ==
    ASSUME NEW n \in Nat, NEW ss
    PROVE  \E f : Concatenates(f, n, ss)
  <1> DEFINE missing == {m \in Nat : ~ \E f : Concatenates(f, m, ss)}
  <1>1. ASSUME missing # {} PROVE FALSE
    <2> DEFINE m == Min(missing)
    <2>1. missing \in SUBSET Nat
      OBVIOUS
    <2>2. m \in missing /\ \A k \in missing : m <= k
      <3> HIDE DEF missing
      <3> QED  BY <1>1, <2>1, MinExists
    <2>3. m \in Nat /\ ~ \E f : Concatenates(f, m, ss)
      BY <2>2
    <2>4. \A k \in Nat : k \in missing => m <= k
      BY <2>2
    <2> HIDE DEF m
    <2>5. CASE m = 0
      <3> DEFINE f == [i \in 1..0 |-> 0]
      <3>1. 1..0 = {}
        OBVIOUS
      <3>2. Concatenates(f, 0, ss)
        BY <3>1 DEF Concatenates
      <3> QED  BY <2>3, <2>5, <3>2
    <2>6. CASE m # 0
      <3>1. m - 1 \in Nat /\ m - 1 \notin missing
        <4>1. m - 1 \in Nat /\ ~ (m <= m - 1)
          BY <2>3, <2>6
        <4> HIDE DEF missing
        <4> QED  BY <2>4, <4>1
      <3>2. PICK g : Concatenates(g, m - 1, ss)
        BY <3>1
      <3> DEFINE f == [i \in 1..m |-> IF i = 1 THEN ss[i] ELSE g[i - 1] \o ss[i]]
      <3>3. \A i \in 1..(m - 1) : f[i] = g[i]
        <4>1. \A i \in 1..(m - 1) : g[i] = IF i = 1 THEN ss[i] ELSE g[i - 1] \o ss[i]
          BY <3>2 DEF Concatenates
        <4>2. \A i \in 1..(m - 1) : i \in 1..m
          BY <2>3
        <4> QED  BY <4>1, <4>2
      <3>4. \A i \in 1..m : i # 1 => f[i - 1] = g[i - 1]
        <4>1. \A i \in 1..m : i # 1 => i - 1 \in 1..(m - 1)
          BY <2>3
        <4> HIDE DEF f
        <4> QED  BY <3>3, <4>1
      <3> DEFINE h == [i \in 1..m |-> IF i = 1 THEN ss[i] ELSE f[i - 1] \o ss[i]]
      <3>5. f = h
        BY <3>4
      <3>6. Concatenates(f, m, ss)
        BY <3>5 DEF Concatenates
      <3> QED  BY <2>3, <3>6
    <2> QED  BY <2>5, <2>6
  <1> QED  BY <1>1

\* FlattenSeq is the last value of such a function.
LEMMA FlattenIsConcatenation ==
    ASSUME NEW ss, Len(ss) \in Nat \ {0}
    PROVE  \E f : Concatenates(f, Len(ss), ss) /\ FlattenSeq(ss) = f[Len(ss)]
  <1> DEFINE flatten[i \in 1..Len(ss)] == IF i = 1 THEN ss[i] ELSE flatten[i - 1] \o ss[i]
  <1>1. FlattenSeq(ss) = flatten[Len(ss)]
    BY DEF FlattenSeq
  <1>2. \E f : f = [i \in 1..Len(ss) |-> IF i = 1 THEN ss[i] ELSE f[i - 1] \o ss[i]]
    BY ConcatenationExists DEF Concatenates
  <1>3. flatten = [i \in 1..Len(ss) |-> IF i = 1 THEN ss[i] ELSE flatten[i - 1] \o ss[i]]
    BY <1>2
  <1> HIDE DEF flatten
  <1> QED  BY <1>1, <1>3 DEF Concatenates

\* Sequence q consists of the members of the first n sequences, in order as far as
\* it matters here: none is missing, none is added, and what is first comes first.
Gathers(q, n, ss) ==
    /\ \A k \in 1..n : \A j \in DOMAIN ss[k] : \E i \in DOMAIN q : q[i] = ss[k][j]
    /\ \A i \in DOMAIN q : \E k \in 1..n : \E j \in DOMAIN ss[k] : q[i] = ss[k][j]
    /\ ss[1] # <<>> => q # <<>> /\ q[1] = ss[1][1]

\* Appending the next sequence gathers one more.
LEMMA GathersNext ==
    ASSUME NEW S, NEW ss \in Seq(Seq(S)), NEW n \in Nat \ {0}, n + 1 <= Len(ss),
           NEW q \in Seq(S), Gathers(q, n, ss)
    PROVE  q \o ss[n + 1] \in Seq(S) /\ Gathers(q \o ss[n + 1], n + 1, ss)
  <1> DEFINE s == ss[n + 1]
             r == q \o s
  <1>1. s \in Seq(S)
    OBVIOUS
  <1>2. 1..(n + 1) = 1..n \cup {n + 1}
    OBVIOUS
  <1> HIDE DEF s
  <1>3. /\ r \in Seq(S)
        /\ Len(r) = Len(q) + Len(s)
        /\ \A i \in DOMAIN q : i \in DOMAIN r /\ r[i] = q[i]
        /\ \A j \in DOMAIN s : Len(q) + j \in DOMAIN r /\ r[Len(q) + j] = s[j]
        /\ \A i \in DOMAIN r : i \notin DOMAIN q => i - Len(q) \in DOMAIN s /\ r[i] = s[i - Len(q)]
    BY <1>1
  <1> HIDE DEF r
  <1>4. \A k \in 1..(n + 1) : \A j \in DOMAIN ss[k] : \E i \in DOMAIN r : r[i] = ss[k][j]
    <2>1. ASSUME NEW k \in 1..n, NEW j \in DOMAIN ss[k]
          PROVE  \E i \in DOMAIN r : r[i] = ss[k][j]
      <3>1. PICK i \in DOMAIN q : q[i] = ss[k][j]
        BY <2>1 DEF Gathers
      <3> QED  BY <1>3, <3>1
    <2>2. ASSUME NEW j \in DOMAIN s PROVE \E i \in DOMAIN r : r[i] = s[j]
      BY <1>3, <2>2
    <2> QED  BY <1>2, <2>1, <2>2 DEF s
  <1>5. \A i \in DOMAIN r : \E k \in 1..(n + 1) : \E j \in DOMAIN ss[k] : r[i] = ss[k][j]
    <2>1. ASSUME NEW i \in DOMAIN q
          PROVE  \E k \in 1..(n + 1) : \E j \in DOMAIN ss[k] : r[i] = ss[k][j]
      <3>1. PICK k \in 1..n : \E j \in DOMAIN ss[k] : q[i] = ss[k][j]
        BY <2>1 DEF Gathers
      <3>2. k \in 1..(n + 1) /\ r[i] = q[i]
        BY <1>2, <1>3
      <3> QED  BY <3>1, <3>2
    <2>2. ASSUME NEW i \in DOMAIN r, i \notin DOMAIN q
          PROVE  \E k \in 1..(n + 1) : \E j \in DOMAIN ss[k] : r[i] = ss[k][j]
      <3>1. i - Len(q) \in DOMAIN s /\ r[i] = s[i - Len(q)]
        BY <1>3, <2>2
      <3>2. n + 1 \in 1..(n + 1)
        BY <1>2
      <3> QED  BY <3>1, <3>2 DEF s
    <2> QED  BY <2>1, <2>2
  <1>6. ss[1] # <<>> => r # <<>> /\ r[1] = ss[1][1]
    <2> SUFFICES ASSUME ss[1] # <<>> PROVE r # <<>> /\ r[1] = ss[1][1]
      OBVIOUS
    <2>1. q # <<>> /\ q[1] = ss[1][1]
      BY DEF Gathers
    <2>2. 1 \in DOMAIN q
      BY <2>1
    <2>3. 1 \in DOMAIN r /\ r[1] = q[1]
      BY <1>3, <2>2
    <2> QED  BY <1>3, <2>1, <2>3
  <1>7. Gathers(r, n + 1, ss)
    BY <1>4, <1>5, <1>6 DEF Gathers
  <1> QED  BY <1>3, <1>7 DEF r, s

\* FlattenSeq gathers all.
LEMMA FlattenGathers ==
    ASSUME NEW S, NEW ss \in Seq(Seq(S)), ss # <<>>
    PROVE  FlattenSeq(ss) \in Seq(S) /\ Gathers(FlattenSeq(ss), Len(ss), ss)
  <1>1. Len(ss) \in Nat \ {0}
    OBVIOUS
  <1>2. PICK f : Concatenates(f, Len(ss), ss) /\ FlattenSeq(ss) = f[Len(ss)]
    BY <1>1, FlattenIsConcatenation
  <1>3. \A i \in 1..Len(ss) : f[i] = IF i = 1 THEN ss[i] ELSE f[i - 1] \o ss[i]
    BY <1>2 DEF Concatenates
  <1> DEFINE Done(i) == f[i] \in Seq(S) /\ Gathers(f[i], i, ss)
             missing == {i \in Nat : i \in 1..Len(ss) /\ ~ Done(i)}
  <1>4. Done(1)
    <2>1. 1 \in 1..Len(ss) /\ 1..1 = {1} /\ ss[1] \in Seq(S)
      BY <1>1
    <2>2. f[1] = ss[1]
      BY <1>3, <2>1
    <2>3. Gathers(ss[1], 1, ss)
      BY <2>1 DEF Gathers
    <2> QED  BY <2>1, <2>2, <2>3
  <1>5. ASSUME NEW n \in Nat \ {0}, n + 1 <= Len(ss), Done(n) PROVE Done(n + 1)
    <2>1. /\ f[n] \o ss[n + 1] \in Seq(S)
          /\ Gathers(f[n] \o ss[n + 1], n + 1, ss)
      BY <1>5, GathersNext
    <2>2. n + 1 \in 1..Len(ss) /\ n + 1 # 1 /\ (n + 1) - 1 = n
      BY <1>1, <1>5
    <2>3. f[n + 1] = f[n] \o ss[n + 1]
      BY <1>3, <2>2
    <2> QED  BY <2>1, <2>3
  <1>6. ASSUME missing # {} PROVE FALSE
    <2> DEFINE m == Min(missing)
    <2>1. missing \in SUBSET Nat
      OBVIOUS
    <2>2. m \in missing /\ \A k \in missing : m <= k
      <3> HIDE DEF missing
      <3> QED  BY <1>6, <2>1, MinExists
    <2> HIDE DEF m
    <2>3. m \in Nat /\ m \in 1..Len(ss) /\ ~ Done(m)
      BY <2>2
    <2> HIDE DEF Done
    <2>4. m # 1
      BY <1>4, <2>3
    <2>5. m - 1 \in Nat \ {0} /\ (m - 1) + 1 <= Len(ss) /\ m - 1 \in 1..Len(ss) /\ ~ (m <= m - 1)
      BY <1>1, <2>3, <2>4
    <2>6. Done(m - 1)
      BY <2>2, <2>5
    <2>7. Done((m - 1) + 1)
      BY <1>5, <2>5, <2>6
    <2>8. (m - 1) + 1 = m
      BY <2>3
    <2> QED  BY <2>3, <2>7, <2>8
  <1>7. Done(Len(ss))
    <2>1. Len(ss) \in Nat /\ Len(ss) \in 1..Len(ss)
      BY <1>1
    <2> HIDE DEF Done
    <2> QED  BY <1>6, <2>1
  <1> QED  BY <1>2, <1>7

-----------------------------------------------------------------------------
(* The order of a pool's keys.                                              *)

\* The keys that come before key i, and how many they are.
Before(keys, i) == {j \in DOMAIN keys : Outranks(keys, j, i)}

\* _order_keys orders all keys of a pool one after the other.
LEMMA OutranksIsAnOrder ==
    ASSUME NEW keys \in Seq(KeyConfig)
    PROVE  /\ \A i \in DOMAIN keys : ~ Outranks(keys, i, i)
           /\ \A i, j, k \in DOMAIN keys :
                 Outranks(keys, i, j) /\ Outranks(keys, j, k) => Outranks(keys, i, k)
           /\ \A i, j \in DOMAIN keys :
                 i = j \/ Outranks(keys, i, j) \/ Outranks(keys, j, i)
  <1>1. DOMAIN keys \subseteq Nat
    OBVIOUS
  <1>2. \A i \in DOMAIN keys : keys[i].priority \in Nat /\ keys[i].reserve \in BOOLEAN
    <2>1. \A i \in DOMAIN keys : keys[i] \in KeyConfig
      OBVIOUS
    <2> QED  BY <2>1 DEF KeyConfig
  <1>3. ASSUME NEW i \in DOMAIN keys PROVE ~ Outranks(keys, i, i)
    <2>1. i \in Nat /\ keys[i].priority \in Nat /\ keys[i].reserve \in BOOLEAN
      BY <1>1, <1>2
    <2>2. ~ (i < i) /\ ~ (keys[i].priority > keys[i].priority)
      BY <2>1
    <2> QED  BY <2>2 DEF Outranks
  <1>4. ASSUME NEW i \in DOMAIN keys, NEW j \in DOMAIN keys, NEW k \in DOMAIN keys,
               Outranks(keys, i, j), Outranks(keys, j, k)
        PROVE  Outranks(keys, i, k)
    <2>1. i \in Nat /\ j \in Nat /\ k \in Nat
      BY <1>1
    <2>2. /\ keys[i].priority \in Nat /\ keys[j].priority \in Nat /\ keys[k].priority \in Nat
          /\ keys[i].reserve \in BOOLEAN /\ keys[j].reserve \in BOOLEAN /\ keys[k].reserve \in BOOLEAN
      BY <1>2
    <2> DEFINE pi == keys[i].priority
               pj == keys[j].priority
               pk == keys[k].priority
    <2>3. pi >= pj /\ pj >= pk
      BY <1>4, <2>2 DEF Outranks
    <2>4. CASE pi > pj \/ pj > pk
      <3>1. pi > pk
        BY <2>2, <2>3, <2>4
      <3> QED  BY <3>1 DEF Outranks
    <2>5. CASE pi = pj /\ pj = pk
      <3>1. \/ ~keys[i].reserve /\ keys[j].reserve
            \/ keys[i].reserve = keys[j].reserve /\ i < j
        BY <1>4, <2>2, <2>5 DEF Outranks
      <3>2. \/ ~keys[j].reserve /\ keys[k].reserve
            \/ keys[j].reserve = keys[k].reserve /\ j < k
        BY <1>4, <2>2, <2>5 DEF Outranks
      <3>3. \/ ~keys[i].reserve /\ keys[k].reserve
            \/ keys[i].reserve = keys[k].reserve /\ i < k
        BY <2>1, <2>2, <3>1, <3>2
      <3> QED  BY <2>5, <3>3 DEF Outranks
    <2> QED  BY <2>2, <2>3, <2>4, <2>5
  <1>5. ASSUME NEW i \in DOMAIN keys, NEW j \in DOMAIN keys
        PROVE  i = j \/ Outranks(keys, i, j) \/ Outranks(keys, j, i)
    <2>1. i \in Nat /\ j \in Nat
      BY <1>1
    <2>2. /\ keys[i].priority \in Nat /\ keys[j].priority \in Nat
          /\ keys[i].reserve \in BOOLEAN /\ keys[j].reserve \in BOOLEAN
      BY <1>2
    <2> QED  BY <2>1, <2>2 DEF Outranks
  <1> QED  BY <1>3, <1>4, <1>5

\* How many keys come before a key is its place in the pool, counted from zero; no
\* two keys have the same place.
LEMMA Places ==
    ASSUME NEW keys \in Seq(KeyConfig)
    PROVE  /\ \A i \in DOMAIN keys : Cardinality(Before(keys, i)) \in 0..(Len(keys) - 1)
           /\ \A i, j \in DOMAIN keys :
                 Cardinality(Before(keys, i)) = Cardinality(Before(keys, j)) => i = j
  <1> DEFINE D == DOMAIN keys
  <1>1. D = 1..Len(keys) /\ Len(keys) \in Nat
    OBVIOUS
  <1>2. IsFiniteSet(D) /\ Cardinality(D) = Len(keys)
    BY <1>1, FS_Interval
  <1>3. \A i \in D : Before(keys, i) \subseteq D /\ i \notin Before(keys, i)
    BY OutranksIsAnOrder DEF Before
  <1>4. \A i \in D : IsFiniteSet(Before(keys, i)) /\ Cardinality(Before(keys, i)) \in Nat
    BY <1>2, <1>3, FS_Subset, FS_CardinalityType
  <1>5. ASSUME NEW i \in D PROVE Cardinality(Before(keys, i)) \in 0..(Len(keys) - 1)
    <2>1. Cardinality(Before(keys, i)) <= Len(keys)
      BY <1>2, <1>3, FS_Subset
    <2>2. Cardinality(Before(keys, i)) # Len(keys)
      BY <1>2, <1>3, FS_Subset
    <2> QED  BY <1>1, <1>4, <2>1, <2>2
  <1>6. ASSUME NEW i \in D, NEW j \in D, Outranks(keys, i, j)
        PROVE  Cardinality(Before(keys, i)) # Cardinality(Before(keys, j))
    <2>1. Before(keys, i) \subseteq Before(keys, j)
      BY <1>6, OutranksIsAnOrder DEF Before
    <2>2. i \in Before(keys, j) /\ i \notin Before(keys, i)
      BY <1>3, <1>6 DEF Before
    <2> QED  BY <1>4, <2>1, <2>2, FS_Subset
  <1>7. \A i, j \in D : i = j \/ Outranks(keys, i, j) \/ Outranks(keys, j, i)
    BY OutranksIsAnOrder
  <1> QED  BY <1>5, <1>6, <1>7

\* Each key is in the order, in its place.
LEMMA RankedHolds ==
    ASSUME NEW keys \in Seq(KeyConfig), NEW i \in DOMAIN keys
    PROVE  /\ Cardinality(Before(keys, i)) + 1 \in DOMAIN keys
           /\ Ranked(keys)[Cardinality(Before(keys, i)) + 1] = keys[i]
  <1> DEFINE n == Cardinality(Before(keys, i)) + 1
  <1>1. n \in DOMAIN keys /\ Cardinality(Before(keys, i)) = n - 1
    BY Places
  <1>2. \A j \in DOMAIN keys : Cardinality(Before(keys, j)) = n - 1 => j = i
    BY <1>1, Places
  <1> HIDE DEF n
  <1>3. (CHOOSE j \in DOMAIN keys : Cardinality(Before(keys, j)) = n - 1) = i
    BY <1>1, <1>2
  <1>4. Ranked(keys)[n] = keys[CHOOSE j \in DOMAIN keys : Cardinality(Before(keys, j)) = n - 1]
    BY <1>1 DEF Ranked, Before
  <1> QED  BY <1>1, <1>3, <1>4 DEF n

\* Each place in the order is that of a key.
LEMMA RankedIsFull ==
    ASSUME NEW keys \in Seq(KeyConfig), NEW n \in DOMAIN keys
    PROVE  \E i \in DOMAIN keys : n = Cardinality(Before(keys, i)) + 1 /\ Ranked(keys)[n] = keys[i]
  <1> DEFINE D == DOMAIN keys
             place == [i \in D |-> Cardinality(Before(keys, i)) + 1]
  <1>1. D = 1..Len(keys) /\ Len(keys) \in Nat
    OBVIOUS
  <1>2. IsFiniteSet(D)
    BY <1>1, FS_Interval
  <1>3. \A i \in D : place[i] \in D
    BY RankedHolds
  <1>4. \A i, j \in D : place[i] = place[j] => i = j
    <2>1. \A i \in D : Cardinality(Before(keys, i)) \in Nat
      BY <1>1, Places
    <2> QED  BY <2>1, Places
  <1>5. place \in Injection(D, D)
    <2>1. place \in [D -> D]
      BY <1>3
    <2> HIDE DEF place
    <2> QED  BY <1>4, <2>1 DEF Injection, IsInjective
  <1> HIDE DEF place
  <1>6. place \in Surjection(D, D)
    BY <1>2, <1>5, FS_Injection
  <1>7. PICK i \in D : place[i] = n
    BY <1>6 DEF Surjection
  <1> QED  BY <1>7, RankedHolds DEF place

-----------------------------------------------------------------------------
(* The model of a step.                                                     *)

\* The positions of the models that a name may stand for.
Matching(conf, name) ==
    LET models    == conf.models
        preferred == {i \in DOMAIN models : models[i].default}
    IN  IF name # NoModel THEN {i \in DOMAIN models : models[i].id = name}
        ELSE IF preferred # {} THEN preferred
        ELSE DOMAIN models

\* A step has a model when there is one that its name may stand for, and it is that.
LEMMA ModelOfMatching ==
    ASSUME NEW conf \in ProviderConfig, NEW name
    PROVE  /\ Matching(conf, name) \in SUBSET DOMAIN conf.models
           /\ Matching(conf, name) # {} =>
                 /\ Min(Matching(conf, name)) \in Matching(conf, name)
                 /\ ModelOf(conf, name) = conf.models[Min(Matching(conf, name))]
                 /\ ModelOf(conf, name).id \in ModelIds
           /\ ModelOf(conf, name).id = NoModel <=> Matching(conf, name) = {}
  <1> DEFINE matching == Matching(conf, name)
  <1>1. conf.models \in Seq(ModelConfig)
    BY DEF ProviderConfig
  <1>2. matching \in SUBSET DOMAIN conf.models
    BY DEF Matching
  <1>3. DOMAIN conf.models \subseteq Nat
    BY <1>1
  <1>4. \A i \in DOMAIN conf.models : conf.models[i].id \in ModelIds
    <2>1. \A i \in DOMAIN conf.models : conf.models[i] \in ModelConfig
      BY <1>1
    <2> QED  BY <2>1 DEF ModelConfig
  <1>5. ModelOf(conf, name) = IF matching = {} THEN [id |-> NoModel, default |-> FALSE, caps |-> {}]
                              ELSE conf.models[Min(matching)]
    BY DEF ModelOf, Matching
  <1> HIDE DEF matching
  <1>6. matching # {} => Min(matching) \in matching
    BY <1>2, <1>3, MinExists
  <1>7. matching # {} => ModelOf(conf, name).id \in ModelIds
    BY <1>2, <1>4, <1>5, <1>6
  <1>8. matching = {} => ModelOf(conf, name).id = NoModel
    BY <1>5
  <1> QED  BY <1>2, <1>5, <1>6, <1>7, <1>8, BuilderAssumption DEF matching

\* What validation and enumeration read of a provider is the same in both, but for
\* the capabilities of its models and the strategy of its pool.
SameButCaps(conf, other) ==
    /\ other.type = conf.type /\ other.url = conf.url /\ other.enabled = conf.enabled
    /\ other.keys = conf.keys
    /\ DOMAIN other.models = DOMAIN conf.models
    /\ \A i \in DOMAIN conf.models :
          /\ other.models[i].id = conf.models[i].id
          /\ other.models[i].default = conf.models[i].default

\* Then a step finds a model in the one when it finds one in the other.
LEMMA SameModelFound ==
    ASSUME NEW conf \in ProviderConfig, NEW other \in ProviderConfig, NEW name,
           SameButCaps(conf, other)
    PROVE  ModelOf(other, name).id = NoModel <=> ModelOf(conf, name).id = NoModel
  <1>1. {i \in DOMAIN other.models : other.models[i].id = name}
           = {i \in DOMAIN conf.models : conf.models[i].id = name}
    BY DEF SameButCaps
  <1>2. {i \in DOMAIN other.models : other.models[i].default}
           = {i \in DOMAIN conf.models : conf.models[i].default}
    BY DEF SameButCaps
  <1>3. DOMAIN other.models = DOMAIN conf.models
    BY DEF SameButCaps
  <1>4. Matching(other, name) = Matching(conf, name)
    BY <1>1, <1>2, <1>3 DEF Matching
  <1> QED  BY <1>4, ModelOfMatching

\* The matrix changes nothing but capabilities, and the strategy.
LEMMA MatrixKeeps ==
    ASSUME NEW c, IsGatewayConfig(c), NEW p \in DOMAIN c.providers
    PROVE  /\ WithMatrix(c).providers[p] \in ProviderConfig
           /\ SameButCaps(c.providers[p], WithMatrix(c).providers[p])
           /\ WithMatrix(c).providers[p].strategy = "priority"
  <1> DEFINE conf == c.providers[p]
             NewModel(i) ==
                IF <<p, conf.models[i].id>> \in DOMAIN Matrix
                THEN [conf.models[i] EXCEPT !.caps = Matrix[<<p, conf.models[i].id>>]]
                ELSE conf.models[i]
             models == [i \in DOMAIN conf.models |-> NewModel(i)]
             other == [conf EXCEPT !.strategy = "priority", !.models = models]
  <1>1. conf \in ProviderConfig
    BY DEF IsGatewayConfig
  <1>2. WithMatrix(c).providers[p] = other
    <2>1. WithMatrix(c).providers[p] = ProviderWithMatrix(p, conf)
      BY DEF WithMatrix, IsGatewayConfig
    <2>2. ProviderWithMatrix(p, conf) = other
      BY DEF ProviderWithMatrix
    <2> QED  BY <2>1, <2>2
  <1>3. conf.models \in Seq(ModelConfig)
    BY <1>1 DEF ProviderConfig
  <1>4. ASSUME NEW i \in DOMAIN conf.models
        PROVE  /\ NewModel(i) \in ModelConfig
               /\ NewModel(i).id = conf.models[i].id
               /\ NewModel(i).default = conf.models[i].default
    <2> DEFINE scope == <<p, conf.models[i].id>>
    <2>1. conf.models[i] \in ModelConfig
      BY <1>3
    <2>2. CASE scope \in DOMAIN Matrix
      <3>1. Matrix[scope] \subseteq Capabilities
        BY <2>2, BuilderAssumption
      <3>2. NewModel(i) = [conf.models[i] EXCEPT !.caps = Matrix[scope]]
        BY <2>2
      <3> HIDE DEF scope, conf, NewModel
      <3> QED  BY <2>1, <3>1, <3>2 DEF ModelConfig
    <2>3. CASE scope \notin DOMAIN Matrix
      <3>1. NewModel(i) = conf.models[i]
        BY <2>3
      <3> QED  BY <2>1, <3>1
    <2> QED  BY <2>2, <2>3
  <1>5. models \in Seq(ModelConfig)
    <2>1. DOMAIN conf.models = 1..Len(conf.models) /\ Len(conf.models) \in Nat
      BY <1>3
    <2>2. models \in [1..Len(conf.models) -> ModelConfig]
      <3> HIDE DEF NewModel, conf
      <3> QED  BY <1>4, <2>1
    <2> HIDE DEF models
    <2> QED  BY <2>1, <2>2
  <1> HIDE DEF NewModel
  <1>6. /\ DOMAIN models = DOMAIN conf.models
        /\ \A i \in DOMAIN conf.models : models[i] = NewModel(i)
    OBVIOUS
  <1> HIDE DEF models, conf
  <1>7. other \in ProviderConfig
    BY <1>1, <1>5 DEF ProviderConfig
  <1>8. /\ other.type = conf.type /\ other.url = conf.url /\ other.enabled = conf.enabled
        /\ other.keys = conf.keys /\ other.models = models /\ other.strategy = "priority"
    BY <1>1 DEF ProviderConfig
  <1> HIDE DEF other
  <1>9. SameButCaps(conf, other)
    BY <1>4, <1>6, <1>8 DEF SameButCaps
  <1> QED  BY <1>2, <1>7, <1>8, <1>9 DEF conf

\* A configuration stays one, and stays valid, when the matrix is applied.
LEMMA MatrixKeepsConfig ==
    ASSUME NEW c, IsGatewayConfig(c)
    PROVE  IsGatewayConfig(WithMatrix(c)) /\ (Valid(c) => Valid(WithMatrix(c)))
  <1> DEFINE d == WithMatrix(c)
  <1>1. \A p \in DOMAIN c.providers :
           d.providers[p] \in ProviderConfig /\ SameButCaps(c.providers[p], d.providers[p])
    BY MatrixKeeps
  <1>2. d.routes = c.routes /\ d.codex = c.codex /\ DOMAIN d.providers = DOMAIN c.providers
    BY DEF WithMatrix, IsGatewayConfig
  <1> HIDE DEF d
  <1>3. IsGatewayConfig(d)
    <2>1. DOMAIN d = DOMAIN c
      BY DEF WithMatrix, d
    <2> QED  BY <1>1, <1>2, <2>1 DEF IsGatewayConfig
  <1>4. ASSUME NEW step, ValidStep(c, step) PROVE ValidStep(d, step)
    <2> DEFINE conf == c.providers[step.provider]
               other == d.providers[step.provider]
    <2>1. step.provider \in DOMAIN c.providers
      BY <1>4 DEF ValidStep
    <2>2. conf \in ProviderConfig /\ other \in ProviderConfig /\ SameButCaps(conf, other)
      BY <1>1, <2>1 DEF IsGatewayConfig
    <2>3. /\ IF IsExecutor(conf) THEN c.codex ELSE conf.enabled /\ conf.url /\ conf.keys # <<>>
          /\ step.model \notin {NoModel, Blank} => ModelOf(conf, step.model).id # NoModel
      BY <1>4 DEF ValidStep
    <2> HIDE DEF conf, other
    <2>4. step.model \notin {NoModel, Blank} => ModelOf(other, step.model).id # NoModel
      BY <2>2, <2>3, SameModelFound
    <2>5. IF IsExecutor(other) THEN d.codex ELSE other.enabled /\ other.url /\ other.keys # <<>>
      BY <1>2, <2>2, <2>3 DEF SameButCaps, IsExecutor
    <2>6. step.provider \in DOMAIN d.providers
      BY <1>2, <2>1
    <2> QED  BY <2>4, <2>5, <2>6 DEF ValidStep, other
  <1>5. Valid(c) => Valid(d)
    BY <1>2, <1>4 DEF Valid
  <1> QED  BY <1>3, <1>5 DEF d

-----------------------------------------------------------------------------
(* Types.                                                                   *)

CandidateType == [provider : ProviderIds,
                  key      : KeyIds \cup {NoKey},
                  model    : ModelIds,
                  reserve  : BOOLEAN,
                  caps     : SUBSET Capabilities]

\* The keys in order are keys.
LEMMA RankedType ==
    ASSUME NEW keys \in Seq(KeyConfig)
    PROVE  Ranked(keys) \in Seq(KeyConfig) /\ Len(Ranked(keys)) = Len(keys)
  <1>1. DOMAIN keys = 1..Len(keys) /\ Len(keys) \in Nat
    OBVIOUS
  <1>2. DOMAIN Ranked(keys) = DOMAIN keys
    BY DEF Ranked
  <1>3. \A n \in DOMAIN keys : Ranked(keys)[n] \in KeyConfig
    <2>1. \A i \in DOMAIN keys : keys[i] \in KeyConfig
      OBVIOUS
    <2> QED  BY <2>1, RankedIsFull
  <1>4. Ranked(keys) = [n \in 1..Len(keys) |-> Ranked(keys)[n]]
    BY <1>1 DEF Ranked
  <1> DEFINE ranked == Ranked(keys)
  <1> HIDE DEF ranked
  <1>5. ranked \in [1..Len(keys) -> KeyConfig]
    BY <1>1, <1>3, <1>4 DEF ranked
  <1> QED  BY <1>1, <1>5 DEF ranked

\* So are the keys in order after a rotation.
LEMMA RotatedType ==
    ASSUME NEW keys \in Seq(KeyConfig), NEW offset \in Nat
    PROVE  Rotated(keys, offset) \in Seq(KeyConfig) /\ Len(Rotated(keys, offset)) = Len(keys)
  <1>1. DOMAIN keys = 1..Len(keys) /\ Len(keys) \in Nat
    OBVIOUS
  <1>2. ASSUME NEW n \in DOMAIN keys
        PROVE  ((n - 1 + offset) % Len(keys)) + 1 \in DOMAIN keys
    <2> DEFINE L == Len(keys)
    <2>1. n \in 1..L /\ L \in Nat \ {0} /\ n - 1 + offset \in Int
      BY <1>1, <1>2
    <2> HIDE DEF L
    <2>2. (n - 1 + offset) % L \in 0..(L - 1)
      BY <2>1
    <2>3. ((n - 1 + offset) % L) + 1 \in 1..L
      BY <2>1, <2>2
    <2> QED  BY <1>1, <2>3 DEF L
  <1>3. \A n \in DOMAIN keys : keys[((n - 1 + offset) % Len(keys)) + 1] \in KeyConfig
    <2>1. \A i \in DOMAIN keys : keys[i] \in KeyConfig
      OBVIOUS
    <2> QED  BY <1>2, <2>1
  <1>4. Rotated(keys, offset) \in [1..Len(keys) -> KeyConfig]
    <2>1. Rotated(keys, offset) \in [DOMAIN keys -> KeyConfig]
      BY <1>3 DEF Rotated
    <2> QED  BY <1>1, <2>1
  <1> DEFINE rotated == Rotated(keys, offset)
  <1> HIDE DEF rotated
  <1> QED  BY <1>1, <1>4 DEF rotated

\* A pool is enumerated whole, in whatever order.
LEMMA OrderKeysType ==
    ASSUME NEW conf \in ProviderConfig, NEW count \in Nat
    PROVE  OrderKeys(conf, count) \in Seq(KeyConfig) /\ Len(OrderKeys(conf, count)) = Len(conf.keys)
  <1>1. conf.keys \in Seq(KeyConfig)
    BY DEF ProviderConfig
  <1>2. Ranked(conf.keys) \in Seq(KeyConfig) /\ Len(Ranked(conf.keys)) = Len(conf.keys)
    BY <1>1, RankedType
  <1>3. /\ Rotated(Ranked(conf.keys), count) \in Seq(KeyConfig)
        /\ Len(Rotated(Ranked(conf.keys), count)) = Len(conf.keys)
    BY <1>2, RotatedType
  <1> QED  BY <1>2, <1>3 DEF OrderKeys

\* What one step contributes: nothing, an executor, or a pool.
LEMMA CandidatesOfType ==
    ASSUME IsGatewayConfig(config), NEW step \in RouteStep, NEW count \in Nat
    PROVE  /\ CandidatesOf(step, count) \in Seq(CandidateType)
           /\ \A n \in DOMAIN CandidatesOf(step, count) :
                 CandidatesOf(step, count)[n].provider = step.provider
           /\ Resolves(step) /\ IsExecutor(config.providers[step.provider])
                 => CandidatesOf(step, count) # <<>>
           /\ Resolves(step) /\ ~IsExecutor(config.providers[step.provider])
                 => LET keys == OrderKeys(config.providers[step.provider], count) IN
                    /\ DOMAIN CandidatesOf(step, count) = DOMAIN keys
                    /\ \A n \in DOMAIN keys :
                          /\ CandidatesOf(step, count)[n].key = keys[n].id
                          /\ CandidatesOf(step, count)[n].reserve = keys[n].reserve
  <1> DEFINE conf == config.providers[step.provider]
             model == ModelOf(conf, step.model)
             candidates == CandidatesOf(step, count)
  <1>1. CASE ~Resolves(step)
    <2>1. candidates = <<>>
      BY <1>1 DEF CandidatesOf
    <2> QED  BY <1>1, <2>1
  <1>2. CASE Resolves(step)
    <2>1. conf \in ProviderConfig /\ step.provider \in ProviderIds /\ model.id # NoModel
      BY <1>2 DEF Resolves, IsGatewayConfig, RouteStep
    <2>2. model \in ModelConfig
      <3>1. conf.models \in Seq(ModelConfig)
        BY <2>1 DEF ProviderConfig
      <3>2. \A i \in DOMAIN conf.models : conf.models[i] \in ModelConfig
        BY <3>1
      <3>3. /\ Matching(conf, step.model) # {}
            /\ Matching(conf, step.model) \in SUBSET DOMAIN conf.models
        BY <2>1, ModelOfMatching
      <3>4. /\ Min(Matching(conf, step.model)) \in Matching(conf, step.model)
            /\ model = conf.models[Min(Matching(conf, step.model))]
        BY <2>1, <3>3, ModelOfMatching
      <3> QED  BY <3>2, <3>3, <3>4
    <2> HIDE DEF conf, model
    <2>3. ASSUME NEW key \in KeyIds \cup {NoKey}, NEW reserve \in BOOLEAN
          PROVE  /\ CandidateOf(step, key, reserve) \in CandidateType
                 /\ CandidateOf(step, key, reserve).provider = step.provider
                 /\ CandidateOf(step, key, reserve).key = key
                 /\ CandidateOf(step, key, reserve).reserve = reserve
      <3>1. CandidateOf(step, key, reserve) =
               [provider |-> step.provider, key |-> key, model |-> model.id,
                reserve |-> reserve, caps |-> model.caps]
        BY DEF CandidateOf, model, conf
      <3>2. model.id \in ModelIds /\ model.caps \in SUBSET Capabilities
        BY <2>2 DEF ModelConfig
      <3> QED  BY <2>1, <3>1, <3>2 DEF CandidateType
    <2>4. CASE IsExecutor(conf)
      <3> DEFINE only == CandidateOf(step, NoKey, FALSE)
      <3>1. candidates = <<only>>
        BY <1>2, <2>4 DEF CandidatesOf, conf
      <3>2. only \in CandidateType /\ only.provider = step.provider
        BY <2>3
      <3> HIDE DEF candidates, only
      <3>3. candidates \in Seq(CandidateType) /\ candidates # <<>>
        BY <3>1, <3>2
      <3>4. \A n \in DOMAIN candidates : candidates[n].provider = step.provider
        BY <3>1, <3>2
      <3> QED  BY <2>4, <3>3, <3>4 DEF candidates, conf
    <2>5. CASE ~IsExecutor(conf)
      <3> DEFINE keys == OrderKeys(conf, count)
      <3>1. keys \in Seq(KeyConfig)
        BY <2>1, OrderKeysType
      <3>2. candidates = [n \in DOMAIN keys |-> CandidateOf(step, keys[n].id, keys[n].reserve)]
        BY <1>2, <2>5 DEF CandidatesOf, conf
      <3> HIDE DEF candidates, keys
      <3>3. \A n \in DOMAIN keys : keys[n].id \in KeyIds /\ keys[n].reserve \in BOOLEAN
        <4>1. \A n \in DOMAIN keys : keys[n] \in KeyConfig
          BY <3>1
        <4> QED  BY <4>1 DEF KeyConfig
      <3>4. DOMAIN candidates = DOMAIN keys
        BY <3>2
      <3>5. \A n \in DOMAIN keys :
               /\ candidates[n] \in CandidateType
               /\ candidates[n].provider = step.provider
               /\ candidates[n].key = keys[n].id
               /\ candidates[n].reserve = keys[n].reserve
        BY <2>3, <3>2, <3>3
      <3>6. candidates \in Seq(CandidateType)
        <4>1. DOMAIN keys = 1..Len(keys) /\ Len(keys) \in Nat
          BY <3>1
        <4>2. candidates \in [1..Len(keys) -> CandidateType]
          BY <3>2, <3>5, <4>1
        <4> QED  BY <4>1, <4>2
      <3> QED  BY <2>5, <3>4, <3>5, <3>6 DEF candidates, keys, conf
    <2> QED  BY <2>4, <2>5
  <1> QED  BY <1>1, <1>2

\* Any stretch of a route moves the counter a number of times.
LEMMA TurnsType ==
    ASSUME NEW steps, NEW k \in Nat
    PROVE  Turns(steps, k) \in Nat
  <1>1. IsFiniteSet(1..k)
    BY FS_Interval
  <1>2. {j \in 1..k : Rotates(steps[j])} \subseteq 1..k
    OBVIOUS
  <1> QED  BY <1>1, <1>2, FS_Subset, FS_CardinalityType DEF Turns

\* What build_candidates returns: what the steps contribute, one after the other.
LEMMA BuildGathers ==
    ASSUME IsGatewayConfig(config), NEW v \in DOMAIN config.routes, counter \in Nat
    PROVE  LET steps == config.routes[v]
               lists == [k \in DOMAIN steps |-> CandidatesOf(steps[k], counter + Turns(steps, k))]
           IN  /\ BuildCandidates(steps) \in Seq(CandidateType)
               /\ steps # <<>> => Gathers(BuildCandidates(steps), Len(steps), lists)
  <1> DEFINE steps == config.routes[v]
             lists == [k \in DOMAIN steps |-> CandidatesOf(steps[k], counter + Turns(steps, k))]
  <1>1. steps \in Seq(RouteStep)
    BY DEF IsGatewayConfig
  <1>2. DOMAIN steps = 1..Len(steps) /\ Len(steps) \in Nat /\ \A k \in DOMAIN steps : steps[k] \in RouteStep
    <2> HIDE DEF steps
    <2> QED  BY <1>1
  <1>3. ASSUME NEW k \in DOMAIN steps
        PROVE  CandidatesOf(steps[k], counter + Turns(steps, k)) \in Seq(CandidateType)
    <2>1. Turns(steps, k) \in Nat
      BY <1>2, TurnsType
    <2>2. counter + Turns(steps, k) \in Nat /\ steps[k] \in RouteStep
      BY <1>2, <2>1
    <2> QED  BY <2>2, CandidatesOfType
  <1>4. lists \in Seq(Seq(CandidateType)) /\ Len(lists) = Len(steps)
    <2>1. lists \in [1..Len(steps) -> Seq(CandidateType)]
      BY <1>2, <1>3
    <2> HIDE DEF lists
    <2> QED  BY <1>2, <2>1
  <1>5. BuildCandidates(steps) = FlattenSeq(lists)
    BY DEF BuildCandidates
  <1>6. CASE steps = <<>>
    <2>1. Len(lists) = 0
      BY <1>4, <1>6
    <2>2. FlattenSeq(lists) = lists
      BY <2>1 DEF FlattenSeq
    <2> HIDE DEF lists
    <2>3. lists \in Seq(CandidateType)
      BY <1>4, <2>1
    <2> QED  BY <1>5, <1>6, <2>2, <2>3 DEF lists
  <1>7. CASE steps # <<>>
    <2> HIDE DEF steps, lists
    <2>1. lists # <<>>
      BY <1>1, <1>4, <1>7
    <2>2. FlattenSeq(lists) \in Seq(CandidateType) /\ Gathers(FlattenSeq(lists), Len(lists), lists)
      BY <1>4, <2>1, FlattenGathers
    <2> QED  BY <1>4, <1>5, <2>2 DEF steps, lists
  <1> QED  BY <1>6, <1>7

-----------------------------------------------------------------------------
(* The inductive invariant: the types, which say of a configuration in     *)
(* force that it is valid, and that nothing is built before it is.         *)

TypeInv ==
    /\ phase \in {"starting", "serving", "rejected"}
    /\ counter \in 0..(CounterPeriod - 1)
    /\ IsGatewayConfig(declared) /\ IsGatewayConfig(config)
    /\ phase = "serving" => Valid(config)
    /\ phase # "serving" => built = NotBuilt
    /\ built.route \in VirtualModels \cup {"none"}
    /\ leaders \in [VirtualModels -> Seq(KeyIds \cup {NoKey})]
    /\ \A v \in VirtualModels : Len(leaders[v]) <= Window

\* The last n of a sequence, fewer if it is shorter.
LEMMA LastOfType ==
    ASSUME NEW S, NEW seq \in Seq(S), NEW n \in Nat
    PROVE  /\ LastOf(seq, n) \in Seq(S)
           /\ Len(LastOf(seq, n)) = IF Len(seq) > n THEN n ELSE Len(seq)
           /\ \A i \in 1..Len(LastOf(seq, n)) :
                 /\ Len(seq) - Len(LastOf(seq, n)) + i \in DOMAIN seq
                 /\ LastOf(seq, n)[i] = seq[Len(seq) - Len(LastOf(seq, n)) + i]
  <1>1. Len(seq) \in Nat /\ DOMAIN seq = 1..Len(seq)
    OBVIOUS
  <1>2. CASE Len(seq) > n
    <2> DEFINE first == Len(seq) - n + 1
               last == SubSeq(seq, first, Len(seq))
    <2>1. LastOf(seq, n) = last
      BY <1>2 DEF LastOf
    <2>2. first \in Nat /\ first >= 1 /\ first <= Len(seq) + 1
      BY <1>1, <1>2
    <2>3. last \in Seq(S) /\ Len(last) = Len(seq) - first + 1
      BY <1>1, <2>2
    <2>4. \A i \in 1..(Len(seq) - first + 1) : last[i] = seq[first + i - 1]
      BY <1>1, <2>2
    <2> HIDE DEF last
    <2>5. Len(last) = n
      BY <1>1, <2>3
    <2>6. \A i \in 1..n : Len(seq) - n + i \in 1..Len(seq) /\ last[i] = seq[Len(seq) - n + i]
      <3>1. \A i \in 1..n : first + i - 1 = Len(seq) - n + i
        BY <1>1
      <3>2. Len(seq) - first + 1 = n
        BY <1>1
      <3> QED  BY <1>1, <1>2, <2>4, <3>1, <3>2
    <2> QED  BY <1>1, <1>2, <2>1, <2>3, <2>5, <2>6
  <1>3. CASE ~ (Len(seq) > n)
    <2>1. LastOf(seq, n) = SubSeq(seq, 1, Len(seq))
      BY <1>3 DEF LastOf
    <2>2. SubSeq(seq, 1, Len(seq)) = seq
      BY <1>1
    <2>3. \A i \in 1..Len(seq) : Len(seq) - Len(seq) + i = i
      BY <1>1
    <2> QED  BY <1>1, <1>3, <2>1, <2>2, <2>3
  <1> QED  BY <1>2, <1>3

\* The key that a request would try first is that of a regular candidate, if any.
LEMMA LeaderType ==
    ASSUME NEW candidates \in Seq(CandidateType)
    PROVE  /\ Leader(candidates) \in KeyIds \cup {NoKey}
           /\ candidates # <<>> /\ ~candidates[1].reserve => Leader(candidates) = candidates[1].key
  <1> DEFINE regular == {i \in DOMAIN candidates : ~candidates[i].reserve}
  <1>1. regular \in SUBSET Nat /\ regular \in SUBSET DOMAIN candidates
    OBVIOUS
  <1>2. \A i \in DOMAIN candidates : candidates[i].key \in KeyIds \cup {NoKey}
    <2>1. \A i \in DOMAIN candidates : candidates[i] \in CandidateType
      OBVIOUS
    <2> QED  BY <2>1 DEF CandidateType
  <1>3. Leader(candidates) = IF regular = {} THEN NoKey ELSE candidates[Min(regular)].key
    BY DEF Leader
  <1>4. candidates # <<>> /\ ~candidates[1].reserve => 1 \in regular
    OBVIOUS
  <1>5. \A i \in DOMAIN candidates : i >= 1
    OBVIOUS
  <1> HIDE DEF regular
  <1>6. regular # {} => Min(regular) \in regular /\ \A i \in regular : Min(regular) <= i
    BY <1>1, MinExists
  <1>7. Leader(candidates) \in KeyIds \cup {NoKey}
    BY <1>1, <1>2, <1>3, <1>6
  <1>8. 1 \in regular => Min(regular) = 1
    <2> SUFFICES ASSUME 1 \in regular PROVE Min(regular) = 1
      OBVIOUS
    <2> DEFINE least == Min(regular)
    <2>1. least \in Nat /\ least >= 1 /\ least <= 1
      <3> HIDE DEF least
      <3>1. least \in regular /\ least <= 1
        BY <1>6 DEF least
      <3> QED  BY <1>1, <1>5, <3>1
    <2> HIDE DEF least
    <2>2. least = 1
      BY <2>1
    <2> QED  BY <2>2 DEF least
  <1> QED  BY <1>3, <1>4, <1>7, <1>8

\* The remainders that the counter takes.
LEMMA RemainderType ==
    ASSUME NEW a \in Nat, NEW b \in Nat \ {0}
    PROVE  a % b \in 0..(b - 1)
  OBVIOUS

\* The empty history and the empty build.
LEMMA FreshType ==
    /\ [v \in VirtualModels |-> <<>>] \in [VirtualModels -> Seq(KeyIds \cup {NoKey})]
    /\ 0 \in 0..(CounterPeriod - 1)
    /\ NotBuilt.route = "none"
  BY BuilderAssumption DEF NotBuilt

\* Every step keeps the types.
LEMMA TypeStep == TypeInv /\ [Next]_vars => TypeInv'
  <1> SUFFICES ASSUME TypeInv, [Next]_vars PROVE TypeInv'
    OBVIOUS
  <1>1. CASE Load
    <2>1. IsGatewayConfig(WithMatrix(declared)) /\ (Valid(declared) => Valid(WithMatrix(declared)))
      BY MatrixKeepsConfig DEF TypeInv
    <2>2. IsGatewayConfig(config') /\ (phase' = "serving" => Valid(config'))
      BY <1>1, <2>1 DEF Load, TypeInv
    <2>3. phase' \in {"serving", "rejected"} /\ built' = NotBuilt /\ UNCHANGED <<declared, counter, leaders>>
      BY <1>1 DEF Load, TypeInv
    <2> QED  BY <2>2, <2>3, FreshType DEF TypeInv
  <1>2. ASSUME NEW v \in VirtualModels, Build(v) PROVE TypeInv'
    <2> DEFINE steps == config.routes[v]
               candidates == BuildCandidates(steps)
               kept == LastOf(Append(leaders[v], Leader(candidates)), Window)
               turns == Turns(steps, Len(steps))
    <2>1. /\ phase = "serving" /\ v \in DOMAIN config.routes
          /\ built'.route = v
          /\ counter' = (counter + turns) % CounterPeriod
          /\ leaders' = [leaders EXCEPT ![v] = kept]
          /\ UNCHANGED <<phase, declared, config>>
      BY <1>2 DEF Build
    <2>2. counter \in Nat /\ CounterPeriod \in Nat \ {0} /\ Window \in Nat
      BY BuilderAssumption DEF TypeInv
    <2>3. candidates \in Seq(CandidateType) /\ steps \in Seq(RouteStep)
      BY <2>1, <2>2, BuildGathers DEF TypeInv, IsGatewayConfig
    <2>4. turns \in Nat
      <3>1. Len(steps) \in Nat
        <4> HIDE DEF steps
        <4> QED  BY <2>3
      <3> QED  BY <3>1, TurnsType
    <2>5. Leader(candidates) \in KeyIds \cup {NoKey}
      BY <2>3, LeaderType
    <2> HIDE DEF steps, candidates, turns
    <2>6. counter' \in 0..(CounterPeriod - 1)
      <3>1. counter + turns \in Nat
        BY <2>2, <2>4
      <3> QED  BY <2>1, <2>2, <3>1, RemainderType
    <2>7. kept \in Seq(KeyIds \cup {NoKey}) /\ Len(kept) <= Window
      <3>1. leaders[v] \in Seq(KeyIds \cup {NoKey})
        BY DEF TypeInv
      <3>2. Append(leaders[v], Leader(candidates)) \in Seq(KeyIds \cup {NoKey})
        BY <2>5, <3>1
      <3> DEFINE longer == Append(leaders[v], Leader(candidates))
      <3> HIDE DEF longer
      <3>3. longer \in Seq(KeyIds \cup {NoKey})
        BY <3>2 DEF longer
      <3>4. LastOf(longer, Window) \in Seq(KeyIds \cup {NoKey})
        BY <2>2, <3>3, LastOfType
      <3>5. Len(LastOf(longer, Window)) = IF Len(longer) > Window THEN Window ELSE Len(longer)
        BY <2>2, <3>3, LastOfType
      <3>6. Len(longer) \in Nat
        BY <3>3
      <3>7. Len(LastOf(longer, Window)) <= Window
        BY <2>2, <3>5, <3>6
      <3> QED  BY <3>4, <3>7 DEF longer
    <2> HIDE DEF kept
    <2>8. /\ leaders' \in [VirtualModels -> Seq(KeyIds \cup {NoKey})]
          /\ \A w \in VirtualModels : Len(leaders'[w]) <= Window
      <3>1. \A w \in VirtualModels : leaders'[w] = IF w = v THEN kept ELSE leaders[w]
        BY <2>1 DEF TypeInv
      <3>2. \A w \in VirtualModels : Len(leaders'[w]) <= Window
        BY <2>7, <3>1 DEF TypeInv
      <3> QED  BY <2>1, <2>7, <3>2 DEF TypeInv
    <2> QED  BY <2>1, <2>6, <2>8 DEF TypeInv
  <1>3. CASE Restart
    <2>1. IsGatewayConfig(declared') /\ config' = declared'
      BY <1>3, BuilderAssumption DEF Restart
    <2>2. /\ phase' = "starting" /\ counter' = 0 /\ built' = NotBuilt
          /\ leaders' = [v \in VirtualModels |-> <<>>]
      BY <1>3 DEF Restart
    <2>3. \A v \in VirtualModels : leaders'[v] = <<>>
      BY <2>2
    <2>4. Len(<<>>) <= Window
      BY BuilderAssumption
    <2> QED  BY <2>1, <2>2, <2>3, <2>4, FreshType DEF TypeInv
  <1>4. CASE UNCHANGED vars
    BY <1>4 DEF vars, TypeInv
  <1> QED  BY <1>1, <1>2, <1>3, <1>4 DEF Next

\* The initial state has its type.
LEMMA InitType == Init => TypeInv
  <1> SUFFICES ASSUME Init PROVE TypeInv
    OBVIOUS
  <1>1. IsGatewayConfig(declared) /\ config = declared
    BY BuilderAssumption DEF Init
  <1>2. \A v \in VirtualModels : leaders[v] = <<>>
    BY DEF Init
  <1>3. Len(<<>>) <= Window
    BY BuilderAssumption
  <1> QED  BY <1>1, <1>2, <1>3, FreshType DEF Init, TypeInv

\* Every reachable state has its type, whatever configuration files say: what is in
\* force while the gateway serves has passed validation, also after the matrix has
\* been applied to it.
THEOREM TypeCorrect == Spec => []TypeOK
  <1>1. TypeInv => TypeOK
    BY DEF TypeInv, TypeOK
  <1> QED  BY <1>1, InitType, TypeStep, PTL DEF Spec

-----------------------------------------------------------------------------
(* What validation is worth to a request.                                   *)

\* A step of a route in force: its provider, which is enabled unless it is an
\* executor, and then has keys.
LEMMA StepInForce ==
    ASSUME TypeInv, phase = "serving", NEW v \in DOMAIN config.routes,
           NEW k \in DOMAIN config.routes[v]
    PROVE  LET step == config.routes[v][k]
               conf == config.providers[step.provider]
           IN  /\ step \in RouteStep /\ step.provider \in DOMAIN config.providers
               /\ conf \in ProviderConfig
               /\ ~IsExecutor(conf) => conf.enabled /\ conf.keys # <<>>
               /\ conf.enabled /\ conf.models # <<>> /\ step.model # Blank => Resolves(step)
  <1> DEFINE step == config.routes[v][k]
             conf == config.providers[step.provider]
  <1>1. config.routes[v] \in Seq(RouteStep)
    BY DEF TypeInv, IsGatewayConfig
  <1>2. step \in RouteStep
    BY <1>1
  <1>3. ValidStep(config, step)
    BY DEF TypeInv, Valid
  <1>4. step.provider \in DOMAIN config.providers
    BY <1>3 DEF ValidStep
  <1>5. conf \in ProviderConfig
    BY <1>4 DEF TypeInv, IsGatewayConfig
  <1>6. /\ IF IsExecutor(conf) THEN config.codex ELSE conf.enabled /\ conf.url /\ conf.keys # <<>>
        /\ step.model \notin {NoModel, Blank} => ModelOf(conf, step.model).id # NoModel
    BY <1>3 DEF ValidStep
  <1>7. ASSUME conf.enabled, conf.models # <<>>, step.model # Blank PROVE Resolves(step)
    <2>1. CASE step.model # NoModel
      BY <1>4, <1>6, <1>7, <2>1 DEF Resolves
    <2>2. CASE step.model = NoModel
      <3>1. DOMAIN conf.models # {}
        <4>1. conf.models \in Seq(ModelConfig)
          BY <1>5 DEF ProviderConfig
        <4> HIDE DEF conf
        <4> QED  BY <1>7, <4>1, NotEmpty
      <3>2. Matching(conf, step.model) # {}
        <4> HIDE DEF conf, step
        <4> QED  BY <2>2, <3>1 DEF Matching
      <3>3. ModelOf(conf, step.model).id # NoModel
        BY <1>5, <3>2, ModelOfMatching
      <3> QED  BY <1>4, <1>6, <1>7, <3>3 DEF Resolves
    <2> QED  BY <2>1, <2>2
  <1> QED  BY <1>2, <1>4, <1>5, <1>6, <1>7

\* Every step that resolves contributes.
LEMMA StepContributes ==
    ASSUME TypeInv, phase = "serving", NEW v \in DOMAIN config.routes,
           NEW k \in DOMAIN config.routes[v], Resolves(config.routes[v][k]), NEW count \in Nat
    PROVE  CandidatesOf(config.routes[v][k], count) # <<>>
  <1> DEFINE step == config.routes[v][k]
             conf == config.providers[step.provider]
             candidates == CandidatesOf(step, count)
             keys == OrderKeys(conf, count)
  <1>1. step \in RouteStep /\ conf \in ProviderConfig /\ (~IsExecutor(conf) => conf.keys # <<>>)
    BY StepInForce
  <1>2. IsGatewayConfig(config)
    BY DEF TypeInv
  <1>3. /\ candidates \in Seq(CandidateType)
        /\ IsExecutor(conf) => candidates # <<>>
        /\ ~IsExecutor(conf) => DOMAIN candidates = DOMAIN keys
    BY <1>1, <1>2, CandidatesOfType
  <1>4. keys \in Seq(KeyConfig) /\ Len(keys) = Len(conf.keys)
    BY <1>1, OrderKeysType
  <1>5. conf.keys \in Seq(KeyConfig)
    BY <1>1 DEF ProviderConfig
  <1> HIDE DEF candidates, keys, conf
  <1>6. ~IsExecutor(conf) => DOMAIN keys # {}
    <2>1. ~IsExecutor(conf) => Len(keys) # 0
      BY <1>1, <1>4, <1>5, NotEmpty
    <2>2. DOMAIN keys = 1..Len(keys) /\ Len(keys) \in Nat
      BY <1>4, NotEmpty
    <2>3. Len(keys) # 0 => 1 \in 1..Len(keys)
      BY <2>2
    <2> QED  BY <2>1, <2>2, <2>3
  <1>7. candidates # <<>>
    BY <1>3, <1>6
  <1> QED  BY <1>7 DEF candidates

\* What build_candidates has found for a step is in what it returns.
LEMMA BuildHolds ==
    ASSUME TypeInv, NEW v \in DOMAIN config.routes, NEW k \in DOMAIN config.routes[v],
           NEW j \in DOMAIN CandidatesOf(config.routes[v][k], counter + Turns(config.routes[v], k))
    PROVE  \E i \in DOMAIN BuildCandidates(config.routes[v]) :
              BuildCandidates(config.routes[v])[i]
                 = CandidatesOf(config.routes[v][k], counter + Turns(config.routes[v], k))[j]
  <1> DEFINE steps == config.routes[v]
             lists == [l \in DOMAIN steps |-> CandidatesOf(steps[l], counter + Turns(steps, l))]
  <1>1. counter \in Nat /\ IsGatewayConfig(config)
    BY BuilderAssumption DEF TypeInv
  <1>2. steps \in Seq(RouteStep)
    BY <1>1 DEF IsGatewayConfig
  <1>3. steps # <<>> => Gathers(BuildCandidates(steps), Len(steps), lists)
    BY <1>1, BuildGathers
  <1>4. lists[k] = CandidatesOf(steps[k], counter + Turns(steps, k))
    OBVIOUS
  <1> HIDE DEF lists
  <1>5. k \in 1..Len(steps) /\ steps # <<>>
    <2> HIDE DEF steps
    <2>1. k \in DOMAIN steps
      BY DEF steps
    <2> QED  BY <1>2, <2>1
  <1> QED  BY <1>3, <1>4, <1>5 DEF Gathers

\* ValidatedServes is kept.
LEMMA ServesStep == TypeInv /\ ValidatedServes /\ [Next]_vars => ValidatedServes'
  <1> SUFFICES ASSUME TypeInv, ValidatedServes, [Next]_vars PROVE ValidatedServes'
    OBVIOUS
  <1>1. ASSUME built' = NotBuilt PROVE ValidatedServes'
    BY <1>1 DEF ValidatedServes, NotBuilt
  <1>2. CASE Load
    <2>1. built' = NotBuilt
      BY <1>2 DEF Load, TypeInv
    <2> QED  BY <1>1, <2>1
  <1>3. CASE Restart
    BY <1>1, <1>3 DEF Restart
  <1>4. ASSUME NEW v \in VirtualModels, Build(v) PROVE ValidatedServes'
    <2> DEFINE candidates == BuildCandidates(config.routes[v])
    <2>1. /\ phase = "serving" /\ v \in DOMAIN config.routes
          /\ built' = [route |-> v, candidates |-> candidates]
          /\ config' = config
      BY <1>4 DEF Build
    <2>2. ASSUME NEW k \in DOMAIN config.routes[v],
                 config.providers[config.routes[v][k].provider].enabled,
                 config.providers[config.routes[v][k].provider].models # <<>>,
                 config.routes[v][k].model # Blank
          PROVE  \E i \in DOMAIN candidates : candidates[i].provider = config.routes[v][k].provider
      <3> DEFINE step == config.routes[v][k]
                 found == CandidatesOf(step, counter + Turns(config.routes[v], k))
      <3>1. Resolves(step) /\ step \in RouteStep
        BY <2>1, <2>2, StepInForce
      <3>2. counter + Turns(config.routes[v], k) \in Nat
        <4>1. config.routes[v] \in Seq(RouteStep)
          BY <2>1 DEF TypeInv, IsGatewayConfig
        <4>2. k \in Nat
          BY <2>2, <4>1
        <4>3. Turns(config.routes[v], k) \in Nat
          BY <4>2, TurnsType
        <4> QED  BY <4>3, BuilderAssumption DEF TypeInv
      <3>3. found # <<>>
        BY <2>1, <2>2, <3>1, <3>2, StepContributes
      <3>4. /\ found \in Seq(CandidateType)
            /\ \A n \in DOMAIN found : found[n].provider = step.provider
        BY <3>1, <3>2, CandidatesOfType DEF TypeInv
      <3>5. 1 \in DOMAIN found /\ found[1].provider = step.provider
        <4> HIDE DEF found
        <4> QED  BY <3>3, <3>4
      <3>6. \E i \in DOMAIN candidates : candidates[i] = found[1]
        BY <2>1, <2>2, <3>5, BuildHolds
      <3> QED  BY <3>5, <3>6
    <2> HIDE DEF candidates
    <2> QED  BY <2>1, <2>2 DEF ValidatedServes, PositionsOf
  <1>5. CASE UNCHANGED vars
    BY <1>5 DEF vars, ValidatedServes, PositionsOf
  <1> QED  BY <1>2, <1>3, <1>4, <1>5 DEF Next

\* A configuration that passes _validate serves: whatever it says, every request on
\* a route gets a candidate from each of its steps, but that of an executor switched
\* off, of a provider without models, or with a blank model.
THEOREM ValidRoutesServe == Spec => []ValidatedServes
  <1>1. Init => ValidatedServes
    BY DEF Init, ValidatedServes, NotBuilt
  <1> QED  BY <1>1, InitType, TypeStep, ServesStep, PTL DEF Spec

-----------------------------------------------------------------------------
(* Rotation.                                                                *)

\* The provider of route v's first step.
FirstOf(v) == config.providers[config.routes[v][1].provider]

\* Route v starts with a pool that rotates, and nothing else moves the counter.
TurnsBySelf(v) ==
    LET conf == FirstOf(v) IN
    /\ phase = "serving"
    /\ v \in DOMAIN config.routes
    /\ ~IsExecutor(conf) /\ conf.strategy = "round_robin"
    /\ conf.models # <<>> /\ config.routes[v][1].model # Blank
    /\ TurnsAlone(config, v)

\* The d-th last build of such a route, counted from zero, was led by the key in
\* n-th place, if that is a regular one and its turn was d builds ago.
LedInTurn(v) ==
    LET keys == Ranked(FirstOf(v).keys)
        led  == leaders[v]
    IN  \A d \in 0..(Len(led) - 1) : \A n \in DOMAIN keys :
           /\ ~keys[n].reserve
           /\ (n - 1 + d) % Len(keys) = counter % Len(keys)
           => led[Len(led) - d] = keys[n].id

RotationInv ==
    /\ PoolsDivide(CounterPeriod, declared) /\ PoolsDivide(CounterPeriod, config)
    /\ phase = "starting" => \A v \in VirtualModels : leaders[v] = <<>>
    /\ \A v \in VirtualModels : TurnsBySelf(v) => LedInTurn(v)

\* A build of such a route moves the counter by one, for its first step, ...
LEMMA TurnsOnce ==
    ASSUME TypeInv, NEW v, TurnsBySelf(v)
    PROVE  /\ 1 \in DOMAIN config.routes[v]
           /\ Resolves(config.routes[v][1])
           /\ Turns(config.routes[v], 1) = 1
           /\ Turns(config.routes[v], Len(config.routes[v])) = 1
  <1> DEFINE steps == config.routes[v]
             conf == config.providers[steps[1].provider]
  <1>1. /\ phase = "serving" /\ v \in DOMAIN config.routes
        /\ ~IsExecutor(conf) /\ conf.strategy = "round_robin"
        /\ conf.models # <<>> /\ steps[1].model # Blank
        /\ TurnsAlone(config, v)
    BY DEF TurnsBySelf, FirstOf
  <1>2. steps \in Seq(RouteStep) /\ steps # <<>>
    BY <1>1 DEF TypeInv, IsGatewayConfig, Valid
  <1>3. 1 \in DOMAIN steps /\ DOMAIN steps = 1..Len(steps) /\ Len(steps) \in Nat
    <2> HIDE DEF steps
    <2> QED  BY <1>2, NotEmpty
  <1>4. Resolves(steps[1])
    BY <1>1, <1>3, StepInForce
  <1>5. Rotates(steps[1])
    BY <1>1, <1>4 DEF Rotates
  <1>6. \A k \in DOMAIN steps : k # 1 => ~Rotates(steps[k])
    BY <1>1 DEF TurnsAlone, Rotates
  <1> HIDE DEF steps
  <1>7. {j \in 1..1 : Rotates(steps[j])} = {1} /\ {j \in 1..Len(steps) : Rotates(steps[j])} = {1}
    BY <1>3, <1>5, <1>6
  <1>8. Cardinality({1}) = 1
    BY FS_Singleton
  <1> QED  BY <1>3, <1>4, <1>7, <1>8 DEF Turns, steps

\* ... and the build of another route not at all.
LEMMA TurnsNever ==
    ASSUME TypeInv, NEW v, TurnsBySelf(v), NEW w \in DOMAIN config.routes, w # v
    PROVE  Turns(config.routes[w], Len(config.routes[w])) = 0
  <1> DEFINE steps == config.routes[w]
  <1>1. steps \in Seq(RouteStep)
    BY DEF TypeInv, IsGatewayConfig
  <1>2. \A k \in DOMAIN steps : ~Rotates(steps[k])
    BY DEF TurnsBySelf, TurnsAlone, Rotates
  <1> HIDE DEF steps
  <1>3. {j \in 1..Len(steps) : Rotates(steps[j])} = {}
    BY <1>1, <1>2, NotEmpty
  <1>4. Cardinality({}) = 0
    BY FS_EmptySet
  <1> QED  BY <1>3, <1>4 DEF Turns, steps

\* The key whose turn it is leads, if it is a regular one.
LEMMA TurnLeads ==
    ASSUME TypeInv, NEW v, TurnsBySelf(v),
           NEW n \in DOMAIN Ranked(FirstOf(v).keys),
           ~Ranked(FirstOf(v).keys)[n].reserve,
           (n - 1) % Len(FirstOf(v).keys)
              = (counter + 1) % Len(FirstOf(v).keys)
    PROVE  Leader(BuildCandidates(config.routes[v]))
              = Ranked(FirstOf(v).keys)[n].id
  <1> DEFINE steps == config.routes[v]
             conf == FirstOf(v)
             ranked == Ranked(conf.keys)
             keys == OrderKeys(conf, counter + 1)
             lists == [k \in DOMAIN steps |-> CandidatesOf(steps[k], counter + Turns(steps, k))]
             candidates == BuildCandidates(steps)
             L == Len(conf.keys)
  <1>1. /\ phase = "serving" /\ v \in DOMAIN config.routes
        /\ ~IsExecutor(conf) /\ conf.strategy = "round_robin"
    BY DEF TurnsBySelf, FirstOf
  <1>2. 1 \in DOMAIN steps /\ Resolves(steps[1]) /\ Turns(steps, 1) = 1
    BY TurnsOnce
  <1>3. steps[1] \in RouteStep /\ conf \in ProviderConfig /\ conf.keys # <<>>
    BY <1>1, <1>2, StepInForce DEF FirstOf
  <1>4. counter \in Nat /\ IsGatewayConfig(config)
    BY BuilderAssumption DEF TypeInv
  <1>5. conf.keys \in Seq(KeyConfig)
    BY <1>3 DEF ProviderConfig
  <1>6. ranked \in Seq(KeyConfig) /\ Len(ranked) = L /\ L \in Nat \ {0}
    BY <1>3, <1>5, RankedType, NotEmpty
  <1>7. DOMAIN ranked = 1..L /\ n \in 1..L
    BY <1>6, NotEmpty
  <1>8. keys[1] = ranked[n]
    <2>1. keys = Rotated(ranked, counter + 1)
      BY <1>1 DEF OrderKeys
    <2>2. 1 \in DOMAIN ranked
      BY <1>6, <1>7
    <2>3. keys[1] = ranked[((1 - 1 + (counter + 1)) % Len(ranked)) + 1]
      BY <2>1, <2>2 DEF Rotated
    <2>4. (n - 1) % L = (counter + 1) % L
      OBVIOUS
    <2> HIDE DEF keys, ranked, L
    <2>5. n - 1 \in 0..(L - 1)
      BY <1>6, <1>7
    <2>6. (n - 1) % L = n - 1
      BY <1>6, <2>5, SmallRemainder
    <2>7. 1 - 1 + (counter + 1) = counter + 1
      BY <1>4
    <2>8. ((1 - 1 + (counter + 1)) % Len(ranked)) + 1 = n
      BY <1>6, <1>7, <2>4, <2>6, <2>7
    <2> QED  BY <2>3, <2>8
  <1>9. keys \in Seq(KeyConfig) /\ Len(keys) = L
    BY <1>3, <1>4, OrderKeysType
  <1>10. 1 \in DOMAIN keys
    <2> HIDE DEF keys, L
    <2> QED  BY <1>6, <1>9, NotEmpty
  <1>11. lists[1] = CandidatesOf(steps[1], counter + 1)
    BY <1>2
  <1>12. /\ CandidatesOf(steps[1], counter + 1) \in Seq(CandidateType)
         /\ DOMAIN CandidatesOf(steps[1], counter + 1) = DOMAIN keys
         /\ \A j \in DOMAIN keys :
               /\ CandidatesOf(steps[1], counter + 1)[j].key = keys[j].id
               /\ CandidatesOf(steps[1], counter + 1)[j].reserve = keys[j].reserve
    <2>1. steps[1] \in RouteStep /\ ~IsExecutor(config.providers[steps[1].provider]) /\ counter + 1 \in Nat
      BY <1>1, <1>3, <1>4 DEF FirstOf
    <2>2. keys = OrderKeys(config.providers[steps[1].provider], counter + 1)
      BY DEF FirstOf
    <2> HIDE DEF steps, keys
    <2> QED  BY <1>2, <1>4, <2>1, <2>2, CandidatesOfType
  <1>13. lists[1] # <<>> /\ lists[1][1].key = ranked[n].id /\ lists[1][1].reserve = ranked[n].reserve
    <2> DEFINE first == CandidatesOf(steps[1], counter + 1)
    <2> HIDE DEF steps, keys, ranked, lists, first
    <2>1. first \in Seq(CandidateType) /\ 1 \in DOMAIN first
      BY <1>10, <1>12 DEF first
    <2>2. first[1].key = ranked[n].id /\ first[1].reserve = ranked[n].reserve
      BY <1>8, <1>10, <1>12 DEF first
    <2>3. first # <<>>
      BY <2>1
    <2> QED  BY <1>11, <2>2, <2>3 DEF first
  <1>14. candidates \in Seq(CandidateType) /\ (steps # <<>> => Gathers(candidates, Len(steps), lists))
    BY <1>1, <1>4, BuildGathers
  <1>15. steps # <<>>
    BY <1>1 DEF TypeInv, Valid
  <1> HIDE DEF lists, candidates
  <1>16. candidates # <<>> /\ candidates[1] = lists[1][1]
    BY <1>13, <1>14, <1>15 DEF Gathers
  <1>17. ~candidates[1].reserve
    BY <1>13, <1>16
  <1>18. Leader(candidates) = candidates[1].key
    BY <1>14, <1>16, <1>17, LeaderType
  <1> QED  BY <1>13, <1>16, <1>18 DEF candidates

\* The history of the latest builds after one more.
LEMMA OneMoreBuild ==
    ASSUME NEW led \in Seq(KeyIds \cup {NoKey}), NEW key \in KeyIds \cup {NoKey}
    PROVE  LET after == LastOf(Append(led, key), Window) IN
           /\ Len(after) \in Nat
           /\ \A d \in 0..(Len(after) - 1) :
                 /\ d # 0 => d - 1 \in 0..(Len(led) - 1)
                 /\ after[Len(after) - d] = IF d = 0 THEN key ELSE led[Len(led) - (d - 1)]
  <1> DEFINE longer == Append(led, key)
             after == LastOf(longer, Window)
  <1>1. Window \in Nat
    BY BuilderAssumption
  <1>2. /\ longer \in Seq(KeyIds \cup {NoKey})
        /\ Len(longer) = Len(led) + 1 /\ Len(led) \in Nat
        /\ longer[Len(led) + 1] = key
        /\ \A i \in 1..Len(led) : longer[i] = led[i]
    OBVIOUS
  <1> HIDE DEF longer
  <1>3. /\ after \in Seq(KeyIds \cup {NoKey})
        /\ Len(after) = IF Len(longer) > Window THEN Window ELSE Len(longer)
        /\ \A i \in 1..Len(after) : after[i] = longer[Len(longer) - Len(after) + i]
    BY <1>1, <1>2, LastOfType
  <1> HIDE DEF after
  <1>4. Len(after) \in Nat /\ Len(after) <= Len(led) + 1
    BY <1>1, <1>2, <1>3
  <1>5. ASSUME NEW d \in 0..(Len(after) - 1)
        PROVE  /\ d # 0 => d - 1 \in 0..(Len(led) - 1)
               /\ after[Len(after) - d] = IF d = 0 THEN key ELSE led[Len(led) - (d - 1)]
    <2>1. d \in Nat /\ d < Len(after)
      BY <1>4
    <2>2. Len(after) - d \in 1..Len(after)
      BY <1>4, <2>1
    <2>3. after[Len(after) - d] = longer[Len(longer) - Len(after) + (Len(after) - d)]
      BY <1>3, <2>2
    <2>4. Len(longer) - Len(after) + (Len(after) - d) = Len(led) + 1 - d
      BY <1>2, <1>4, <2>1
    <2>5. after[Len(after) - d] = longer[Len(led) + 1 - d]
      BY <2>3, <2>4
    <2>6. CASE d = 0
      <3>1. Len(led) + 1 - d = Len(led) + 1
        BY <1>2, <2>6
      <3> QED  BY <1>2, <2>5, <2>6, <3>1
    <2>7. CASE d # 0
      <3>1. /\ d - 1 \in 0..(Len(led) - 1)
            /\ Len(led) + 1 - d = Len(led) - (d - 1)
            /\ Len(led) - (d - 1) \in 1..Len(led)
        BY <1>2, <1>4, <2>1, <2>7
      <3> QED  BY <1>2, <2>5, <2>7, <3>1
    <2> QED  BY <2>6, <2>7
  <1> QED  BY <1>4, <1>5 DEF after, longer

\* A build of a route that turns by itself keeps its keys in turn.
LEMMA OwnBuildInTurn ==
    ASSUME TypeInv, RotationInv, NEW v \in VirtualModels, Build(v), TurnsBySelf(v)
    PROVE  LedInTurn(v)'
  <1> DEFINE steps == config.routes[v]
             keys == Ranked(FirstOf(v).keys)
             L == Len(keys)
             led == leaders[v]
             key == Leader(BuildCandidates(steps))
  <1>1. /\ v \in DOMAIN config.routes
        /\ counter' = (counter + Turns(steps, Len(steps))) % CounterPeriod
        /\ leaders' = [leaders EXCEPT ![v] = LastOf(Append(led, key), Window)]
        /\ config' = config
    BY DEF Build
  <1>2. counter \in 0..(CounterPeriod - 1) /\ CounterPeriod \in Nat \ {0} /\ IsGatewayConfig(config)
    BY BuilderAssumption DEF TypeInv
  <1>3. counter' = (counter + 1) % CounterPeriod
    BY <1>1, TurnsOnce
  <1>4. FirstOf(v) \in ProviderConfig /\ FirstOf(v).keys # <<>>
        /\ steps[1].provider \in DOMAIN config.providers
    <2>1. phase = "serving" /\ ~IsExecutor(FirstOf(v)) /\ 1 \in DOMAIN steps
      BY TurnsOnce DEF TurnsBySelf
    <2> QED  BY <1>1, <2>1, StepInForce DEF FirstOf
  <1>5. FirstOf(v).keys \in Seq(KeyConfig)
    BY <1>4 DEF ProviderConfig
  <1>6. keys \in Seq(KeyConfig) /\ L = Len(FirstOf(v).keys) /\ L \in Nat \ {0}
    BY <1>4, <1>5, RankedType, NotEmpty
  <1>7. CounterPeriod % L = 0
    BY <1>4, <1>6 DEF RotationInv, PoolsDivide, FirstOf
  <1>8. led \in Seq(KeyIds \cup {NoKey})
    BY DEF TypeInv
  <1>9. key \in KeyIds \cup {NoKey}
    <2>1. counter \in Nat
      BY <1>2
    <2>2. BuildCandidates(steps) \in Seq(CandidateType)
      BY <1>1, <1>2, <2>1, BuildGathers
    <2> HIDE DEF steps
    <2> QED  BY <2>2, LeaderType
  <1>10. FirstOf(v)' = FirstOf(v)
    BY <1>1 DEF FirstOf
  <1>11. leaders'[v] = LastOf(Append(led, key), Window)
    BY <1>1 DEF TypeInv
  <1>12. \A n \in DOMAIN keys :
            ~keys[n].reserve /\ (n - 1) % L = (counter + 1) % L => key = keys[n].id
    BY <1>6, TurnLeads
  <1>13. LedInTurn(v)
    BY DEF RotationInv
  <1>14. \A d \in 0..(Len(led) - 1) : \A n \in DOMAIN keys :
            ~keys[n].reserve /\ (n - 1 + d) % L = counter % L => led[Len(led) - d] = keys[n].id
    BY <1>13 DEF LedInTurn
  <1> DEFINE after == LastOf(Append(led, key), Window)
  <1> HIDE DEF steps, keys, L, led, key
  <1>15. counter' % L = (counter + 1) % L
    <2>1. CounterPeriod \in Nat \ {0} /\ L \in Nat \ {0} /\ counter \in 0..(CounterPeriod - 1)
      BY <1>2, <1>6
    <2>2. ((counter + 1) % CounterPeriod) % L = (counter + 1) % L
      BY <1>7, <2>1, CounterWraps, Zenon
    <2> QED  BY <1>3, <2>2, Zenon
  <1>16. /\ Len(after) \in Nat
         /\ \A d \in 0..(Len(after) - 1) :
               /\ d # 0 => d - 1 \in 0..(Len(led) - 1)
               /\ after[Len(after) - d] = IF d = 0 THEN key ELSE led[Len(led) - (d - 1)]
    BY <1>8, <1>9, OneMoreBuild
  <1> HIDE DEF after
  <1>17. ASSUME NEW d \in 0..(Len(after) - 1), NEW n \in DOMAIN keys,
                ~keys[n].reserve, (n - 1 + d) % L = counter' % L
         PROVE  after[Len(after) - d] = keys[n].id
    <2>1. n \in Nat \ {0} /\ d \in Nat /\ counter \in Nat
      <3>1. DOMAIN keys = 1..Len(keys) /\ Len(keys) \in Nat
        BY <1>6, NotEmpty
      <3> QED  BY <1>2, <1>16, <3>1
    <2>2. (n - 1 + d) % L = (counter + 1) % L
      BY <1>15, <1>17
    <2>3. CASE d = 0
      <3>1. n - 1 + d = n - 1
        BY <2>1, <2>3
      <3>2. (n - 1) % L = (counter + 1) % L
        BY <2>2, <3>1
      <3>3. key = keys[n].id
        BY <1>12, <1>17, <3>2
      <3> QED  BY <1>16, <1>17, <2>3, <3>3
    <2>4. CASE d # 0
      <3>1. (n - 1 + (d - 1)) % L = counter % L
        <4> DEFINE a == n - 1 + (d - 1)
        <4>1. a \in Nat /\ n - 1 + d = a + 1
          BY <2>1, <2>4
        <4> HIDE DEF a
        <4>2. (a + 1) % L = (counter + 1) % L
          BY <2>2, <4>1, Zenon
        <4>3. L \in Nat \ {0} /\ a \in Nat /\ counter \in Nat
          BY <1>6, <2>1, <4>1
        <4>4. a % L = counter % L
          BY <4>2, <4>3, RemaindersInStep, Zenon
        <4> QED  BY <4>4 DEF a
      <3>2. d - 1 \in 0..(Len(led) - 1) /\ after[Len(after) - d] = led[Len(led) - (d - 1)]
        BY <1>16, <1>17, <2>4
      <3>3. led[Len(led) - (d - 1)] = keys[n].id
        BY <1>14, <1>17, <3>1, <3>2
      <3> QED  BY <3>2, <3>3
    <2> QED  BY <2>3, <2>4
  <1>18. leaders'[v] = after /\ Ranked(FirstOf(v)'.keys) = keys /\ Len(keys) = L
    BY <1>10, <1>11 DEF after, keys, L
  <1> QED  BY <1>17, <1>18 DEF LedInTurn

\* Of what LedInTurn and TurnsBySelf say about a route nothing changes while the
\* configuration, the counter and the history of the route stay as they are.
LEMMA OtherRouteInTurn ==
    ASSUME NEW v, config' = config, counter' = counter, leaders'[v] = leaders[v], LedInTurn(v)
    PROVE  LedInTurn(v)'
  <1>1. FirstOf(v)' = FirstOf(v)
    BY DEF FirstOf
  <1> QED  BY <1>1 DEF LedInTurn

\* The matrix leaves the keys of all pools alone.
LEMMA MatrixDividesPools ==
    ASSUME NEW c, IsGatewayConfig(c), NEW number, PoolsDivide(number, c)
    PROVE  PoolsDivide(number, WithMatrix(c))
  <1>1. DOMAIN WithMatrix(c).providers = DOMAIN c.providers
    BY DEF WithMatrix, IsGatewayConfig
  <1>2. \A p \in DOMAIN c.providers : WithMatrix(c).providers[p].keys = c.providers[p].keys
    BY MatrixKeeps DEF SameButCaps
  <1> QED  BY <1>1, <1>2 DEF PoolsDivide

\* Every step keeps the rotation.
LEMMA RotationStep == TypeInv /\ RotationInv /\ [Next]_vars => RotationInv'
  <1> SUFFICES ASSUME TypeInv, RotationInv, [Next]_vars PROVE RotationInv'
    OBVIOUS
  <1>1. CASE Load
    <2>1. phase = "starting" /\ phase' # "starting" /\ UNCHANGED <<declared, leaders>>
          /\ config' \in {declared, WithMatrix(declared)}
      BY <1>1 DEF Load
    <2>2. PoolsDivide(CounterPeriod, declared')
      BY <2>1 DEF RotationInv
    <2>3. PoolsDivide(CounterPeriod, config')
      BY <2>1, MatrixDividesPools DEF RotationInv, TypeInv
    <2>4. \A v \in VirtualModels : leaders'[v] = <<>>
      BY <2>1 DEF RotationInv
    <2>5. \A v \in VirtualModels : LedInTurn(v)'
      <3> SUFFICES ASSUME NEW v \in VirtualModels PROVE LedInTurn(v)'
        OBVIOUS
      <3>1. 0..(Len(leaders'[v]) - 1) = {}
        BY <2>4
      <3> QED  BY <3>1 DEF LedInTurn
    <2> QED  BY <2>1, <2>2, <2>3, <2>5 DEF RotationInv
  <1>2. ASSUME NEW w \in VirtualModels, Build(w) PROVE RotationInv'
    <2>1. /\ phase = "serving" /\ UNCHANGED <<phase, declared, config>>
          /\ w \in DOMAIN config.routes
      BY <1>2 DEF Build
    <2>2. ASSUME NEW v \in VirtualModels, TurnsBySelf(v)' PROVE LedInTurn(v)'
      <3>1. TurnsBySelf(v)
        BY <2>1, <2>2 DEF TurnsBySelf, FirstOf
      <3>2. CASE v = w
        BY <1>2, <3>1, <3>2, OwnBuildInTurn
      <3>3. CASE v # w
        <4>1. leaders'[v] = leaders[v]
          BY <1>2, <3>3 DEF Build, TypeInv
        <4>2. Turns(config.routes[w], Len(config.routes[w])) = 0
          BY <2>1, <3>1, <3>3, TurnsNever
        <4>3. counter' = (counter + Turns(config.routes[w], Len(config.routes[w]))) % CounterPeriod
          BY <1>2 DEF Build
        <4>4. counter \in 0..(CounterPeriod - 1) /\ CounterPeriod \in Nat \ {0} /\ counter + 0 = counter
          BY BuilderAssumption DEF TypeInv
        <4>5. counter % CounterPeriod = counter
          BY <4>4, SmallRemainder
        <4>6. counter' = counter
          BY <4>2, <4>3, <4>4, <4>5
        <4>7. LedInTurn(v)
          BY <3>1 DEF RotationInv
        <4> QED  BY <2>1, <4>1, <4>6, <4>7, OtherRouteInTurn
      <3> QED  BY <3>2, <3>3
    <2> QED  BY <2>1, <2>2 DEF RotationInv
  <1>3. CASE Restart
    <2>1. /\ PoolsDivide(CounterPeriod, declared') /\ config' = declared'
          /\ phase' = "starting" /\ leaders' = [v \in VirtualModels |-> <<>>]
      BY <1>3, BuilderAssumption DEF Restart
    <2>2. \A v \in VirtualModels : leaders'[v] = <<>>
      BY <2>1
    <2>3. \A v \in VirtualModels : TurnsBySelf(v)' => LedInTurn(v)'
      BY <2>1 DEF TurnsBySelf
    <2> QED  BY <2>1, <2>2, <2>3 DEF RotationInv
  <1>4. CASE UNCHANGED vars
    BY <1>4 DEF vars, RotationInv, TurnsBySelf, LedInTurn, FirstOf
  <1> QED  BY <1>1, <1>2, <1>3, <1>4 DEF Next

\* Among as many builds in a row as the pool has keys, each key has had its turn.
LEMMA TurnsComeRound ==
    ASSUME NEW L \in Nat \ {0}, NEW n \in 1..L, NEW count \in Nat
    PROVE  \E d \in 0..(L - 1) : (n - 1 + d) % L = count % L
  <1> DEFINE r == count % L
  <1>1. r \in 0..(L - 1)
    BY RemainderType
  <1> HIDE DEF r
  <1>2. r % L = r /\ (r + L) % L = r
    BY <1>1, SmallRemainder
  <1>3. CASE n - 1 <= r
    <2>1. r - (n - 1) \in 0..(L - 1) /\ n - 1 + (r - (n - 1)) = r
      BY <1>1, <1>3
    <2>2. (n - 1 + (r - (n - 1))) % L = r
      BY <1>2, <2>1
    <2> QED  BY <2>1, <2>2 DEF r
  <1>4. CASE n - 1 > r
    <2>1. r - (n - 1) + L \in 0..(L - 1) /\ n - 1 + (r - (n - 1) + L) = r + L
      BY <1>1, <1>4
    <2>2. (n - 1 + (r - (n - 1) + L)) % L = r
      BY <1>2, <2>1
    <2> QED  BY <2>1, <2>2 DEF r
  <1> QED  BY <1>1, <1>3, <1>4

\* A route that is in turn comes round.
LEMMA InTurnComesRound ==
    ASSUME TypeInv, RotationInv, NEW v \in DOMAIN config.routes
    PROVE  ComesRound(config, v)
  <1> DEFINE conf == FirstOf(v)
             keys == conf.keys
             ranked == Ranked(keys)
             led == leaders[v]
             last == LastOf(led, Len(keys))
  <1> SUFFICES ASSUME TurnsBySelf(v), Len(last) = Len(keys)
               PROVE  RegularKeys(config, v) \subseteq {last[n] : n \in DOMAIN last}
    BY DEF ComesRound, Rotating, TurnsBySelf, FirstOf
  <1>1. v \in VirtualModels
    BY DEF TypeInv, IsGatewayConfig
  <1>2. conf \in ProviderConfig
    <2>1. phase = "serving" /\ 1 \in DOMAIN config.routes[v]
      BY TurnsOnce DEF TurnsBySelf
    <2> QED  BY <2>1, StepInForce DEF FirstOf
  <1>3. keys \in Seq(KeyConfig) /\ counter \in Nat
    BY <1>2, BuilderAssumption DEF ProviderConfig, TypeInv
  <1>4. RegularKeys(config, v) = {keys[i].id : i \in {j \in DOMAIN keys : ~keys[j].reserve}}
    BY DEF RegularKeys, FirstOf
  <1>5. LedInTurn(v)
    BY <1>1 DEF RotationInv
  <1>6. ranked \in Seq(KeyConfig) /\ Len(ranked) = Len(keys)
    BY <1>3, RankedType
  <1>7. led \in Seq(KeyIds \cup {NoKey})
    BY <1>1 DEF TypeInv
  <1>8. \A d \in 0..(Len(led) - 1) : \A n \in DOMAIN ranked :
           ~ranked[n].reserve /\ (n - 1 + d) % Len(ranked) = counter % Len(ranked)
              => led[Len(led) - d] = ranked[n].id
    BY <1>5 DEF LedInTurn
  <1> HIDE DEF keys, ranked, led, conf
  <1>9. Len(keys) \in Nat /\ DOMAIN keys = 1..Len(keys) /\ Len(led) \in Nat
    BY <1>3, <1>7, NotEmpty
  <1>10. /\ last \in Seq(KeyIds \cup {NoKey})
         /\ Len(last) = IF Len(led) > Len(keys) THEN Len(keys) ELSE Len(led)
         /\ \A i \in 1..Len(last) : last[i] = led[Len(led) - Len(last) + i]
    BY <1>7, <1>9, LastOfType
  <1> HIDE DEF last
  <1>11. DOMAIN last = 1..Len(keys)
    BY <1>10, NotEmpty
  <1>12. ASSUME NEW i \in DOMAIN keys, ~keys[i].reserve
         PROVE  \E k \in DOMAIN last : last[k] = keys[i].id
    <2> DEFINE n == Cardinality(Before(keys, i)) + 1
               L == Len(keys)
    <2>1. n \in DOMAIN keys /\ ranked[n] = keys[i]
      BY <1>3, <1>12, RankedHolds DEF ranked
    <2> HIDE DEF n
    <2>2. L \in Nat \ {0} /\ n \in 1..L
      BY <1>9, <2>1
    <2>3. PICK d \in 0..(L - 1) : (n - 1 + d) % L = counter % L
      <3> HIDE DEF L
      <3> QED  BY <1>3, <2>2, TurnsComeRound
    <2>4. /\ d \in 0..(Len(led) - 1) /\ L - d \in 1..L
          /\ Len(led) - L + (L - d) = Len(led) - d
      BY <1>9, <1>10, <2>2, <2>3
    <2>5. n \in DOMAIN ranked
      BY <1>6, <2>2, NotEmpty
    <2>6. led[Len(led) - d] = keys[i].id
      BY <1>6, <1>8, <1>12, <2>1, <2>3, <2>4, <2>5
    <2>7. last[L - d] = led[Len(led) - d]
      <3>1. last[L - d] = led[Len(led) - L + (L - d)]
        BY <1>10, <2>4
      <3> QED  BY <2>4, <3>1
    <2> QED  BY <1>11, <2>4, <2>6, <2>7
  <1> QED  BY <1>4, <1>12

\* The keys of a pool that rotates take turns: among as many requests in a row as
\* the pool has keys, each regular one is the first to be tried, whatever the size
\* of the pool, its reserve keys and the requests on other routes in between, and
\* also when the counter wraps.
THEOREM KeysTakeTurns == Spec => []EveryKeyLeads
  <1>1. Init => RotationInv
    <2> SUFFICES ASSUME Init PROVE RotationInv
      OBVIOUS
    <2>1. PoolsDivide(CounterPeriod, declared) /\ config = declared /\ phase = "starting"
      BY BuilderAssumption DEF Init
    <2>2. \A v \in VirtualModels : leaders[v] = <<>>
      BY DEF Init
    <2> QED  BY <2>1, <2>2 DEF RotationInv, TurnsBySelf
  <1>2. TypeInv /\ RotationInv => EveryKeyLeads
    BY InTurnComesRound DEF EveryKeyLeads
  <1> QED  BY <1>1, <1>2, InitType, TypeStep, RotationStep, PTL DEF Spec

-----------------------------------------------------------------------------
(* Completeness.                                                            *)

\* How often list q names key id of provider p, and sequence keys key id.
Occurrences(q, p, id) == Cardinality({n \in DOMAIN q : q[n].provider = p /\ q[n].key = id})
Copies(keys, id)      == Cardinality({n \in DOMAIN keys : keys[n].id = id})

\* The positions of a sequence that satisfy a condition can be counted.
LEMMA PositionsFinite ==
    ASSUME NEW S, NEW seq \in Seq(S), NEW positions \in SUBSET DOMAIN seq
    PROVE  IsFiniteSet(positions) /\ Cardinality(positions) \in Nat
  <1>1. DOMAIN seq = 1..Len(seq) /\ Len(seq) \in Nat
    BY NotEmpty
  <1>2. IsFiniteSet(1..Len(seq))
    BY <1>1, FS_Interval
  <1>3. IsFiniteSet(positions)
    BY <1>1, <1>2, FS_Subset
  <1> QED  BY <1>3, FS_CardinalityType

\* Sequences that hold the same, each position of the one standing for another of
\* the other, hold it equally often.
LEMMA SameCopies ==
    ASSUME NEW D, IsFiniteSet(D), NEW keys, NEW other, DOMAIN keys = D, DOMAIN other = D,
           NEW move \in Injection(D, D), \A n \in D : keys[n] = other[move[n]], NEW id
    PROVE  Copies(keys, id) = Copies(other, id)
  <1> DEFINE here  == {n \in D : keys[n].id = id}
             there == {n \in D : other[n].id = id}
             moved == [n \in here |-> move[n]]
  <1>1. move \in Surjection(D, D)
    BY FS_Injection
  <1>2. /\ \A n \in D : move[n] \in D
        /\ \A n, m \in D : move[n] = move[m] => n = m
        /\ \A m \in D : \E n \in D : move[n] = m
    BY <1>1 DEF Injection, Surjection, IsInjective
  <1>3. moved \in [here -> there]
    BY <1>2
  <1>4. \A n, m \in here : moved[n] = moved[m] => n = m
    BY <1>2
  <1>5. \A m \in there : \E n \in here : moved[n] = m
    BY <1>2
  <1>6. IsFiniteSet(here)
    BY FS_Subset
  <1> HIDE DEF here, there, moved
  <1>7. moved \in Bijection(here, there)
    BY <1>3, <1>4, <1>5 DEF Bijection, Injection, Surjection, IsInjective
  <1>8. Cardinality(there) = Cardinality(here)
    BY <1>6, <1>7, FS_Bijection DEF ExistsBijection
  <1> QED  BY <1>8 DEF Copies, here, there

\* Sorting neither loses nor doubles a key.
LEMMA RankedCopies ==
    ASSUME NEW keys \in Seq(KeyConfig), NEW id
    PROVE  Copies(Ranked(keys), id) = Copies(keys, id)
  <1> DEFINE D == DOMAIN keys
             place == [i \in D |-> Cardinality(Before(keys, i)) + 1]
  <1>1. IsFiniteSet(D)
    BY PositionsFinite
  <1>2. \A i \in D : place[i] \in D /\ Ranked(keys)[place[i]] = keys[i]
    BY RankedHolds
  <1>3. \A i, j \in D : place[i] = place[j] => i = j
    <2>1. Len(keys) \in Nat
      OBVIOUS
    <2>2. \A i \in D : Cardinality(Before(keys, i)) \in Nat
      BY <2>1, Places
    <2> QED  BY <2>2, Places
  <1>4. place \in [D -> D]
    BY <1>2
  <1>5. DOMAIN Ranked(keys) = D
    BY DEF Ranked
  <1> HIDE DEF place
  <1>6. place \in Injection(D, D)
    BY <1>3, <1>4 DEF Injection, IsInjective
  <1> QED  BY <1>1, <1>2, <1>5, <1>6, SameCopies

\* Two numbers less than the modulus apart have different remainders.
LEMMA RemaindersApart ==
    ASSUME NEW a \in Int, NEW c \in Int, NEW b \in Nat \ {0}, a - c < b, c - a < b, a % b = c % b
    PROVE  a = c
  <1> DEFINE r == a % b
             s == c % b
             p == a \div b
             q == c \div b
  <1>1. p \in Int /\ q \in Int /\ r \in Int /\ a = b * p + r /\ c = b * q + s
    OBVIOUS
  <1>2. r = s
    OBVIOUS
  <1> HIDE DEF r, s, p, q
  <1>3. a - c = b * (p - q)
    BY <1>1, <1>2
  <1>4. ASSUME p - q >= 1 PROVE FALSE
    <2>1. b * (p - q) >= b
      BY <1>1, <1>4
    <2> QED  BY <1>3, <2>1
  <1>5. ASSUME p - q <= -1 PROVE FALSE
    <2>1. b * (p - q) <= -b
      BY <1>1, <1>5
    <2> QED  BY <1>3, <2>1
  <1>6. p = q
    BY <1>1, <1>4, <1>5
  <1> QED  BY <1>1, <1>2, <1>6

\* Neither does rotating.
LEMMA RotatedCopies ==
    ASSUME NEW keys \in Seq(KeyConfig), NEW offset \in Nat, NEW id
    PROVE  Copies(Rotated(keys, offset), id) = Copies(keys, id)
  <1> DEFINE D == DOMAIN keys
             L == Len(keys)
             move == [n \in D |-> ((n - 1 + offset) % L) + 1]
  <1>1. IsFiniteSet(D) /\ D = 1..L /\ L \in Nat
    BY PositionsFinite, NotEmpty
  <1> HIDE DEF D, L
  <1>2. ASSUME NEW n \in D
        PROVE  L \in Nat \ {0} /\ n - 1 + offset \in Nat /\ (n - 1 + offset) % L \in 0..(L - 1)
    <2>1. n \in 1..L /\ L \in Nat \ {0} /\ n - 1 + offset \in Nat
      BY <1>1, <1>2
    <2> QED  BY <2>1, RemainderType
  <1>3. \A n \in D : move[n] \in D
    <2> SUFFICES ASSUME NEW n \in D PROVE ((n - 1 + offset) % L) + 1 \in D
      OBVIOUS
    <2> DEFINE r == (n - 1 + offset) % L
    <2>1. r \in 0..(L - 1) /\ L \in Nat \ {0}
      BY <1>2
    <2> HIDE DEF r
    <2>2. r + 1 \in D
      BY <1>1, <2>1
    <2> QED  BY <2>2 DEF r
  <1>4. ASSUME NEW n \in D, NEW m \in D, move[n] = move[m] PROVE n = m
    <2> DEFINE a == n - 1 + offset
               c == m - 1 + offset
    <2>1. a \in Nat /\ c \in Nat /\ L \in Nat \ {0} /\ a - c < L /\ c - a < L
      BY <1>1, <1>4
    <2>2. a % L \in 0..(L - 1) /\ c % L \in 0..(L - 1) /\ (a % L) + 1 = (c % L) + 1
      BY <1>2, <1>4
    <2> DEFINE r == a % L
               s == c % L
    <2> HIDE DEF a, c, r, s
    <2>3. r = s
      <3>1. r \in 0..(L - 1) /\ s \in 0..(L - 1) /\ r + 1 = s + 1
        BY <2>2 DEF r, s
      <3> QED  BY <2>1, <3>1
    <2>4. a \in Int /\ c \in Int /\ a % L = c % L
      BY <2>1, <2>3 DEF r, s
    <2>5. a = c
      BY <2>1, <2>4, RemaindersApart
    <2>6. n \in Nat /\ m \in Nat
      BY <1>1
    <2> QED  BY <2>5, <2>6 DEF a, c
  <1>5. move \in [D -> D] /\ DOMAIN Rotated(keys, offset) = D
    BY <1>3 DEF Rotated, D
  <1>6. \A n \in D : Rotated(keys, offset)[n] = keys[move[n]]
    BY DEF Rotated, D, L
  <1> HIDE DEF move
  <1>7. move \in Injection(D, D)
    BY <1>4, <1>5 DEF Injection, IsInjective
  <1>8. DOMAIN keys = D
    BY DEF D
  <1> DEFINE rotated == Rotated(keys, offset)
  <1>9. DOMAIN rotated = D /\ \A n \in D : rotated[n] = keys[move[n]]
    BY <1>5, <1>6
  <1> HIDE DEF rotated
  <1>10. Copies(rotated, id) = Copies(keys, id)
    BY <1>1, <1>7, <1>8, <1>9, SameCopies
  <1> QED  BY <1>10 DEF rotated

\* A pool is enumerated whole.
LEMMA OrderKeysCopies ==
    ASSUME NEW conf \in ProviderConfig, NEW count \in Nat, NEW id
    PROVE  Copies(OrderKeys(conf, count), id) = Copies(conf.keys, id)
  <1>1. conf.keys \in Seq(KeyConfig)
    BY DEF ProviderConfig
  <1>2. Ranked(conf.keys) \in Seq(KeyConfig)
    BY <1>1, RankedType
  <1>3. Copies(Ranked(conf.keys), id) = Copies(conf.keys, id)
    BY <1>1, RankedCopies
  <1>4. Copies(Rotated(Ranked(conf.keys), count), id) = Copies(Ranked(conf.keys), id)
    BY <1>2, RotatedCopies
  <1> QED  BY <1>3, <1>4 DEF OrderKeys

\* What two lists put together name, they name together.
LEMMA OccurrencesAdd ==
    ASSUME NEW S, NEW q \in Seq(S), NEW s \in Seq(S), NEW p, NEW id
    PROVE  Occurrences(q \o s, p, id) = Occurrences(q, p, id) + Occurrences(s, p, id)
  <1> DEFINE r == q \o s
             Named(list) == {n \in DOMAIN list : list[n].provider = p /\ list[n].key = id}
             shifted == {n \in Named(r) : n \notin DOMAIN q}
             shift == [j \in Named(s) |-> Len(q) + j]
  <1>1. /\ r \in Seq(S)
        /\ Len(q) \in Nat /\ DOMAIN q = 1..Len(q) /\ DOMAIN s \subseteq Nat
        /\ \A n \in DOMAIN q : n \in DOMAIN r /\ r[n] = q[n]
        /\ \A j \in DOMAIN s : Len(q) + j \in DOMAIN r /\ Len(q) + j \notin DOMAIN q /\ r[Len(q) + j] = s[j]
        /\ \A n \in DOMAIN r : n \notin DOMAIN q =>
              n - Len(q) \in DOMAIN s /\ r[n] = s[n - Len(q)] /\ Len(q) + (n - Len(q)) = n
    OBVIOUS
  <1> HIDE DEF r
  <1>2. Named(r) = Named(q) \cup shifted /\ Named(q) \cap shifted = {}
    BY <1>1
  <1>3. IsFiniteSet(Named(q)) /\ IsFiniteSet(Named(s)) /\ IsFiniteSet(shifted)
        /\ Cardinality(Named(q)) \in Nat /\ Cardinality(shifted) \in Nat
    <2>1. Named(q) \in SUBSET DOMAIN q /\ Named(s) \in SUBSET DOMAIN s /\ shifted \in SUBSET DOMAIN r
      OBVIOUS
    <2> HIDE DEF Named, shifted
    <2> QED  BY <1>1, <2>1, PositionsFinite
  <1>4. Cardinality(shifted) = Cardinality(Named(s))
    <2>1. shift \in [Named(s) -> shifted]
      BY <1>1
    <2>2. \A j, k \in Named(s) : shift[j] = shift[k] => j = k
      BY <1>1
    <2>3. \A n \in shifted : \E j \in Named(s) : shift[j] = n
      <3> SUFFICES ASSUME NEW n \in shifted PROVE \E j \in Named(s) : shift[j] = n
        OBVIOUS
      <3>1. n - Len(q) \in DOMAIN s /\ r[n] = s[n - Len(q)] /\ Len(q) + (n - Len(q)) = n
        BY <1>1
      <3>2. n - Len(q) \in Named(s)
        BY <3>1
      <3> QED  BY <3>1, <3>2
    <2> HIDE DEF Named, shifted, shift
    <2>4. shift \in Bijection(Named(s), shifted)
      BY <2>1, <2>2, <2>3 DEF Bijection, Injection, Surjection, IsInjective
    <2> QED  BY <1>3, <2>4, FS_Bijection DEF ExistsBijection
  <1>5. Cardinality(Named(r)) = Cardinality(Named(q)) + Cardinality(Named(s))
    <2> HIDE DEF Named, shifted
    <2>1. Cardinality(Named(r)) = Cardinality(Named(q)) + Cardinality(shifted) - Cardinality({})
      BY <1>2, <1>3, FS_Union
    <2>2. Cardinality({}) = 0
      BY FS_EmptySet
    <2> QED  BY <1>3, <1>4, <2>1, <2>2
  <1> QED  BY <1>5 DEF Occurrences, r

\* What a step contributes names the keys of its pool, and no other.
LEMMA OccurrencesOfStep ==
    ASSUME IsGatewayConfig(config), NEW step \in RouteStep, NEW count \in Nat,
           NEW p \in DOMAIN config.providers, ~IsExecutor(config.providers[p]), NEW id
    PROVE  Occurrences(CandidatesOf(step, count), p, id)
              = IF step.provider = p /\ Resolves(step) THEN Copies(config.providers[p].keys, id) ELSE 0
  <1> DEFINE found == CandidatesOf(step, count)
             named == {n \in DOMAIN found : found[n].provider = p /\ found[n].key = id}
  <1>1. Cardinality({}) = 0
    BY FS_EmptySet
  <1>2. /\ found \in Seq(CandidateType)
        /\ \A n \in DOMAIN found : found[n].provider = step.provider
    BY CandidatesOfType
  <1>3. Occurrences(found, p, id) = Cardinality(named)
    BY DEF Occurrences
  <1>4. CASE ~Resolves(step)
    <2>1. found = <<>>
      BY <1>4 DEF CandidatesOf
    <2> HIDE DEF found
    <2>2. named = {}
      BY <2>1
    <2> QED  BY <1>1, <1>3, <1>4, <2>2 DEF found
  <1>5. CASE step.provider # p
    <2> HIDE DEF found
    <2>1. named = {}
      BY <1>2, <1>5
    <2> QED  BY <1>1, <1>3, <1>5, <2>1 DEF found
  <1>6. CASE step.provider = p /\ Resolves(step)
    <2> DEFINE keys == OrderKeys(config.providers[p], count)
    <2>1. /\ DOMAIN found = DOMAIN keys
          /\ \A n \in DOMAIN keys : found[n].key = keys[n].id
      BY <1>6, CandidatesOfType
    <2>2. Copies(keys, id) = Copies(config.providers[p].keys, id)
      <3>1. config.providers[p] \in ProviderConfig
        BY DEF IsGatewayConfig
      <3> QED  BY <3>1, OrderKeysCopies
    <2> HIDE DEF found, keys
    <2>3. named = {n \in DOMAIN keys : keys[n].id = id}
      BY <1>2, <1>6, <2>1
    <2>4. Cardinality(named) = Copies(keys, id)
      BY <2>3 DEF Copies
    <2> HIDE DEF named
    <2> QED  BY <1>3, <1>6, <2>2, <2>4 DEF found
  <1> QED  BY <1>4, <1>5, <1>6

\* When each of some sequences names a key so many times, and no other names it, all
\* together name it as many times for each of them.
LEMMA OccurrencesGathered ==
    ASSUME NEW S, NEW ss \in Seq(Seq(S)), ss # <<>>, NEW p, NEW id, NEW times \in Nat,
           NEW chosen \in SUBSET DOMAIN ss,
           \A k \in DOMAIN ss : Occurrences(ss[k], p, id) = IF k \in chosen THEN times ELSE 0
    PROVE  Occurrences(FlattenSeq(ss), p, id) = Cardinality(chosen) * times
  <1>1. Len(ss) \in Nat \ {0} /\ DOMAIN ss = 1..Len(ss)
    BY NotEmpty
  <1>2. PICK f : Concatenates(f, Len(ss), ss) /\ FlattenSeq(ss) = f[Len(ss)]
    BY <1>1, FlattenIsConcatenation
  <1>3. \A i \in 1..Len(ss) : f[i] = IF i = 1 THEN ss[i] ELSE f[i - 1] \o ss[i]
    BY <1>2 DEF Concatenates
  <1> DEFINE upTo(i) == chosen \cap (1..i)
             Done(i) == f[i] \in Seq(S) /\ Occurrences(f[i], p, id) = Cardinality(upTo(i)) * times
             missing == {i \in Nat : i \in 1..Len(ss) /\ ~ Done(i)}
  <1>4. \A i \in Nat : IsFiniteSet(upTo(i)) /\ Cardinality(upTo(i)) \in Nat
    <2> SUFFICES ASSUME NEW i \in Nat PROVE IsFiniteSet(upTo(i)) /\ Cardinality(upTo(i)) \in Nat
      OBVIOUS
    <2>1. IsFiniteSet(1..i) /\ upTo(i) \in SUBSET (1..i)
      BY FS_Interval
    <2> HIDE DEF upTo
    <2>2. IsFiniteSet(upTo(i))
      BY <2>1, FS_Subset
    <2> QED  BY <2>2, FS_CardinalityType
  <1>5. ASSUME NEW i \in Nat, i + 1 \in 1..Len(ss)
        PROVE  Cardinality(upTo(i + 1)) * times = Cardinality(upTo(i)) * times + Occurrences(ss[i + 1], p, id)
    <2>1. Occurrences(ss[i + 1], p, id) = IF i + 1 \in chosen THEN times ELSE 0
      BY <1>1, <1>5
    <2>2. upTo(i + 1) = IF i + 1 \in chosen THEN upTo(i) \cup {i + 1} ELSE upTo(i)
      BY <1>1
    <2>3. i + 1 \notin upTo(i)
      OBVIOUS
    <2> HIDE DEF upTo
    <2>4. Cardinality(upTo(i) \cup {i + 1}) = Cardinality(upTo(i)) + 1
      BY <1>4, <2>3, FS_AddElement
    <2> DEFINE c == Cardinality(upTo(i))
    <2>5. c \in Nat
      BY <1>4
    <2> HIDE DEF c
    <2>6. (c + 1) * times = c * times + times /\ c * times + 0 = c * times
      BY <2>5
    <2>7. CASE i + 1 \in chosen
      BY <2>1, <2>2, <2>4, <2>6, <2>7 DEF c
    <2>8. CASE i + 1 \notin chosen
      BY <2>1, <2>2, <2>6, <2>8 DEF c
    <2> QED  BY <2>7, <2>8
  <1>6. Cardinality(upTo(0)) * times = 0
    <2>1. upTo(0) = {} /\ Cardinality({}) = 0
      BY FS_EmptySet
    <2> HIDE DEF upTo
    <2>2. 0 * times = 0
      OBVIOUS
    <2> QED  BY <2>1, <2>2
  <1> HIDE DEF upTo
  <1>7. Done(1)
    <2>1. 1 \in 1..Len(ss) /\ 0 + 1 = 1
      BY <1>1
    <2>2. f[1] = ss[1] /\ ss[1] \in Seq(S)
      BY <1>1, <1>3, <2>1
    <2>3. Cardinality(upTo(1)) * times = 0 + Occurrences(ss[1], p, id)
      BY <1>5, <1>6, <2>1
    <2>4. Occurrences(ss[1], p, id) \in Nat
      BY <1>1, <2>1
    <2>5. Occurrences(ss[1], p, id) = Cardinality(upTo(1)) * times
      BY <2>3, <2>4
    <2> QED  BY <2>2, <2>5
  <1>8. ASSUME NEW n \in Nat \ {0}, n + 1 \in 1..Len(ss), Done(n) PROVE Done(n + 1)
    <2>1. f[n + 1] = f[n] \o ss[n + 1]
      <3>1. n + 1 # 1 /\ (n + 1) - 1 = n
        BY <1>8
      <3> QED  BY <1>3, <1>8, <3>1
    <2>2. f[n] \in Seq(S) /\ ss[n + 1] \in Seq(S)
      BY <1>1, <1>8
    <2>3. f[n + 1] \in Seq(S)
      BY <2>1, <2>2
    <2>4. Occurrences(f[n + 1], p, id) = Occurrences(f[n], p, id) + Occurrences(ss[n + 1], p, id)
      BY <2>1, <2>2, OccurrencesAdd
    <2>5. Occurrences(f[n], p, id) = Cardinality(upTo(n)) * times
      BY <1>8
    <2>6. Cardinality(upTo(n + 1)) * times
             = Cardinality(upTo(n)) * times + Occurrences(ss[n + 1], p, id)
      BY <1>5, <1>8
    <2> QED  BY <2>3, <2>4, <2>5, <2>6
  <1>9. ASSUME missing # {} PROVE FALSE
    <2> DEFINE m == Min(missing)
    <2>1. missing \in SUBSET Nat
      OBVIOUS
    <2>2. m \in missing /\ \A k \in missing : m <= k
      <3> HIDE DEF missing
      <3> QED  BY <1>9, <2>1, MinExists
    <2> HIDE DEF m
    <2>3. m \in Nat /\ m \in 1..Len(ss) /\ ~ Done(m)
      BY <2>2
    <2> HIDE DEF Done
    <2>4. m # 1
      BY <1>7, <2>3
    <2>5. m - 1 \in Nat \ {0} /\ (m - 1) + 1 = m /\ m - 1 \in 1..Len(ss) /\ ~ (m <= m - 1)
      BY <1>1, <2>3, <2>4
    <2>6. Done(m - 1)
      BY <2>2, <2>5
    <2>7. Done((m - 1) + 1)
      BY <1>8, <2>3, <2>5, <2>6
    <2> QED  BY <2>3, <2>5, <2>7
  <1>10. Done(Len(ss))
    <2>1. Len(ss) \in Nat /\ Len(ss) \in 1..Len(ss)
      BY <1>1
    <2> HIDE DEF Done
    <2> QED  BY <1>9, <2>1
  <1>11. upTo(Len(ss)) = chosen
    BY <1>1 DEF upTo
  <1> QED  BY <1>2, <1>10, <1>11

\* What build_candidates returns names each key of a pool as often as it should.
LEMMA BuildNamesAll ==
    ASSUME TypeInv, phase = "serving", NEW v \in DOMAIN config.routes,
           NEW p \in DOMAIN config.providers, ~IsExecutor(config.providers[p]), NEW id
    PROVE  LET steps == config.routes[v] IN
           Occurrences(BuildCandidates(steps), p, id)
              = Cardinality({k \in DOMAIN steps : steps[k].provider = p /\ Resolves(steps[k])})
                   * Copies(config.providers[p].keys, id)
  <1> DEFINE steps == config.routes[v]
             chosen == {k \in DOMAIN steps : steps[k].provider = p /\ Resolves(steps[k])}
             lists == [k \in DOMAIN steps |-> CandidatesOf(steps[k], counter + Turns(steps, k))]
             times == Copies(config.providers[p].keys, id)
  <1>1. steps \in Seq(RouteStep) /\ steps # <<>>
    BY DEF TypeInv, IsGatewayConfig, Valid
  <1>2. IsGatewayConfig(config) /\ counter \in Nat
    BY BuilderAssumption DEF TypeInv
  <1>3. DOMAIN steps = 1..Len(steps) /\ Len(steps) \in Nat \ {0} /\ \A k \in DOMAIN steps : steps[k] \in RouteStep
    <2> HIDE DEF steps
    <2> QED  BY <1>1, NotEmpty
  <1>4. ASSUME NEW k \in DOMAIN steps
        PROVE  /\ CandidatesOf(steps[k], counter + Turns(steps, k)) \in Seq(CandidateType)
               /\ Occurrences(CandidatesOf(steps[k], counter + Turns(steps, k)), p, id)
                     = IF k \in chosen THEN times ELSE 0
    <2>1. Turns(steps, k) \in Nat
      BY <1>3, TurnsType
    <2>2. counter + Turns(steps, k) \in Nat /\ steps[k] \in RouteStep
      BY <1>2, <1>3, <2>1
    <2> DEFINE count == counter + Turns(steps, k)
    <2> HIDE DEF count, times
    <2>3. CandidatesOf(steps[k], count) \in Seq(CandidateType)
      BY <1>2, <2>2, CandidatesOfType DEF count
    <2>4. Occurrences(CandidatesOf(steps[k], count), p, id)
             = IF steps[k].provider = p /\ Resolves(steps[k]) THEN times ELSE 0
      BY <1>2, <2>2, OccurrencesOfStep DEF count, times
    <2>5. k \in chosen <=> steps[k].provider = p /\ Resolves(steps[k])
      OBVIOUS
    <2> HIDE DEF chosen
    <2>6. Occurrences(CandidatesOf(steps[k], count), p, id) = IF k \in chosen THEN times ELSE 0
      BY <2>4, <2>5
    <2> HIDE DEF steps
    <2> QED  BY <2>3, <2>6 DEF count
  <1>5. times \in Nat
    <2>1. config.providers[p].keys \in Seq(KeyConfig)
      BY <1>2 DEF IsGatewayConfig, ProviderConfig
    <2> QED  BY <2>1, PositionsFinite DEF Copies
  <1>6. BuildCandidates(steps) = FlattenSeq(lists)
    BY DEF BuildCandidates
  <1> HIDE DEF times
  <1>7. /\ lists \in [1..Len(steps) -> Seq(CandidateType)]
        /\ DOMAIN lists = DOMAIN steps
        /\ \A k \in DOMAIN steps : Occurrences(lists[k], p, id) = IF k \in chosen THEN times ELSE 0
    BY <1>3, <1>4
  <1>8. chosen \in SUBSET DOMAIN steps
    OBVIOUS
  <1> HIDE DEF lists, chosen
  <1>9. lists \in Seq(Seq(CandidateType)) /\ lists # <<>>
    BY <1>3, <1>7
  <1>10. Occurrences(FlattenSeq(lists), p, id) = Cardinality(chosen) * times
    <2>1. /\ chosen \in SUBSET DOMAIN lists
          /\ \A k \in DOMAIN lists : Occurrences(lists[k], p, id) = IF k \in chosen THEN times ELSE 0
      BY <1>7, <1>8
    <2> QED  BY <1>5, <1>9, <2>1, OccurrencesGathered
  <1> QED  BY <1>6, <1>10 DEF chosen, times

\* The steps of route v that name provider p and are not skipped.
StepsOf(v, p) ==
    {k \in DOMAIN config.routes[v] : config.routes[v][k].provider = p /\ Resolves(config.routes[v][k])}

\* PoolComplete, in terms of Occurrences and Copies.
LEMMA CompleteMeans ==
    PoolComplete <=>
       (built.route # "none" =>
          \A p \in DOMAIN config.providers :
             ~IsExecutor(config.providers[p]) =>
                \A i \in DOMAIN config.providers[p].keys :
                   Occurrences(built.candidates, p, config.providers[p].keys[i].id)
                      = Cardinality(StepsOf(built.route, p))
                           * Copies(config.providers[p].keys, config.providers[p].keys[i].id))
  <1>1. ASSUME NEW p, NEW id
        PROVE  {n \in PositionsOf(p) : built.candidates[n].key = id}
                  = {n \in DOMAIN built.candidates : built.candidates[n].provider = p /\ built.candidates[n].key = id}
    BY DEF PositionsOf
  <1>2. \A p, id : Cardinality({n \in PositionsOf(p) : built.candidates[n].key = id})
                     = Occurrences(built.candidates, p, id)
    BY <1>1 DEF Occurrences
  <1> QED  BY <1>2 DEF PoolComplete, StepsOf, Copies

\* PoolComplete is kept.
LEMMA CompleteStep == TypeInv /\ PoolComplete /\ [Next]_vars => PoolComplete'
  <1> SUFFICES ASSUME TypeInv, PoolComplete, [Next]_vars PROVE PoolComplete'
    OBVIOUS
  <1>1. ASSUME built' = NotBuilt PROVE PoolComplete'
    BY <1>1 DEF PoolComplete, NotBuilt
  <1>2. CASE Load
    <2>1. built' = NotBuilt
      BY <1>2 DEF Load, TypeInv
    <2> QED  BY <1>1, <2>1
  <1>3. CASE Restart
    BY <1>1, <1>3 DEF Restart
  <1>4. ASSUME config' = config,
               built'.route # "none" =>
                  \A p \in DOMAIN config.providers :
                     ~IsExecutor(config.providers[p]) =>
                        \A i \in DOMAIN config.providers[p].keys :
                           Occurrences(built'.candidates, p, config.providers[p].keys[i].id)
                              = Cardinality(StepsOf(built'.route, p))
                                   * Copies(config.providers[p].keys, config.providers[p].keys[i].id)
        PROVE  PoolComplete'
    <2>1. \A p : StepsOf(built.route, p)' = StepsOf(built'.route, p)
      BY <1>4 DEF StepsOf, Resolves
    <2>2. (built.route # "none" =>
             \A p \in DOMAIN config.providers :
                ~IsExecutor(config.providers[p]) =>
                   \A i \in DOMAIN config.providers[p].keys :
                      Occurrences(built.candidates, p, config.providers[p].keys[i].id)
                         = Cardinality(StepsOf(built.route, p))
                              * Copies(config.providers[p].keys, config.providers[p].keys[i].id))'
      BY <1>4, <2>1
    <2> QED  BY <2>2, CompleteMeans, PTL
  <1>5. ASSUME NEW v \in VirtualModels, Build(v) PROVE PoolComplete'
    <2> DEFINE candidates == BuildCandidates(config.routes[v])
    <2>1. /\ phase = "serving" /\ v \in DOMAIN config.routes
          /\ built' = [route |-> v, candidates |-> candidates]
          /\ config' = config
      BY <1>5 DEF Build
    <2>2. built'.route = v /\ built'.candidates = candidates
      BY <2>1
    <2>3. ASSUME NEW p \in DOMAIN config.providers, ~IsExecutor(config.providers[p]), NEW id
          PROVE  Occurrences(candidates, p, id) = Cardinality(StepsOf(v, p)) * Copies(config.providers[p].keys, id)
      BY <2>1, <2>3, BuildNamesAll DEF StepsOf
    <2> HIDE DEF candidates
    <2> QED  BY <1>4, <2>1, <2>2, <2>3
  <1>6. CASE UNCHANGED vars
    <2>1. config' = config /\ built' = built
      BY <1>6 DEF vars
    <2> QED  BY <1>4, <2>1, CompleteMeans
  <1> QED  BY <1>2, <1>3, <1>5, <1>6 DEF Next

\* A request can fall back on the whole pool: wherever the counter stands, the list
\* of a route names every key of every pool as often as the route and the pool do.
THEOREM PoolsAreComplete == Spec => []PoolComplete
  <1>1. Init => PoolComplete
    BY DEF Init, PoolComplete, NotBuilt
  <1> QED  BY <1>1, InitType, TypeStep, CompleteStep, PTL DEF Spec

=============================================================================
