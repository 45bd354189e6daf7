------------------------ MODULE TelemetryQueue_proofs ------------------------
(***************************************************************************)
(* What the telemetry of a pigeon keeps for any number of deliveries,      *)
(* consumers, keys and readings: the newest value of each key in a store   *)
(* within its cap, one record of each reading, previous values that are    *)
(* never the reading's own, and stamps that cover the last contact.        *)
(***************************************************************************)
EXTENDS TelemetryQueue, WellFoundedInduction, FiniteSetTheorems, SequenceTheorems, TLAPS

Stores == UNION {[D -> Entries] : D \in SUBSET Keys}
Readings ==
  [at : Times, keys : SUBSET Keys, id : Messages \X (1..MaxReadings), previous : Stores]

Deliveries ==
  [state : {"none", "queued", "taken", "acked", "dead", "lost"}, readings : Seq(Readings),
   merged : BOOLEAN, seen : Times \cup {Never}, tries : Nat]
Invocations ==
  [phase : {"idle", "stamp", "dispatch", "count", "store", "alerts"}, of : Messages \cup {Never},
   readings : Seq(Readings), forward : BOOLEAN]

TypeInv ==
  /\ now \in 0..MaxTime
  /\ store \in Stores /\ legacy \in {Empty, Legacy}
  /\ newest \in [Keys -> Past \cup {Never}]
  /\ message \in [Messages -> Deliveries]
  /\ consumer \in [Consumers -> Invocations]
  /\ counted \in [Messages -> Nat] /\ stored \in [Messages -> Nat]
  /\ evaluated \subseteq Readings
  /\ merged \subseteq Messages /\ repeated \subseteq Messages
  /\ seen \in Times \cup {Never} /\ contact \in Times \cup {Never}
  /\ stamps \subseteq Times /\ lastSeen \in Times \cup {Never} /\ stampLost \in BOOLEAN

\* A key that is not in the store has no newest reading; one that is has its.
NewestIsOfStore ==
  /\ StoreHoldsNewest
  /\ \A k \in Keys : k \notin DOMAIN store => newest[k] = Never

\* The readings of a delivery are named for it, and are as few as were accepted.
Numbered(m, readings) == \A i \in DOMAIN readings : readings[i].id = <<m, i>>
ReadingsOK(m) ==
  /\ Len(message[m].readings) <= MaxReadings
  /\ Cardinality(KeysOf(message[m].readings)) <= MaxKeys
  /\ Numbered(m, message[m].readings)

\* An invocation that is at work has a delivery to itself, acked once its
\* readings are merged.
Taking(c) == consumer[c].phase \in {"stamp", "dispatch"}
Recording(c) == consumer[c].phase \in {"count", "store", "alerts"}
OwnDelivery(c) ==
  /\ consumer[c].phase # "idle" =>
       /\ Of(c) \in Messages
       /\ \A d \in Consumers : consumer[d].phase # "idle" /\ Of(d) = Of(c) => d = c
  /\ Taking(c) => message[Of(c)].state = "taken"
  /\ Recording(c) =>
       /\ message[Of(c)].state = "acked" /\ Of(c) \in merged
       /\ Len(consumer[c].readings) = Len(message[Of(c)].readings)
       /\ Numbered(Of(c), consumer[c].readings)
  /\ consumer[c].phase = "stamp" => message[Of(c)].seen # Never

\* What is recorded of a delivery, against how far its consumer has come.
NothingRecorded ==
  /\ \A m \in Messages : message[m].state # "acked" => counted[m] = 0 /\ stored[m] = 0
  /\ \A c \in Consumers : consumer[c].phase = "count" => counted[Of(c)] = 0
  /\ \A c \in Consumers : consumer[c].phase \in {"count", "store"} => stored[Of(c)] = 0

\* What a delivery has to do with the deliveries that are merged.
MergedOnce(m) ==
  /\ message[m].state = "none" => m \notin merged
  /\ message[m].merged => m \in merged
  /\ message[m].readings # <<>> /\ ~message[m].merged /\ message[m].state \in {"queued", "taken"}
       /\ m \in merged => m \in repeated

\* Nothing in a reading's previous values is of the reading or of a later one.
OwnStep(r) ==
  \A k \in DOMAIN r.previous :
    r.previous[k].from # Never /\ r.previous[k].from[1] = r.id[1] => r.previous[k].from[2] < r.id[2]
OwnSteps(m, readings) == m \notin repeated => \A i \in DOMAIN readings : OwnStep(readings[i])

StepsOK ==
  /\ \A k \in DOMAIN store : store[k].from # Never => store[k].from[1] \in merged
  /\ \A m \in Messages : OwnSteps(m, message[m].readings)
  /\ \A c \in Consumers : Recording(c) => OwnSteps(Of(c), consumer[c].readings)

\* No stamp is ahead of the object's, which is no older than a contact allows.
StampsBehind ==
  /\ contact # Never => seen # Never
  /\ seen # Never => /\ contact # Never /\ 0 <= seen /\ seen <= contact /\ contact <= now
                     /\ contact - seen <= StampHold
  /\ \A at \in stamps : seen # Never /\ at <= seen
  /\ \A m \in Messages : message[m].seen # Never => seen # Never /\ message[m].seen <= seen
  /\ lastSeen # Never => seen # Never /\ lastSeen <= seen

Carries(m) == message[m].seen = seen /\ message[m].state \in {"queued", "taken"}
\* While none is lost, the object's stamp is on the mirror or on its way.
StampOnItsWay ==
  ~stampLost =>
    /\ lastSeen = seen \/ seen \in stamps \/ \E m \in Messages : Carries(m)
    /\ \A c \in Consumers :
         consumer[c].phase = "dispatch" /\ message[Of(c)].seen # Never =>
           lastSeen # Never /\ lastSeen >= message[Of(c)].seen

DeliveriesOK ==
  /\ NothingRecorded /\ RecordedOnce
  /\ StepsOK /\ NoStepFromItself
  /\ \A m \in Messages : ReadingsOK(m)
  /\ \A m \in Messages : MergedOnce(m)
  /\ \A c \in Consumers : OwnDelivery(c)

IInv == TypeInv /\ NewestIsOfStore /\ DeliveriesOK /\ StampsBehind /\ StampOnItsWay

----------------------------------------------------------------------------
(* Least elements, on which every induction below rests. *)

LEMMA LeastSet ==
  ASSUME NEW S, IsFiniteSet(S), NEW T, T \subseteq SUBSET S, T # {}
  PROVE  \E x \in T : \A y \in T : y \subseteq x => y = x
<1>1. FiniteSubsetsOf(S) = SUBSET S
  BY FS_FiniteSubsetsOfFinite
<1>2. IsWellFoundedOn(StrictSubsetOrdering(S), SUBSET S)
  BY <1>1, FS_StrictSubsetOrderingWellFounded
<1>3. PICK x \in T : \A y \in T : ~(<<y, x>> \in StrictSubsetOrdering(S))
  BY <1>2, WFMin
<1> QED
  BY <1>3 DEF StrictSubsetOrdering

LEMMA LeastNat ==
  ASSUME NEW T, T \subseteq Nat, T # {}
  PROVE  \E n \in T : \A m \in T : n <= m
<1>1. PICK b \in T : TRUE
  OBVIOUS
<1> DEFINE Upto == {0..n : n \in {k \in T : k <= b}}
<1>2. IsFiniteSet(0..b)
  BY FS_Interval
<1>3. Upto \subseteq SUBSET (0..b) /\ Upto # {}
  <2>1. (0..b) \in Upto
    OBVIOUS
  <2> QED
    BY <2>1
<1>4. PICK x \in Upto : \A y \in Upto : y \subseteq x => y = x
  <2> DEFINE S0 == 0..b
  <2>1. IsFiniteSet(S0) /\ Upto \subseteq SUBSET S0 /\ Upto # {}
    BY <1>2, <1>3
  <2> HIDE DEF Upto, S0
  <2> QED
    BY <2>1, LeastSet
<1>5. PICK n \in T : n <= b /\ x = 0..n
  OBVIOUS
<1>6. ASSUME NEW m \in T, m < n PROVE FALSE
  <2>1. m <= b /\ (0..m) \in Upto
    BY <1>5, <1>6
  <2>2. 0..m \subseteq 0..n
    BY <1>6
  <2>4. 0..m = 0..n
    BY <1>4, <1>5, <2>1, <2>2
  <2>3. n \in 0..n /\ n \notin 0..m
    BY <1>6
  <2> QED
    BY <2>3, <2>4
<1> QED
  BY <1>6

LEMMA Element ==
  ASSUME NEW S, NEW q \in Seq(S), NEW i \in DOMAIN q
  PROVE  q[i] \in S
OBVIOUS

\* A function on the first n numbers is a sequence.
LEMMA SeqOf ==
  ASSUME NEW S, NEW n \in Nat, NEW f \in [1..n -> S]
  PROVE  f \in Seq(S) /\ Len(f) = n /\ DOMAIN f = 1..n
<1>1. f \in Seq(S)
  BY SeqDef
<1>2. Len(f) \in Nat /\ DOMAIN f = 1..Len(f)
  BY <1>1, LenProperties
<1>3. DOMAIN f = 1..n
  OBVIOUS
<1>4. ASSUME Len(f) < n PROVE FALSE
  <2>1. n \in 1..n /\ n \notin 1..Len(f)
    BY <1>2, <1>4
  <2> QED
    BY <1>2, <1>3, <2>1
<1>5. ASSUME n < Len(f) PROVE FALSE
  <2>1. Len(f) \in 1..Len(f) /\ Len(f) \notin 1..n
    BY <1>2, <1>5
  <2> QED
    BY <1>2, <1>3, <2>1
<1> QED
  BY <1>1, <1>2, <1>3, <1>4, <1>5

\* A set without one of the elements of a finite set that holds it is smaller.
LEMMA Fewer ==
  ASSUME NEW T, IsFiniteSet(T), NEW S, S \subseteq T, NEW x \in T, x \notin S
  PROVE  Cardinality(S) \in Nat /\ Cardinality(T) \in Nat /\ Cardinality(S) < Cardinality(T)
<1>1. /\ IsFiniteSet(S) /\ Cardinality(S) <= Cardinality(T)
      /\ Cardinality(S) = Cardinality(T) => S = T
  <2>1. S \in SUBSET T
    OBVIOUS
  <2> QED
    BY <2>1, FS_Subset
<1>2. Cardinality(S) \in Nat /\ Cardinality(T) \in Nat
  BY <1>1, FS_CardinalityType
<1>3. S # T
  OBVIOUS
<1> QED
  BY <1>1, <1>2, <1>3

----------------------------------------------------------------------------
(* The latest-value store. *)

\* However much is over the cap, and whatever is protected, what is left is
\* within it: the victims are as many as the excess, or all the candidates.
LEMMA Evicted ==
  ASSUME NEW s, DOMAIN s \subseteq Keys, \A k \in DOMAIN s : s[k].at \in Int,
         NEW p, p \subseteq Keys, Cardinality(p) <= MaxKeys,
         NEW e, e = EvictToCap(s, p)
  PROVE  /\ DOMAIN e \subseteq DOMAIN s /\ e = [k \in DOMAIN e |-> s[k]]
         /\ \A k \in DOMAIN e : e[k] = s[k]
         /\ DOMAIN s \cap p \subseteq DOMAIN e
         /\ Cardinality(DOMAIN e) <= MaxKeys
<1> DEFINE D == DOMAIN s
           candidates == D \ p
           older(j, k) == s[j].at < s[k].at \/ (s[j].at = s[k].at /\ j < k)
           before(k) == {j \in candidates : older(j, k)}
           excess == Cardinality(D) - MaxKeys
           victims == {k \in candidates : Cardinality(before(k)) < excess}
<1>1. e = [k \in D \ victims |-> s[k]]
  BY DEF EvictToCap
<1>2. DOMAIN e = D \ victims /\ victims \subseteq candidates
  BY <1>1
<1>3. IsFiniteSet(D) /\ IsFiniteSet(candidates) /\ IsFiniteSet(p) /\ IsFiniteSet(victims)
  <2>1. \A S \in SUBSET Keys : IsFiniteSet(S)
    BY StoreAssumption, FS_Subset
  <2>2. D \in SUBSET Keys /\ candidates \in SUBSET Keys /\ p \in SUBSET Keys /\ victims \in SUBSET Keys
    OBVIOUS
  <2> HIDE DEF D, candidates, victims
  <2> QED
    BY <2>1, <2>2
<1>4. Cardinality(D) \in Nat /\ Cardinality(p) \in Nat /\ MaxKeys \in Nat /\ excess \in Int
  <2>1. Cardinality(D) \in Nat
    BY <1>3, FS_CardinalityType
  <2>2. Cardinality(p) \in Nat
    BY <1>3, FS_CardinalityType
  <2> QED
    BY <2>1, <2>2, StoreAssumption
<1>5. \A k \in candidates :
        /\ before(k) \subseteq candidates /\ Cardinality(before(k)) \in Nat
        /\ \A j \in before(k) : Cardinality(before(j)) < Cardinality(before(k))
  <2> SUFFICES ASSUME NEW k \in candidates
               PROVE  /\ before(k) \subseteq candidates /\ Cardinality(before(k)) \in Nat
                      /\ \A j \in before(k) : Cardinality(before(j)) < Cardinality(before(k))
    OBVIOUS
  <2>1. before(k) \subseteq candidates
    OBVIOUS
  <2>2. IsFiniteSet(before(k))
    <3>1. before(k) \in SUBSET candidates
      BY <2>1
    <3> HIDE DEF candidates, before
    <3> QED
      BY <1>3, <3>1, FS_Subset
  <2>3. Cardinality(before(k)) \in Nat
    <3> HIDE DEF before
    <3> QED
      BY <2>2, FS_CardinalityType
  <2>4. ASSUME NEW j \in before(k) PROVE Cardinality(before(j)) < Cardinality(before(k))
    <3>1. j \in candidates /\ j \in Nat /\ k \in Nat /\ s[j].at \in Int /\ s[k].at \in Int
      BY StoreAssumption
    <3>2. before(j) \subseteq before(k)
      <4> SUFFICES ASSUME NEW i \in candidates, older(i, j) PROVE older(i, k)
        OBVIOUS
      <4>1. i \in Nat /\ s[i].at \in Int /\ older(j, k)
        BY StoreAssumption
      <4> HIDE DEF candidates
      <4> QED
        BY <3>1, <4>1
    <3>3. j \notin before(j)
      BY <3>1
    <3> HIDE DEF before
    <3> QED
      BY <2>2, <3>2, <3>3, Fewer
  <2> QED
    BY <2>1, <2>3, <2>4
<1>6. Cardinality(D \ victims) <= MaxKeys
  <2>1. CASE candidates = victims
    <3>1. D \ victims \subseteq p
      BY <2>1
    <3>2. D \ victims \in SUBSET p
      BY <3>1
    <3>3. Cardinality(D \ victims) <= Cardinality(p) /\ IsFiniteSet(D \ victims)
      <4> HIDE DEF D, victims
      <4> QED
        BY <1>3, <3>2, FS_Subset
    <3>4. Cardinality(D \ victims) \in Nat
      BY <3>3, FS_CardinalityType
    <3> QED
      BY <1>4, <3>3, <3>4
  <2>2. CASE candidates # victims
    <3> DEFINE Spared == candidates \ victims
               Ranks == {n \in Nat : \E k \in Spared : n = Cardinality(before(k))}
    <3>1. Ranks \subseteq Nat /\ Ranks # {}
      <4>1. PICK k \in Spared : TRUE
        BY <1>2, <2>2
      <4>2. Cardinality(before(k)) \in Nat
        BY <1>5, <4>1
      <4>3. Cardinality(before(k)) \in Ranks
        BY <4>1, <4>2
      <4> HIDE DEF before, Spared
      <4> QED
        BY <4>3
    <3>2. PICK n \in Ranks : \A m \in Ranks : n <= m
      <4> HIDE DEF Ranks
      <4> QED
        BY <3>1, LeastNat
    <3>3. PICK k \in Spared : n = Cardinality(before(k))
      OBVIOUS
    <3>4. before(k) \subseteq victims
      <4> SUFFICES ASSUME NEW j \in before(k), j \notin victims PROVE FALSE
        OBVIOUS
      <4>1. j \in candidates /\ j \in Spared /\ k \in candidates
        OBVIOUS
      <4>2. Cardinality(before(j)) \in Nat /\ Cardinality(before(j)) < Cardinality(before(k))
        <5> HIDE DEF before, candidates
        <5> QED
          BY <1>5, <4>1
      <4>3. Cardinality(before(j)) \in Ranks
        <5> HIDE DEF before, candidates, Spared
        <5> QED
          BY <4>1, <4>2
      <4> HIDE DEF before, candidates, Spared, Ranks, victims
      <4> QED
        BY <3>1, <3>2, <3>3, <4>2, <4>3
    <3>5. Cardinality(before(k)) <= Cardinality(victims)
      <4>1. before(k) \in SUBSET victims
        BY <3>4
      <4> HIDE DEF before, victims
      <4> QED
        BY <1>3, <4>1, FS_Subset
    <3>6. ~(Cardinality(before(k)) < excess) /\ Cardinality(before(k)) \in Nat
      <4>1. k \in candidates /\ k \notin victims
        OBVIOUS
      <4>2. Cardinality(before(k)) \in Nat
        BY <1>5, <4>1
      <4> QED
        BY <4>1, <4>2
    <3>7. Cardinality(D \ victims) = Cardinality(D) - Cardinality(victims)
      <4>1. D \cap victims = victims
        BY <1>2
      <4> HIDE DEF D, victims
      <4> QED
        BY <1>3, <4>1, FS_Difference
    <3>8. Cardinality(victims) \in Nat
      <4> HIDE DEF victims
      <4> QED
        BY <1>3, FS_CardinalityType
    <3> HIDE DEF D, victims, before
    <3> QED
      BY <1>4, <3>5, <3>6, <3>7, <3>8
  <2> QED
    BY <2>1, <2>2
<1>7. DOMAIN s \cap p \subseteq D \ victims
  BY <1>2
<1> QED
  <2> HIDE DEF victims
  <2> QED
    BY <1>1, <1>2, <1>6, <1>7

\* The store as it is after each reading, by the recursion that defines it.
LEMMA MergedStep ==
  ASSUME NEW s, NEW q, Len(q) \in Nat, NEW f, f = Merged(s, q)
  PROVE  f[0] = s /\ \A i \in 1..Len(q) : f[i] = MergeReading(f[i - 1], q[i])
<1> DEFINE Step(g, i) == MergeReading(g[i - 1], q[i])
           Goes(g, n) == g = [i \in 0..n |-> IF i = 0 THEN s ELSE Step(g, i)]
           Stuck == {n \in Nat : ~\E g : Goes(g, n)}
<1>1. Stuck = {}
  <2> SUFFICES ASSUME Stuck # {} PROVE FALSE
    OBVIOUS
  <2>1. Stuck \subseteq Nat
    OBVIOUS
  <2> HIDE DEF Stuck
  <2>2. PICK n \in Stuck : \A m \in Stuck : n <= m
    BY <2>1, LeastNat
  <2>3. n # 0
    <3>1. Goes([i \in 0..0 |-> s], 0)
      OBVIOUS
    <3> QED
      BY <3>1 DEF Stuck
  <2>4. n \in Nat /\ n - 1 \in Nat /\ n - 1 \notin Stuck
    BY <2>1, <2>2, <2>3
  <2>5. PICK g : Goes(g, n - 1)
    BY <2>4 DEF Stuck
  <2> DEFINE h == [i \in 0..n |-> IF i = n THEN Step(g, n) ELSE g[i]]
  <2>6. \A i \in 0..(n - 1) : h[i] = g[i]
    BY <2>4
  <2>7. \A i \in 0..n : h[i] = IF i = 0 THEN s ELSE Step(h, i)
    <3> SUFFICES ASSUME NEW i \in 0..n PROVE h[i] = IF i = 0 THEN s ELSE Step(h, i)
      OBVIOUS
    <3>1. CASE i = 0
      BY <2>3, <2>4, <2>5, <2>6, <3>1
    <3>2. CASE i # 0
      <4>1. i - 1 \in 0..(n - 1) /\ h[i - 1] = g[i - 1]
        BY <2>4, <2>6, <3>2
      <4>2. h[i] = Step(g, i)
        <5>1. CASE i = n
          BY <5>1
        <5>2. CASE i # n
          <6>1. i \in 0..(n - 1) /\ h[i] = g[i]
            BY <2>4, <2>6, <5>2
          <6> QED
            BY <2>5, <3>2, <6>1
        <5> QED
          BY <5>1, <5>2
      <4> QED
        BY <3>2, <4>1, <4>2
    <3> QED
      BY <3>1, <3>2
  <2>8. Goes(h, n)
    <3>1. h = [i \in 0..n |-> h[i]]
      OBVIOUS
    <3> HIDE DEF h, Step
    <3> QED
      BY <2>7, <3>1
  <2> QED
    BY <2>2, <2>8 DEF Stuck
<1>2. \E g : Goes(g, Len(q))
  BY <1>1
<1>3. Merged(s, q) = CHOOSE g : Goes(g, Len(q))
  BY DEF Merged
<1>4. Goes(f, Len(q))
  <2> HIDE DEF Goes
  <2> QED
    BY <1>2, <1>3
<1> QED
  BY <1>4

\* What a store holds of another it was merged from and the first i readings.
Brings(q, j, k, entry) ==
  k \in q[j].keys /\ entry = [from |-> q[j].id, at |-> q[j].at]
Holds(s, q, i, f) ==
  /\ f = [k \in DOMAIN f |-> f[k]]
  /\ \A k : k \in DOMAIN f <=> k \in DOMAIN s \/ \E j \in 1..i : k \in q[j].keys
  /\ \A k \in DOMAIN f : \/ k \in DOMAIN s /\ f[k] = s[k]
                         \/ \E j \in 1..i : Brings(q, j, k, f[k])
  /\ \A k \in DOMAIN s : f[k].at >= s[k].at
  /\ \A j \in 1..i : \A k \in q[j].keys : f[k].at >= q[j].at

LEMMA HoldsStep ==
  ASSUME NEW s, \A k \in DOMAIN s : s[k].at \in Int,
         NEW q, Len(q) \in Nat, \A j \in 1..Len(q) : q[j].at \in Int,
         NEW i \in 1..Len(q), NEW f, Holds(s, q, i - 1, f)
  PROVE  Holds(s, q, i, MergeReading(f, q[i]))
<1> DEFINE g == MergeReading(f, q[i])
<1>1. /\ DOMAIN g = DOMAIN f \cup q[i].keys
      /\ g = [k \in DOMAIN g |-> g[k]]
      /\ \A k \in DOMAIN g : g[k] = IF k \in q[i].keys /\ ~(k \in DOMAIN f /\ f[k].at > q[i].at)
                                    THEN [from |-> q[i].id, at |-> q[i].at] ELSE f[k]
  BY DEF MergeReading
<1>2. i - 1 \in Nat /\ 1..i = (1..(i - 1)) \cup {i} /\ i \in 1..i /\ 1..i \subseteq 1..Len(q)
  OBVIOUS
<1> HIDE DEF g
<1>3. \A k : k \in DOMAIN g <=> k \in DOMAIN s \/ \E j \in 1..i : k \in q[j].keys
  BY <1>1, <1>2 DEF Holds
<1>4. \A k \in DOMAIN f : f[k].at \in Int
  <2> SUFFICES ASSUME NEW k \in DOMAIN f PROVE f[k].at \in Int
    OBVIOUS
  <2>1. CASE k \in DOMAIN s /\ f[k] = s[k]
    BY <2>1
  <2>2. ASSUME NEW j \in 1..(i - 1), Brings(q, j, k, f[k]) PROVE f[k].at \in Int
    <3>1. j \in 1..Len(q)
      BY <1>2
    <3> QED
      BY <2>2, <3>1 DEF Brings
  <2> QED
    BY <2>1, <2>2 DEF Holds
<1>5. \A k \in DOMAIN g : \/ k \in DOMAIN s /\ g[k] = s[k]
                          \/ \E j \in 1..i : Brings(q, j, k, g[k])
  <2> SUFFICES ASSUME NEW k \in DOMAIN g
               PROVE  \/ k \in DOMAIN s /\ g[k] = s[k]
                      \/ \E j \in 1..i : Brings(q, j, k, g[k])
    OBVIOUS
  <2>1. CASE k \in q[i].keys /\ ~(k \in DOMAIN f /\ f[k].at > q[i].at)
    BY <1>1, <1>2, <2>1 DEF Brings
  <2>2. CASE ~(k \in q[i].keys /\ ~(k \in DOMAIN f /\ f[k].at > q[i].at))
    <3>1. g[k] = f[k] /\ k \in DOMAIN f
      BY <1>1, <2>2
    <3> QED
      BY <1>2, <3>1 DEF Holds
  <2> QED
    BY <2>1, <2>2
<1>6. \A k \in DOMAIN f : k \in DOMAIN g /\ g[k].at >= f[k].at
  <2> SUFFICES ASSUME NEW k \in DOMAIN f PROVE k \in DOMAIN g /\ g[k].at >= f[k].at
    OBVIOUS
  <2>1. f[k].at \in Int /\ q[i].at \in Int /\ k \in DOMAIN g
    BY <1>1, <1>4
  <2> QED
    BY <1>1, <2>1
<1>7. \A k \in DOMAIN g : g[k].at \in Int
  BY <1>1, <1>4
<1>8. \A k \in DOMAIN s : g[k].at >= s[k].at
  <2> SUFFICES ASSUME NEW k \in DOMAIN s PROVE g[k].at >= s[k].at
    OBVIOUS
  <2>1. k \in DOMAIN f /\ f[k].at >= s[k].at /\ k \in DOMAIN g /\ g[k].at >= f[k].at
    BY <1>6 DEF Holds
  <2>2. g[k].at \in Int /\ f[k].at \in Int /\ s[k].at \in Int
    BY <1>4, <1>7, <2>1
  <2> QED
    BY <2>1, <2>2
<1>9. \A j \in 1..i : \A k \in q[j].keys : g[k].at >= q[j].at
  <2> SUFFICES ASSUME NEW j \in 1..i, NEW k \in q[j].keys PROVE g[k].at >= q[j].at
    OBVIOUS
  <2>1. k \in DOMAIN g /\ g[k].at \in Int /\ q[j].at \in Int
    BY <1>2, <1>3, <1>7
  <2>2. CASE j = i
    <3>1. CASE k \in DOMAIN f /\ f[k].at > q[i].at
      BY <1>1, <1>4, <2>1, <2>2, <3>1
    <3>2. CASE ~(k \in DOMAIN f /\ f[k].at > q[i].at)
      BY <1>1, <2>1, <2>2, <3>2
    <3> QED
      BY <3>1, <3>2
  <2>3. CASE j # i
    <3>1. j \in 1..(i - 1)
      BY <1>2, <2>3
    <3>2. k \in DOMAIN f /\ f[k].at >= q[j].at
      BY <3>1 DEF Holds
    <3> QED
      BY <1>4, <1>6, <2>1, <3>2
  <2> QED
    BY <2>2, <2>3
<1> QED
  BY <1>1, <1>3, <1>5, <1>8, <1>9 DEF Holds, g

LEMMA MergedHolds ==
  ASSUME NEW s, s = [k \in DOMAIN s |-> s[k]], \A k \in DOMAIN s : s[k].at \in Int,
         NEW q, Len(q) \in Nat, \A j \in 1..Len(q) : q[j].at \in Int,
         NEW i \in 0..Len(q)
  PROVE  Holds(s, q, i, Merged(s, q)[i])
<1> DEFINE f == Merged(s, q)
           Bad == {n \in 0..Len(q) : ~Holds(s, q, n, f[n])}
<1> SUFFICES ASSUME Bad # {} PROVE FALSE
  OBVIOUS
<1>1. f[0] = s /\ \A n \in 1..Len(q) : f[n] = MergeReading(f[n - 1], q[n])
  <2> HIDE DEF f
  <2>1. f = Merged(s, q)
    BY DEF f
  <2> QED
    BY <2>1, MergedStep
<1>2. Bad \subseteq Nat
  OBVIOUS
<1>3. PICK n \in Bad : \A m \in Bad : n <= m
  <2> HIDE DEF Bad
  <2> QED
    BY <1>2, LeastNat
<1> HIDE DEF f
<1>4. n # 0
  <2>1. Holds(s, q, 0, s)
    BY DEF Holds
  <2> QED
    BY <1>1, <1>3, <2>1
<1>5. n \in 1..Len(q) /\ n - 1 \in 0..Len(q) /\ n - 1 \notin Bad
  BY <1>2, <1>3, <1>4
<1>6. Holds(s, q, n - 1, f[n - 1])
  BY <1>5
<1>7. Holds(s, q, n, MergeReading(f[n - 1], q[n]))
  BY <1>5, <1>6, HoldsStep
<1> QED
  BY <1>1, <1>3, <1>5, <1>7

----------------------------------------------------------------------------
(* Reports on their way into the store. *)

LEMMA ResolvedTime ==
  ASSUME NEW claim \in Claims, NEW t \in 0..MaxTime
  PROVE  ResolveAt(claim, t) \in Times
BY StoreAssumption, QueueAssumption DEF Claims, ResolveAt, Times

\* The ranks in the chronological order are all the places there are.
LEMMA RanksFill ==
  ASSUME NEW N \in Nat, NEW at \in [1..N -> Int]
  PROVE  LET rank(i) == Cardinality({j \in 1..N : at[j] < at[i] \/ (at[j] = at[i] /\ j <= i)})
         IN \A p \in 1..N : \E i \in 1..N : rank(i) = p
<1> DEFINE D == 1..N
           upto(i) == {j \in D : at[j] < at[i] \/ (at[j] = at[i] /\ j <= i)}
           f == [i \in D |-> Cardinality(upto(i))]
<1>1. IsFiniteSet(D) /\ Cardinality(D) = N
  BY FS_Interval
<1>2. ASSUME NEW i \in D PROVE IsFiniteSet(upto(i)) /\ Cardinality(upto(i)) \in 1..N
  <2>1. upto(i) \in SUBSET D /\ i \in upto(i)
    OBVIOUS
  <2> HIDE DEF D, upto
  <2>2. IsFiniteSet(upto(i)) /\ Cardinality(upto(i)) <= N
    BY <1>1, <2>1, FS_Subset
  <2>3. Cardinality(upto(i)) \in Nat /\ Cardinality(upto(i)) # 0
    BY <2>1, <2>2, FS_CardinalityType, FS_EmptySet
  <2> QED
    BY <2>2, <2>3
<1>3. ASSUME NEW i \in D, NEW k \in D, i # k, at[i] < at[k] \/ (at[i] = at[k] /\ i <= k)
      PROVE  Cardinality(upto(i)) # Cardinality(upto(k))
  <2>1. upto(i) \subseteq upto(k)
    <3> SUFFICES ASSUME NEW j \in D, at[j] < at[i] \/ (at[j] = at[i] /\ j <= i)
                 PROVE  at[j] < at[k] \/ (at[j] = at[k] /\ j <= k)
      OBVIOUS
    <3>1. at[j] \in Int /\ at[i] \in Int /\ at[k] \in Int /\ j \in Nat /\ i \in Nat /\ k \in Nat
      OBVIOUS
    <3> QED
      BY <1>3, <3>1
  <2>2. k \in upto(k) /\ k \notin upto(i)
    <3>1. at[i] \in Int /\ at[k] \in Int /\ i \in Nat /\ k \in Nat
      OBVIOUS
    <3> QED
      BY <1>3, <3>1
  <2>3. IsFiniteSet(upto(k))
    BY <1>2
  <2> HIDE DEF upto
  <2>4. Cardinality(upto(i)) < Cardinality(upto(k)) /\ Cardinality(upto(i)) \in Nat
        /\ Cardinality(upto(k)) \in Nat
    BY <2>1, <2>2, <2>3, Fewer
  <2> QED
    BY <2>4
<1>4. ASSUME NEW i \in D, NEW k \in D, i # k PROVE Cardinality(upto(i)) # Cardinality(upto(k))
  <2>1. at[i] \in Int /\ at[k] \in Int /\ i \in Nat /\ k \in Nat
    OBVIOUS
  <2>2. \/ at[i] < at[k] \/ (at[i] = at[k] /\ i <= k)
        \/ at[k] < at[i] \/ (at[k] = at[i] /\ k <= i)
    BY <2>1
  <2> HIDE DEF D, upto
  <2> QED
    BY <1>3, <1>4, <2>2
<1>5. f \in Injection(D, D)
  <2>1. f \in [D -> D]
    BY <1>2
  <2>2. \A i, k \in D : f[i] = f[k] => i = k
    <3> HIDE DEF D, upto
    <3> QED
      BY <1>4
  <2> HIDE DEF f, D
  <2> QED
    BY <2>1, <2>2 DEF Injection, IsInjective
<1>6. f \in Surjection(D, D)
  <2> HIDE DEF f, D
  <2> QED
    BY <1>1, <1>5, FS_Injection
<1>7. \A p \in D : \E i \in D : f[i] = p
  <2> HIDE DEF f, D
  <2> QED
    BY <1>6 DEF Surjection
<1> QED
  BY <1>7

\* A resolved reading is one of the report's, at a time within the window.
LEMMA Resolved ==
  ASSUME NEW body \in Seq(Reports), NEW t \in 0..MaxTime,
         NEW r, r = ResolveBatch(body, t)
  PROVE  /\ r = [p \in 1..Len(body) |-> r[p]] /\ DOMAIN r = 1..Len(body) /\ Len(body) \in Nat
         /\ \A p \in 1..Len(body) :
              r[p].at \in Times /\ \E i \in 1..Len(body) : r[p].keys = body[i].keys
<1> DEFINE N == Len(body)
           at == [i \in 1..N |-> ResolveAt(body[i].claim, t)]
           rank(i) == Cardinality({j \in 1..N : at[j] < at[i] \/ (at[j] = at[i] /\ j <= i)})
           nth(p) == CHOOSE i \in 1..N : rank(i) = p
<1>1. N \in Nat /\ DOMAIN body = 1..N
  BY LenProperties
<1>2. \A i \in 1..N : body[i].claim \in Claims
  <2>1. \A i \in 1..N : body[i] \in Reports
    BY <1>1, Element
  <2> QED
    BY <2>1 DEF Reports
<1>3. \A i \in 1..N : at[i] \in Times
  BY <1>2, ResolvedTime
<1>4. at \in [1..N -> Int]
  <2>1. \A i \in 1..N : at[i] \in Int
    BY <1>3, StoreAssumption, QueueAssumption DEF Times
  <2>2. at = [i \in 1..N |-> at[i]]
    OBVIOUS
  <2> HIDE DEF at
  <2> QED
    BY <2>1, <2>2
<1>5. \A p \in 1..N : nth(p) \in 1..N
  <2>1. \A p \in 1..N : \E i \in 1..N : rank(i) = p
    <3> HIDE DEF at, N
    <3> QED
      BY <1>1, <1>4, RanksFill
  <2> HIDE DEF rank
  <2> QED
    BY <2>1
<1>6. r = [p \in 1..N |-> [at |-> at[nth(p)], keys |-> body[nth(p)].keys]]
  <2> DEFINE when(i) == ResolveAt(body[i].claim, t)
             rankof(i) == Cardinality({j \in 1..N : when(j) < when(i) \/ (when(j) = when(i) /\ j <= i)})
             place(p) == CHOOSE i \in 1..N : rankof(i) = p
  <2>1. r = [p \in 1..N |-> [at |-> when(place(p)), keys |-> body[place(p)].keys]]
    BY <1>1 DEF ResolveBatch
  <2>2. \A i \in 1..N : at[i] = when(i)
    OBVIOUS
  <2>3. \A i \in 1..N : rank(i) = rankof(i)
    <3> SUFFICES ASSUME NEW i \in 1..N PROVE rank(i) = rankof(i)
      OBVIOUS
    <3> HIDE DEF at, when
    <3>1. {j \in 1..N : at[j] < at[i] \/ (at[j] = at[i] /\ j <= i)}
            = {j \in 1..N : when(j) < when(i) \/ (when(j) = when(i) /\ j <= i)}
      BY <2>2
    <3> QED
      BY <3>1
  <2>4. \A p : nth(p) = place(p)
    <3> HIDE DEF rank, rankof
    <3> QED
      BY <2>3
  <2> HIDE DEF at, nth, place, when
  <2> QED
    BY <1>5, <2>1, <2>2, <2>4
<1>7. ASSUME NEW p \in 1..N
      PROVE  r[p].at \in Times /\ \E i \in 1..N : r[p].keys = body[i].keys
  <2> HIDE DEF at, nth
  <2>1. r[p] = [at |-> at[nth(p)], keys |-> body[nth(p)].keys]
    BY <1>6
  <2> QED
    BY <1>3, <1>5, <2>1
<1> QED
  <2> HIDE DEF at, nth
  <2>1. r = [p \in 1..N |-> r[p]] /\ DOMAIN r = 1..N
    BY <1>6
  <2> QED
    BY <1>1, <1>7, <2>1

LEMMA EmptyStore == Empty \in Stores /\ DOMAIN Empty = {} /\ IsStore(Empty)
<1>1. DOMAIN Empty = {} /\ Empty \in [{} -> Entries]
  BY DEF Empty
<1> QED
  BY <1>1 DEF Stores, IsStore

\* What a report is named and enqueued as.
LEMMA NamedReport ==
  ASSUME NEW body \in Bodies, Acceptable(body), NEW t \in 0..MaxTime, NEW m \in Messages,
         NEW q, q = Named(m, ResolveBatch(body, t))
  PROVE  /\ q \in Seq(Readings) /\ DOMAIN q = 1..Len(q) /\ Len(q) \in 1..MaxReadings
         /\ Cardinality(KeysOf(q)) <= MaxKeys
         /\ Numbered(m, q) /\ \A i \in DOMAIN q : q[i].previous = Empty
<1> DEFINE N == Len(body)
           r == ResolveBatch(body, t)
<1>1. body \in Seq(Reports) /\ N \in 1..MaxReadings
  BY QueueAssumption DEF Acceptable
<1>2. /\ DOMAIN r = 1..N /\ N \in Nat
      /\ \A p \in 1..N : r[p].at \in Times /\ \E i \in 1..N : r[p].keys = body[i].keys
  <2> HIDE DEF r
  <2>1. r = ResolveBatch(body, t)
    BY DEF r
  <2> QED
    BY <1>1, <2>1, Resolved
<1> HIDE DEF r
<1>3. q = [i \in 1..N |-> [at |-> r[i].at, keys |-> r[i].keys, id |-> <<m, i>>, previous |-> Empty]]
  BY <1>2 DEF Named, r
<1>4. \A i \in 1..N : body[i].keys \subseteq Keys
  <2>1. DOMAIN body = 1..N
    BY <1>1, LenProperties
  <2>2. \A i \in 1..N : body[i] \in Reports
    BY <1>1, <2>1, Element
  <2> QED
    BY <2>2 DEF Reports
<1>5. \A i \in 1..N : q[i] \in Readings
  <2> SUFFICES ASSUME NEW i \in 1..N PROVE q[i] \in Readings
    OBVIOUS
  <2>1. r[i].at \in Times /\ r[i].keys \in SUBSET Keys
    BY <1>2, <1>4
  <2>2. <<m, i>> \in Messages \X (1..MaxReadings)
    BY <1>1, StoreAssumption
  <2>3. q[i] = [at |-> r[i].at, keys |-> r[i].keys, id |-> <<m, i>>, previous |-> Empty]
    BY <1>3
  <2> HIDE DEF N
  <2> QED
    BY <2>1, <2>2, <2>3, EmptyStore DEF Readings
<1>6. q \in Seq(Readings) /\ Len(q) = N /\ DOMAIN q = 1..N
  <2>1. q \in [1..N -> Readings]
    BY <1>3, <1>5
  <2> QED
    BY <1>2, <2>1, SeqOf
<1>7. Cardinality(KeysOf(q)) <= MaxKeys
  <2>1. KeysOf(q) \subseteq KeysOf(body)
    <3> SUFFICES ASSUME NEW k, NEW i \in 1..N, k \in q[i].keys PROVE k \in KeysOf(body)
      BY <1>6 DEF KeysOf
    <3>1. q[i].keys = r[i].keys
      BY <1>3
    <3>2. PICK j \in 1..N : r[i].keys = body[j].keys
      BY <1>2
    <3>3. DOMAIN body = 1..N
      BY <1>1, LenProperties
    <3> QED
      BY <3>1, <3>2, <3>3 DEF KeysOf
  <2>2. KeysOf(body) \subseteq Keys
    <3>1. DOMAIN body = 1..N
      BY <1>1, LenProperties
    <3> QED
      BY <1>4, <3>1 DEF KeysOf
  <2>3. IsFiniteSet(KeysOf(body))
    BY <2>2, StoreAssumption, FS_Subset
  <2>4. /\ IsFiniteSet(KeysOf(q)) /\ Cardinality(KeysOf(q)) <= Cardinality(KeysOf(body))
    BY <2>1, <2>3, FS_Subset
  <2>5. Cardinality(KeysOf(q)) \in Nat /\ Cardinality(KeysOf(body)) \in Nat
    BY <2>3, <2>4, FS_CardinalityType
  <2>6. Cardinality(KeysOf(body)) <= MaxKeys
    BY DEF Acceptable
  <2> QED
    BY <2>4, <2>5, <2>6, StoreAssumption
<1>8. Numbered(m, q) /\ \A i \in DOMAIN q : q[i].previous = Empty
  BY <1>3 DEF Numbered
<1> QED
  BY <1>1, <1>6, <1>7, <1>8

----------------------------------------------------------------------------
(* A store after a batch, and after the retired table. *)

LEMMA StoreFacts ==
  ASSUME NEW f \in Stores
  PROVE  /\ IsStore(f) /\ f = [k \in DOMAIN f |-> f[k]]
         /\ \A k \in DOMAIN f : f[k] \in Entries /\ f[k].at \in Int /\ f[k].at <= MaxTime
<1>1. PICK D \in SUBSET Keys : f \in [D -> Entries]
  BY DEF Stores
<1>2. DOMAIN f = D /\ f = [k \in DOMAIN f |-> f[k]] /\ \A k \in D : f[k] \in Entries
  BY <1>1
<1>3. \A k \in D : f[k].at \in Int /\ f[k].at <= MaxTime
  BY <1>2 DEF Entries, Past
<1> QED
  BY <1>2, <1>3 DEF IsStore

LEMMA StoreIs ==
  ASSUME NEW f, f = [k \in DOMAIN f |-> f[k]], DOMAIN f \subseteq Keys,
         \A k \in DOMAIN f : f[k] \in Entries
  PROVE  f \in Stores
<1> DEFINE D == DOMAIN f
<1>1. f \in [D -> Entries]
  <2> HIDE DEF D
  <2>1. f = [k \in D |-> f[k]] /\ \A k \in D : f[k] \in Entries
    BY DEF D
  <2> QED
    BY <2>1
<1>2. D \in SUBSET Keys
  OBVIOUS
<1> QED
  BY <1>1, <1>2 DEF Stores

LEMMA ReadingFacts ==
  ASSUME NEW r \in Readings
  PROVE  /\ r.at \in Times /\ r.at \in Int /\ r.at <= MaxTime /\ r.keys \subseteq Keys
         /\ r.id \in Messages \X (1..MaxReadings) /\ r.previous \in Stores
         /\ [from |-> r.id, at |-> r.at] \in Entries
<1>1. r.at \in Times /\ r.keys \subseteq Keys /\ r.id \in Messages \X (1..MaxReadings) /\ r.previous \in Stores
  BY DEF Readings
<1>2. r.at \in Int /\ r.at <= MaxTime
  BY <1>1, StoreAssumption, QueueAssumption DEF Times
<1> QED
  BY <1>1, <1>2 DEF Entries, Origins, Past

\* A merged batch: where each entry comes from, what it is no older than, and
\* what stood before each reading.
MergedStore(s, q, f) ==
  /\ f \in Stores /\ Cardinality(DOMAIN f) <= MaxKeys
  /\ KeysOf(q) \subseteq DOMAIN f
  /\ \A k \in DOMAIN f :
       /\ \/ k \in DOMAIN s /\ f[k] = s[k]
          \/ \E j \in DOMAIN q : Brings(q, j, k, f[k])
       /\ k \in DOMAIN s => f[k].at >= s[k].at
       /\ \A j \in DOMAIN q : k \in q[j].keys => f[k].at >= q[j].at

MergedReadings(s, q, p) ==
  /\ p \in Seq(Readings) /\ Len(p) = Len(q) /\ DOMAIN p = DOMAIN q
  /\ \A i \in DOMAIN q :
       /\ p[i].id = q[i].id /\ p[i].at = q[i].at /\ p[i].keys = q[i].keys
       /\ \A k \in DOMAIN p[i].previous :
            \/ k \in DOMAIN s /\ p[i].previous[k] = s[k]
            \/ \E j \in 1..(i - 1) : Brings(q, j, k, p[i].previous[k])

LEMMA BatchMerged ==
  ASSUME NEW s \in Stores, NEW q \in Seq(Readings), Cardinality(KeysOf(q)) <= MaxKeys
  PROVE  MergedStore(s, q, MergeBatch(s, q).store) /\ MergedReadings(s, q, MergeBatch(s, q).readings)
<1> DEFINE after == Merged(s, q)
           n == Len(q)
           f == after[n]
           e == EvictToCap(f, KeysOf(q))
           p == [i \in DOMAIN q |-> [q[i] EXCEPT !.previous = PreviousOf(after[i - 1], q[i])]]
<1>1. MergeBatch(s, q).store = e /\ MergeBatch(s, q).readings = p
  BY DEF MergeBatch
<1>2. n \in Nat /\ DOMAIN q = 1..n
  BY LenProperties
<1>3. \A j \in 1..n : q[j] \in Readings
  BY <1>2, Element
<1>4. \A i \in 0..n : Holds(s, q, i, after[i])
  <2>1. s = [k \in DOMAIN s |-> s[k]] /\ \A k \in DOMAIN s : s[k].at \in Int
    BY StoreFacts
  <2>2. \A j \in 1..n : q[j].at \in Int
    BY <1>3, ReadingFacts
  <2> QED
    BY <1>2, <2>1, <2>2, MergedHolds
<1>5. \A i \in 0..n : after[i] \in Stores
  <2> SUFFICES ASSUME NEW i \in 0..n PROVE after[i] \in Stores
    OBVIOUS
  <2> DEFINE g == after[i]
  <2>1. Holds(s, q, i, g) /\ 1..i \subseteq 1..n
    BY <1>2, <1>4
  <2> HIDE DEF after, g
  <2>2. DOMAIN g \subseteq Keys
    <3>1. DOMAIN s \subseteq Keys
      BY StoreFacts DEF IsStore
    <3>2. \A j \in 1..n : q[j].keys \subseteq Keys
      BY <1>3, ReadingFacts
    <3> QED
      BY <2>1, <3>1, <3>2 DEF Holds
  <2>3. \A k \in DOMAIN g : g[k] \in Entries
    <3> SUFFICES ASSUME NEW k \in DOMAIN g PROVE g[k] \in Entries
      OBVIOUS
    <3>1. CASE k \in DOMAIN s /\ g[k] = s[k]
      BY <3>1, StoreFacts
    <3>2. ASSUME NEW j \in 1..i, Brings(q, j, k, g[k]) PROVE g[k] \in Entries
      <4>1. q[j] \in Readings
        BY <1>3, <2>1
      <4> QED
        BY <3>2, <4>1, ReadingFacts DEF Brings
    <3> QED
      BY <2>1, <3>1, <3>2 DEF Holds
  <2>4. g \in Stores
    BY <2>1, <2>2, <2>3, StoreIs DEF Holds
  <2> QED
    BY <2>4 DEF g
<1>6. Holds(s, q, n, f) /\ f \in Stores
  <2>1. n \in 0..n
    BY <1>2
  <2> QED
    BY <1>4, <1>5, <2>1
<1>7. KeysOf(q) \subseteq Keys
  <2>1. \A j \in 1..n : q[j].keys \subseteq Keys
    BY <1>3, ReadingFacts
  <2> QED
    BY <1>2, <2>1 DEF KeysOf
<1> HIDE DEF after
<1>8. /\ DOMAIN e \subseteq DOMAIN f /\ e = [k \in DOMAIN e |-> f[k]]
      /\ \A k \in DOMAIN e : e[k] = f[k]
      /\ DOMAIN f \cap KeysOf(q) \subseteq DOMAIN e
      /\ Cardinality(DOMAIN e) <= MaxKeys
  <2>1. DOMAIN f \subseteq Keys /\ \A k \in DOMAIN f : f[k].at \in Int
    BY <1>6, StoreFacts DEF IsStore
  <2> HIDE DEF f, e
  <2>2. e = EvictToCap(f, KeysOf(q))
    BY DEF e
  <2> QED
    BY <1>7, <2>1, <2>2, Evicted
<1>9. MergedStore(s, q, e)
  <2> HIDE DEF e, f, n
  <2>1. e \in Stores
    <3>1. DOMAIN e \subseteq Keys /\ \A k \in DOMAIN e : e[k] \in Entries
      BY <1>6, <1>8, StoreFacts DEF IsStore
    <3>2. e = [k \in DOMAIN e |-> e[k]]
      BY <1>8
    <3> QED
      BY <3>1, <3>2, StoreIs
  <2>2. KeysOf(q) \subseteq DOMAIN e
    <3>1. KeysOf(q) \subseteq DOMAIN f
      BY <1>2, <1>6 DEF KeysOf, Holds
    <3> QED
      BY <1>8, <3>1
  <2>3. ASSUME NEW k \in DOMAIN e
        PROVE  /\ \/ k \in DOMAIN s /\ e[k] = s[k]
                  \/ \E j \in DOMAIN q : Brings(q, j, k, e[k])
               /\ k \in DOMAIN s => e[k].at >= s[k].at
               /\ \A j \in DOMAIN q : k \in q[j].keys => e[k].at >= q[j].at
    <3>1. k \in DOMAIN f /\ e[k] = f[k]
      BY <1>8
    <3> QED
      BY <1>2, <1>6, <3>1 DEF Holds
  <2> QED
    BY <1>8, <2>1, <2>2, <2>3 DEF MergedStore
<1>10. MergedReadings(s, q, p)
  <2>1. ASSUME NEW i \in 1..n
        PROVE  /\ p[i] \in Readings
               /\ p[i].id = q[i].id /\ p[i].at = q[i].at /\ p[i].keys = q[i].keys
               /\ \A k \in DOMAIN p[i].previous :
                    \/ k \in DOMAIN s /\ p[i].previous[k] = s[k]
                    \/ \E j \in 1..(i - 1) : Brings(q, j, k, p[i].previous[k])
    <3> DEFINE g == after[i - 1]
               b == PreviousOf(g, q[i])
    <3>1. i - 1 \in 0..n
      BY <1>2
    <3>2. g \in Stores /\ Holds(s, q, i - 1, g)
      BY <1>4, <1>5, <3>1
    <3>3. /\ DOMAIN b = DOMAIN g \cap q[i].keys /\ b = [k \in DOMAIN b |-> b[k]]
          /\ \A k \in DOMAIN b : b[k] = g[k]
      BY DEF PreviousOf
    <3>4. p[i] = [q[i] EXCEPT !.previous = b] /\ q[i] \in Readings
      BY <1>2, <1>3
    <3> HIDE DEF g, b, p, n
    <3>5. b \in Stores
      <4>1. DOMAIN g \subseteq Keys /\ \A k \in DOMAIN g : g[k] \in Entries
        BY <3>2, StoreFacts DEF IsStore
      <4>2. DOMAIN b \subseteq Keys /\ \A k \in DOMAIN b : b[k] \in Entries
        BY <3>3, <4>1
      <4> QED
        BY <3>3, <4>2, StoreIs
    <3>6. /\ p[i] \in Readings /\ p[i].id = q[i].id /\ p[i].at = q[i].at /\ p[i].keys = q[i].keys
          /\ p[i].previous = b
      BY <3>4, <3>5 DEF Readings
    <3> QED
      BY <3>2, <3>3, <3>6 DEF Holds
  <2>2. p \in Seq(Readings) /\ Len(p) = n /\ DOMAIN p = 1..n
    <3>1. p = [i \in 1..n |-> p[i]]
      BY <1>2
    <3> HIDE DEF p, n
    <3>2. p \in [1..n -> Readings]
      BY <2>1, <3>1
    <3> QED
      BY <1>2, <3>2, SeqOf
  <2> HIDE DEF p
  <2> QED
    BY <1>2, <2>1, <2>2 DEF MergedReadings
<1> QED
  <2> HIDE DEF e, p
  <2> QED
    BY <1>1, <1>9, <1>10

\* The retired table adds what is missing and takes nothing from what is there.
LEMMA RowsFolded ==
  ASSUME NEW s \in Stores, NEW f, f = FoldLegacyRows(s, Legacy)
  PROVE  /\ f \in Stores /\ Cardinality(DOMAIN f) <= MaxKeys
         /\ DOMAIN f \subseteq DOMAIN s \cup DOMAIN Legacy
         /\ \A k \in DOMAIN f : f[k] = IF k \in DOMAIN s THEN s[k] ELSE Legacy[k]
<1> DEFINE both == [k \in DOMAIN s \cup DOMAIN Legacy |-> IF k \in DOMAIN s THEN s[k] ELSE Legacy[k]]
<1>1. f = EvictToCap(both, {})
  BY DEF FoldLegacyRows
<1>2. /\ DOMAIN both = DOMAIN s \cup DOMAIN Legacy
      /\ \A k \in DOMAIN both : both[k] = IF k \in DOMAIN s THEN s[k] ELSE Legacy[k]
  OBVIOUS
<1>3. \A k \in DOMAIN Legacy : Legacy[k] \in Entries
  BY QueueAssumption DEF Entries, Origins, Past
<1> HIDE DEF both
<1>4. DOMAIN both \subseteq Keys /\ \A k \in DOMAIN both : both[k] \in Entries /\ both[k].at \in Int
  <2>1. DOMAIN s \subseteq Keys /\ \A k \in DOMAIN s : s[k] \in Entries
    BY StoreFacts DEF IsStore
  <2>2. DOMAIN both \subseteq Keys /\ \A k \in DOMAIN both : both[k] \in Entries
    BY <1>2, <1>3, <2>1, QueueAssumption
  <2> QED
    BY <2>2 DEF Entries, Past
<1>5. /\ DOMAIN f \subseteq DOMAIN both /\ f = [k \in DOMAIN f |-> both[k]]
      /\ \A k \in DOMAIN f : f[k] = both[k]
      /\ Cardinality(DOMAIN f) <= MaxKeys
  <2> DEFINE none == {}
  <2>1. none \subseteq Keys /\ Cardinality(none) <= MaxKeys
    BY FS_EmptySet, StoreAssumption
  <2>2. f = EvictToCap(both, none)
    BY <1>1
  <2> HIDE DEF none
  <2> QED
    BY <1>4, <2>1, <2>2, Evicted
<1>6. f \in Stores
  <2>1. f = [k \in DOMAIN f |-> f[k]]
    BY <1>5
  <2> QED
    BY <1>4, <1>5, <2>1, StoreIs
<1> QED
  BY <1>2, <1>5, <1>6

----------------------------------------------------------------------------
(* Steps. *)

LEMMA Nothing ==
  /\ <<>> \in Seq(Readings) /\ Len(<<>>) = 0 /\ DOMAIN <<>> = {} /\ KeysOf(<<>>) = {}
  /\ Cardinality(KeysOf(<<>>)) <= MaxKeys
  /\ NoMessage \in Deliveries /\ IdleConsumer \in Invocations
<1>1. <<>> \in Seq(Readings) /\ Len(<<>>) = 0 /\ DOMAIN <<>> = {}
  OBVIOUS
<1>2. KeysOf(<<>>) = {}
  BY DEF KeysOf
<1>3. Cardinality(KeysOf(<<>>)) <= MaxKeys
  BY <1>2, FS_EmptySet, StoreAssumption
<1>4. NoMessage \in Deliveries /\ IdleConsumer \in Invocations
  BY <1>1 DEF NoMessage, IdleConsumer, Deliveries, Invocations
<1> QED
  BY <1>1, <1>2, <1>3, <1>4

LEMMA InitIInv == Init => IInv
<1> SUFFICES ASSUME Init PROVE IInv
  OBVIOUS
<1> USE DEF Init
<1>1. TypeInv
  <2>1. /\ message \in [Messages -> Deliveries] /\ consumer \in [Consumers -> Invocations]
        /\ counted \in [Messages -> Nat] /\ stored \in [Messages -> Nat]
        /\ newest \in [Keys -> Past \cup {Never}]
    BY Nothing
  <2>2. store \in Stores /\ legacy \in {Empty, Legacy} /\ now \in 0..MaxTime
    BY EmptyStore, QueueAssumption
  <2> QED
    BY <2>1, <2>2 DEF TypeInv
<1>2. NewestIsOfStore
  BY EmptyStore, FS_EmptySet, StoreAssumption DEF NewestIsOfStore, StoreHoldsNewest
<1>3. DeliveriesOK
  <2>1. \A m \in Messages : /\ message[m].state = "none" /\ message[m].readings = <<>>
                            /\ ~message[m].merged
    BY DEF NoMessage
  <2>2. \A c \in Consumers : consumer[c].phase = "idle"
    BY DEF IdleConsumer
  <2>3. NothingRecorded /\ NoStepFromItself
    BY <2>2 DEF NothingRecorded, NoStepFromItself
  <2>4. RecordedOnce
    BY <2>1, Nothing DEF RecordedOnce
  <2>5. StepsOK
    BY <2>1, <2>2, EmptyStore, Nothing DEF StepsOK, OwnSteps, Recording
  <2>6. \A m \in Messages : ReadingsOK(m) /\ MergedOnce(m)
    BY <2>1, Nothing, StoreAssumption DEF ReadingsOK, MergedOnce, Numbered
  <2>7. \A c \in Consumers : OwnDelivery(c)
    BY <2>2 DEF OwnDelivery, Taking, Recording
  <2> QED
    BY <2>3, <2>4, <2>5, <2>6, <2>7 DEF DeliveriesOK
<1>4. StampsBehind /\ StampOnItsWay
  BY DEF StampsBehind, StampOnItsWay, NoMessage, IdleConsumer
<1> QED
  BY <1>1, <1>2, <1>3, <1>4 DEF IInv

\* What the variables' types say of a delivery and of an invocation.
LEMMA DeliveryFacts ==
  ASSUME TypeInv, NEW m \in Messages
  PROVE  /\ message[m] \in Deliveries
         /\ message[m].readings \in Seq(Readings) /\ Len(message[m].readings) \in Nat
         /\ DOMAIN message[m].readings = 1..Len(message[m].readings)
         /\ \A i \in DOMAIN message[m].readings : message[m].readings[i] \in Readings
<1>1. message[m] \in Deliveries /\ message[m].readings \in Seq(Readings)
  BY DEF TypeInv, Deliveries
<1> QED
  BY <1>1, LenProperties, Element

LEMMA InvocationFacts ==
  ASSUME TypeInv, NEW c \in Consumers
  PROVE  /\ consumer[c] \in Invocations
         /\ consumer[c].readings \in Seq(Readings) /\ Len(consumer[c].readings) \in Nat
         /\ DOMAIN consumer[c].readings = 1..Len(consumer[c].readings)
         /\ \A i \in DOMAIN consumer[c].readings : consumer[c].readings[i] \in Readings
<1>1. consumer[c] \in Invocations /\ consumer[c].readings \in Seq(Readings)
  BY DEF TypeInv, Invocations
<1> QED
  BY <1>1, LenProperties, Element

LEMMA LatestIs ==
  ASSUME NEW T, T \subseteq Int \cup {Never}, NEW x \in T, x \in Int,
         \A u \in T : u # Never => u <= x
  PROVE  LatestOf(T) = x
<1> DEFINE U == T \ {Never}
<1>1. x \in U /\ U \subseteq Int /\ \A u \in U : u <= x
  BY ConnectionAssumption
<1>2. ~(T \subseteq {Never})
  BY <1>1
<1> HIDE DEF U
<1>3. \A t \in U : (\A u \in U : u <= t) => t = x
  BY <1>1
<1>4. (CHOOSE t \in U : \A u \in U : u <= t) = x
  BY <1>1, <1>3
<1> QED
  BY <1>2, <1>4 DEF LatestOf, U

\* What merging a delivery does to the store, and to what is kept of it.
LEMMA MergeKeepsStore ==
  ASSUME IInv, NEW m \in Messages, NEW q \in Seq(Readings),
         Cardinality(KeysOf(q)) <= MaxKeys, Numbered(m, q), Merge(m, MergeBatch(store, q))
  PROVE  /\ store' \in Stores /\ newest' \in [Keys -> Past \cup {Never}] /\ NewestIsOfStore'
         /\ merged' = merged \cup {m} /\ legacy' = legacy
         /\ MergedStore(store, q, store') /\ MergedReadings(store, q, MergeBatch(store, q).readings)
         /\ \A k \in DOMAIN store' : store'[k].from # Never => store'[k].from[1] \in merged'
<1> DEFINE p == MergeBatch(store, q).readings
           f == MergeBatch(store, q).store
<1>1. MergedStore(store, q, f) /\ MergedReadings(store, q, p) /\ store \in Stores
  BY BatchMerged DEF IInv, TypeInv
<1>2. store' = f /\ newest' = NewestAfter(p, f) /\ merged' = merged \cup {m} /\ legacy' = legacy
  BY DEF Merge
<1> HIDE DEF p, f
<1>3. DOMAIN q = 1..Len(q) /\ \A j \in DOMAIN q : q[j] \in Readings
  BY LenProperties, Element
<1>4. /\ f \in Stores /\ DOMAIN f \subseteq Keys
      /\ \A k \in DOMAIN f : f[k] \in Entries /\ f[k].at \in Int /\ f[k].at <= MaxTime
  BY <1>1, StoreFacts DEF MergedStore, IsStore
<1>5. ASSUME NEW k \in DOMAIN f
      PROVE  newest'[k] = f[k].at
  <2> DEFINE brought == {p[i].at : i \in {j \in DOMAIN p : k \in p[j].keys}}
             T == {newest[k]} \cup brought
  <2>1. newest'[k] = LatestOf(T)
    BY <1>2, <1>4, <1>5 DEF NewestAfter
  <2>2. brought = {q[i].at : i \in {j \in DOMAIN q : k \in q[j].keys}}
    <3>1. DOMAIN p = DOMAIN q /\ \A i \in DOMAIN q : p[i].at = q[i].at /\ p[i].keys = q[i].keys
      BY <1>1 DEF MergedReadings
    <3> QED
      BY <3>1
  <2>3. newest[k] = IF k \in DOMAIN store THEN store[k].at ELSE Never
    BY <1>4, <1>5 DEF IInv, NewestIsOfStore, StoreHoldsNewest
  <2>4. \A j \in DOMAIN q : q[j].at \in Int
    BY <1>3, ReadingFacts
  <2>5. k \in DOMAIN store => store[k].at \in Int
    BY <1>1, StoreFacts
  <2>6. T \subseteq Int \cup {Never}
    BY <2>2, <2>3, <2>4, <2>5
  <2>7. f[k].at \in T
    <3>1. CASE k \in DOMAIN store /\ f[k] = store[k]
      BY <2>3, <3>1
    <3>2. ASSUME NEW j \in DOMAIN q, Brings(q, j, k, f[k]) PROVE f[k].at \in T
      <4>1. k \in q[j].keys /\ f[k].at = q[j].at
        BY <3>2 DEF Brings
      <4>2. q[j].at \in {q[i].at : i \in {x \in DOMAIN q : k \in q[x].keys}}
        BY <4>1
      <4> HIDE DEF brought
      <4> QED
        BY <2>2, <4>1, <4>2
    <3> QED
      BY <1>1, <1>5, <3>1, <3>2 DEF MergedStore
  <2>8. \A u \in T : u # Never => u <= f[k].at
    <3>1. \A j \in DOMAIN q : k \in q[j].keys => q[j].at <= f[k].at
      BY <1>1, <1>4, <1>5, <2>4 DEF MergedStore
    <3>2. k \in DOMAIN store => store[k].at <= f[k].at
      BY <1>1, <1>4, <1>5, <2>5 DEF MergedStore
    <3> QED
      BY <2>2, <2>3, <3>1, <3>2
  <2> HIDE DEF T
  <2> QED
    BY <1>4, <2>1, <2>6, <2>7, <2>8, LatestIs
<1>6. \A k \in Keys : k \notin DOMAIN f => newest'[k] = Never
  BY <1>2 DEF NewestAfter
<1>7. newest' \in [Keys -> Past \cup {Never}]
  <2>1. newest' = [k \in Keys |-> newest'[k]]
    BY <1>2 DEF NewestAfter
  <2>2. \A k \in Keys : newest'[k] \in Past \cup {Never}
    BY <1>4, <1>5, <1>6 DEF Past
  <2> QED
    BY <2>1, <2>2
<1>8. NewestIsOfStore'
  BY <1>1, <1>2, <1>5, <1>6 DEF NewestIsOfStore, StoreHoldsNewest, MergedStore
<1>9. \A k \in DOMAIN f : f[k].from # Never => f[k].from[1] \in merged'
  <2> SUFFICES ASSUME NEW k \in DOMAIN f, f[k].from # Never PROVE f[k].from[1] \in merged'
    OBVIOUS
  <2>1. CASE k \in DOMAIN store /\ f[k] = store[k]
    BY <1>2, <2>1 DEF IInv, DeliveriesOK, StepsOK
  <2>2. ASSUME NEW j \in DOMAIN q, Brings(q, j, k, f[k]) PROVE f[k].from[1] \in merged'
    BY <1>2, <2>2 DEF Brings, Numbered
  <2> QED
    BY <1>1, <2>1, <2>2 DEF MergedStore
<1> QED
  BY <1>1, <1>2, <1>4, <1>7, <1>8, <1>9 DEF p

\* A step that touches no delivery and no invocation.
LEMMA DeliveriesRest ==
  ASSUME IInv, UNCHANGED <<message, consumer, repeated, merged, record_vars>>,
         \A k \in DOMAIN store' : store'[k].from # Never => store'[k].from[1] \in merged
  PROVE  DeliveriesOK'
<1> USE DEF IInv, DeliveriesOK, record_vars
<1>1. NothingRecorded' /\ RecordedOnce' /\ NoStepFromItself'
  BY DEF NothingRecorded, RecordedOnce, NoStepFromItself, Of
<1>2. StepsOK'
  BY DEF StepsOK, OwnSteps, Recording, Of
<1>3. \A m \in Messages : ReadingsOK(m)' /\ MergedOnce(m)'
  BY DEF ReadingsOK, MergedOnce
<1>4. \A c \in Consumers : OwnDelivery(c)'
  BY DEF OwnDelivery, Taking, Recording, Of
<1> QED
  BY <1>1, <1>2, <1>3, <1>4

LEMMA Clock ==
  ASSUME TypeInv
  PROVE  /\ now \in Nat /\ now # Never /\ now \in Times /\ Never \notin Times
         /\ Times \subseteq Int /\ stamps \subseteq Int
         /\ seen # Never => seen \in Int /\ seen \in Times
         /\ contact # Never => contact \in Int
         /\ lastSeen # Never => lastSeen \in Int
         /\ \A m \in Messages : message[m].seen \in Times \cup {Never}
<1>1. Times \subseteq Int /\ now \in Nat /\ now \in Times
  BY StoreAssumption, QueueAssumption DEF TypeInv, Times
<1>2. \A m \in Messages : message[m].seen \in Times \cup {Never}
  BY DEF TypeInv, Deliveries
<1> QED
  BY <1>1, <1>2, ConnectionAssumption DEF TypeInv

\* A contact, whether or not it wrote a stamp.
LEMMA SeenNoted ==
  ASSUME IInv, NoteSeen
  PROVE  /\ contact' = now /\ seen' \in Times /\ 0 <= seen' /\ seen' <= now /\ now - seen' <= StampHold
         /\ seen # Never => seen <= seen'
         /\ StampDue(seen, now) => seen' = now /\ StampNoted = now
         /\ ~StampDue(seen, now) => seen' = seen /\ seen # Never /\ StampNoted = Never
<1>1. now \in Nat /\ now \in Times /\ (seen # Never => seen \in Int /\ seen \in Times) /\ StampHold \in Nat
  BY Clock, ConnectionAssumption DEF IInv
<1>2. contact' = now /\ seen' = IF StampDue(seen, now) THEN now ELSE seen
  BY DEF NoteSeen
<1>3. seen # Never => /\ contact # Never /\ 0 <= seen /\ seen <= contact /\ contact <= now
                      /\ contact \in Int
  BY Clock DEF IInv, StampsBehind
<1> QED
  BY <1>1, <1>2, <1>3 DEF StampDue, StampNoted

\* Whatever stamp a contact puts on its way is the object's, and ahead of all.
LEMMA NotedBehind ==
  ASSUME IInv, NoteSeen, now' = now, lastSeen' = lastSeen, stamps' \subseteq stamps \cup {seen'},
         \A m \in Messages : message'[m].seen \in {message[m].seen, seen', Never}
  PROVE  StampsBehind'
<1>1. /\ contact' = now /\ seen' \in Times /\ 0 <= seen' /\ seen' <= now /\ now - seen' <= StampHold
      /\ seen # Never => seen <= seen'
  BY SeenNoted
<1>2. /\ now \in Nat /\ now # Never /\ Never \notin Times
      /\ Times \subseteq Int /\ stamps \subseteq Int
      /\ seen # Never => seen \in Int
      /\ lastSeen # Never => lastSeen \in Int
      /\ \A m \in Messages : message[m].seen \in Times \cup {Never}
  BY Clock DEF IInv
<1>3. seen' # Never /\ seen' \in Int
  BY <1>1, <1>2
<1>4. \A u \in Int : seen # Never /\ u <= seen => u <= seen'
  BY <1>1, <1>2, <1>3
<1>5. \A at \in stamps' : at <= seen'
  BY <1>2, <1>3, <1>4 DEF IInv, StampsBehind
<1>6. \A m \in Messages : message'[m].seen # Never => message'[m].seen <= seen'
  <2> SUFFICES ASSUME NEW m \in Messages, message'[m].seen # Never PROVE message'[m].seen <= seen'
    OBVIOUS
  <2>1. CASE message'[m].seen = message[m].seen
    BY <1>2, <1>4, <2>1 DEF IInv, StampsBehind
  <2>2. CASE message'[m].seen = seen'
    BY <1>3, <2>2
  <2> QED
    BY <2>1, <2>2
<1>7. lastSeen # Never => lastSeen <= seen'
  BY <1>2, <1>4 DEF IInv, StampsBehind
<1> QED
  BY <1>1, <1>2, <1>3, <1>5, <1>6, <1>7 DEF StampsBehind

LEMMA TickKeeps == ASSUME IInv, Tick PROVE IInv'
<1> USE DEF Tick, store_vars, record_vars, contact_vars
<1>1. now \in Nat /\ (contact # Never => contact \in Int)
  BY Clock DEF IInv
<1>2. TypeInv' /\ NewestIsOfStore'
  BY <1>1, QueueAssumption DEF IInv, TypeInv, NewestIsOfStore, StoreHoldsNewest
<1>3. DeliveriesOK'
  <2>1. \A k \in DOMAIN store' : store'[k].from # Never => store'[k].from[1] \in merged
    BY DEF IInv, DeliveriesOK, StepsOK
  <2> QED
    BY <2>1, DeliveriesRest
<1>4. StampsBehind' /\ StampOnItsWay'
  BY <1>1 DEF IInv, StampsBehind, StampOnItsWay, Carries, Of
<1> QED
  BY <1>2, <1>3, <1>4 DEF IInv

LEMMA MigrateKeeps ==
  ASSUME IInv, NEW dropped \in BOOLEAN, Migrate(dropped)
  PROVE  IInv' /\ \A k \in DOMAIN store \cap DOMAIN store' : store'[k].at >= store[k].at
<1> USE DEF record_vars, contact_vars
<1>1. /\ store' = FoldLegacyRows(store, legacy) /\ legacy' \in {Empty, Legacy}
      /\ newest' = [k \in Keys |-> IF k \notin DOMAIN store' THEN Never
                                   ELSE IF k \in DOMAIN store THEN newest[k] ELSE legacy[k].at]
      /\ legacy = Legacy
      /\ UNCHANGED <<now, message, consumer, merged, repeated, record_vars, contact_vars>>
  BY DEF Migrate, IInv, TypeInv
<1>2. store \in Stores
  BY DEF IInv, TypeInv
<1>3. /\ store' \in Stores /\ Cardinality(DOMAIN store') <= MaxKeys
      /\ DOMAIN store' \subseteq DOMAIN store \cup DOMAIN Legacy
      /\ \A k \in DOMAIN store' : store'[k] = IF k \in DOMAIN store THEN store[k] ELSE Legacy[k]
  BY <1>1, <1>2, RowsFolded
<1>4. \A k \in DOMAIN Legacy : Legacy[k].from = Never /\ Legacy[k].at \in Past
  BY QueueAssumption DEF Past
<1>5. newest' \in [Keys -> Past \cup {Never}]
  <2>1. \A k \in Keys : newest'[k] \in Past \cup {Never}
    BY <1>1, <1>3, <1>4 DEF IInv, TypeInv
  <2>2. newest' = [k \in Keys |-> newest'[k]]
    BY <1>1
  <2> QED
    BY <2>1, <2>2
<1>6. TypeInv'
  BY <1>1, <1>3, <1>5 DEF IInv, TypeInv
<1>7. NewestIsOfStore'
  <2>1. \A k \in Keys : k \notin DOMAIN store' => newest'[k] = Never
    BY <1>1
  <2>2. DOMAIN store' \subseteq Keys
    BY <1>3, StoreFacts DEF IsStore
  <2>3. \A k \in DOMAIN store' : store'[k].at = newest'[k]
    BY <1>1, <1>3, <2>2 DEF IInv, NewestIsOfStore, StoreHoldsNewest
  <2> QED
    BY <1>3, <2>1, <2>3 DEF NewestIsOfStore, StoreHoldsNewest
<1>8. DeliveriesOK'
  <2>1. \A k \in DOMAIN store' : store'[k].from # Never => store'[k].from[1] \in merged
    BY <1>3, <1>4 DEF IInv, DeliveriesOK, StepsOK
  <2> QED
    BY <1>1, <2>1, DeliveriesRest
<1>9. StampsBehind' /\ StampOnItsWay'
  BY <1>1 DEF IInv, StampsBehind, StampOnItsWay, Carries, Of
<1>10. \A k \in DOMAIN store \cap DOMAIN store' : store'[k].at >= store[k].at
  BY <1>2, <1>3, StoreFacts
<1> QED
  BY <1>6, <1>7, <1>8, <1>9, <1>10 DEF IInv

LEMMA ContactHttpKeeps == ASSUME IInv, ContactHttp PROVE IInv'
<1> USE DEF store_vars, record_vars
<1>1. /\ NoteSeen
      /\ stamps' = IF StampDue(seen, now) THEN stamps \cup {now} ELSE stamps
      /\ UNCHANGED <<now, message, consumer, repeated, lastSeen, stampLost, store_vars, record_vars>>
  BY DEF ContactHttp
<1>2. /\ contact' = now /\ seen' \in Times /\ 0 <= seen' /\ seen' <= now /\ now - seen' <= StampHold
      /\ seen # Never => seen <= seen'
      /\ StampDue(seen, now) => seen' = now
      /\ ~StampDue(seen, now) => seen' = seen /\ seen # Never
  BY <1>1, SeenNoted
<1>3. /\ now \in Nat /\ now # Never /\ now \in Times /\ Never \notin Times
      /\ Times \subseteq Int /\ stamps \subseteq Int
      /\ seen # Never => seen \in Int /\ seen \in Times
      /\ lastSeen # Never => lastSeen \in Int
      /\ \A m \in Messages : message[m].seen \in Times \cup {Never}
  BY Clock DEF IInv
<1>4. TypeInv'
  BY <1>1, <1>2, <1>3 DEF IInv, TypeInv
<1>5. NewestIsOfStore'
  BY <1>1 DEF IInv, NewestIsOfStore, StoreHoldsNewest
<1>6. DeliveriesOK'
  <2>1. \A k \in DOMAIN store' : store'[k].from # Never => store'[k].from[1] \in merged
    BY <1>1 DEF IInv, DeliveriesOK, StepsOK
  <2> QED
    BY <1>1, <2>1, DeliveriesRest
<1>7. StampsBehind'
  BY <1>1, <1>2, NotedBehind
<1>8. StampOnItsWay'
  BY <1>1, <1>2, <1>3 DEF IInv, StampOnItsWay, Carries, Of
<1> QED
  BY <1>4, <1>5, <1>6, <1>7, <1>8 DEF IInv

\* What a write of a stamp leaves on the mirror.
LEMMA StampedFacts ==
  ASSUME NEW last, last # Never => last \in Int, NEW at \in Int
  PROVE  /\ Stamped(last, at) \in {last, at} /\ Stamped(last, at) \in Int /\ Stamped(last, at) # Never
         /\ Stamped(last, at) >= at
         /\ last # Never => Stamped(last, at) >= last
BY ConnectionAssumption DEF Stamped

LEMMA StampArrivesKeeps ==
  ASSUME IInv, NEW at \in stamps, StampArrives(at)
  PROVE  IInv'
<1> USE DEF store_vars, record_vars
<1>1. PICK lands \in BOOLEAN :
        /\ lastSeen' = IF lands THEN Stamped(lastSeen, at) ELSE lastSeen
        /\ stampLost' = (stampLost \/ ~lands)
  BY DEF StampArrives
<1>2. /\ stamps' = stamps \ {at}
      /\ UNCHANGED <<now, message, consumer, repeated, seen, contact, store_vars, record_vars>>
  BY DEF StampArrives
<1>3. /\ now \in Nat /\ Never \notin Times
      /\ Times \subseteq Int /\ at \in Int /\ at \in Times /\ at # Never
      /\ seen # Never => seen \in Int
      /\ lastSeen # Never => lastSeen \in Int
      /\ \A m \in Messages : message[m].seen \in Times \cup {Never}
  BY Clock DEF IInv, TypeInv
<1>4. /\ Stamped(lastSeen, at) \in {lastSeen, at} /\ Stamped(lastSeen, at) \in Int
      /\ Stamped(lastSeen, at) # Never /\ Stamped(lastSeen, at) >= at
      /\ lastSeen # Never => Stamped(lastSeen, at) >= lastSeen
  BY <1>3, StampedFacts
<1>5. TypeInv'
  <2>1. lastSeen' \in Times \cup {Never} /\ stampLost' \in BOOLEAN /\ stamps' \subseteq Times
    BY <1>1, <1>2, <1>3, <1>4 DEF IInv, TypeInv
  <2> QED
    BY <1>2, <2>1 DEF IInv, TypeInv
<1>6. NewestIsOfStore'
  BY <1>2 DEF IInv, NewestIsOfStore, StoreHoldsNewest
<1>7. DeliveriesOK'
  <2>1. \A k \in DOMAIN store' : store'[k].from # Never => store'[k].from[1] \in merged
    BY <1>2 DEF IInv, DeliveriesOK, StepsOK
  <2> QED
    BY <1>2, <2>1, DeliveriesRest
<1>8. StampsBehind'
  BY <1>1, <1>2, <1>3, <1>4 DEF IInv, StampsBehind
<1>9. StampOnItsWay'
  <2> SUFFICES ASSUME ~stampLost' PROVE StampOnItsWay'
    BY DEF StampOnItsWay
  <2>1. lands /\ ~stampLost /\ lastSeen' = Stamped(lastSeen, at)
    BY <1>1
  <2>2. lastSeen' = seen' \/ seen' \in stamps' \/ \E m \in Messages : Carries(m)'
    <3>1. CASE at = seen \/ lastSeen = seen
      <4>1. lastSeen' <= seen /\ lastSeen' >= seen /\ seen \in Int
        BY <1>2, <1>3, <1>4, <1>8, <2>1, <3>1 DEF StampsBehind, IInv
      <4> QED
        BY <1>2, <1>4, <2>1, <4>1
    <3>2. CASE at # seen /\ lastSeen # seen
      BY <1>2, <2>1, <3>2 DEF IInv, StampOnItsWay, Carries
    <3> QED
      BY <3>1, <3>2
  <2>3. \A c \in Consumers :
          consumer'[c].phase = "dispatch" /\ message'[Of(c)'].seen # Never =>
            lastSeen' # Never /\ lastSeen' >= message'[Of(c)'].seen
    <3> SUFFICES ASSUME NEW c \in Consumers, consumer[c].phase = "dispatch", message[Of(c)].seen # Never
                 PROVE  lastSeen' # Never /\ lastSeen' >= message[Of(c)].seen
      BY <1>2 DEF Of
    <3>1. Of(c) \in Messages /\ lastSeen # Never /\ lastSeen >= message[Of(c)].seen
      BY <2>1 DEF IInv, DeliveriesOK, OwnDelivery, StampOnItsWay
    <3>2. message[Of(c)].seen \in Int
      BY <1>3, <3>1
    <3> QED
      BY <1>3, <1>4, <2>1, <3>1, <3>2
  <2> QED
    BY <2>2, <2>3 DEF StampOnItsWay
<1> QED
  BY <1>5, <1>6, <1>7, <1>8, <1>9 DEF IInv

\* A delivery that enters the queue, or is lost on its way there.
LEMMA EntersQueue ==
  ASSUME IInv, NEW m \in Messages, message[m].state = "none",
         NEW v \in Deliveries, v.state \in {"lost", "queued"},
         message' = [message EXCEPT ![m] = v],
         UNCHANGED <<consumer, repeated, record_vars>>,
         merged' \in {merged, merged \cup {m}},
         \A k \in DOMAIN store' : store'[k].from # Never => store'[k].from[1] \in merged',
         Len(v.readings) <= MaxReadings, Cardinality(KeysOf(v.readings)) <= MaxKeys,
         Numbered(m, v.readings), \A i \in DOMAIN v.readings : OwnStep(v.readings[i]),
         v.merged => m \in merged',
         v.readings # <<>> /\ ~v.merged => merged' = merged
  PROVE  message' \in [Messages -> Deliveries] /\ DeliveriesOK'
<1> USE DEF record_vars
<1>1. /\ message' \in [Messages -> Deliveries] /\ message'[m] = v
      /\ \A n \in Messages : n # m => message'[n] = message[n]
  BY DEF IInv, TypeInv
<1>2. counted[m] = 0 /\ stored[m] = 0 /\ m \notin merged
  BY DEF IInv, DeliveriesOK, NothingRecorded, MergedOnce
<1>3. \A c \in Consumers : consumer[c].phase # "idle" => Of(c) \in Messages /\ Of(c) # m
  BY DEF IInv, TypeInv, Invocations, DeliveriesOK, OwnDelivery, Taking, Recording
<1>4. NothingRecorded'
  BY <1>1, <1>2 DEF IInv, DeliveriesOK, NothingRecorded, Of
<1>5. RecordedOnce'
  <2>1. Len(v.readings) \in Nat
    BY LenProperties DEF Deliveries
  <2> QED
    BY <1>1, <1>2, <2>1 DEF IInv, DeliveriesOK, RecordedOnce
<1>6. StepsOK'
  <2>1. \A n \in Messages : OwnSteps(n, message[n].readings)'
    BY <1>1 DEF IInv, DeliveriesOK, StepsOK, OwnSteps
  <2>2. \A c \in Consumers : Recording(c)' => OwnSteps(Of(c), consumer[c].readings)'
    BY DEF IInv, DeliveriesOK, StepsOK, OwnSteps, Recording, Of
  <2> QED
    BY <2>1, <2>2 DEF StepsOK
<1>7. NoStepFromItself'
  BY DEF IInv, DeliveriesOK, NoStepFromItself
<1>8. \A n \in Messages : ReadingsOK(n)'
  BY <1>1 DEF IInv, DeliveriesOK, ReadingsOK
<1>9. \A n \in Messages : MergedOnce(n)'
  BY <1>1, <1>2 DEF IInv, DeliveriesOK, MergedOnce
<1>10. \A c \in Consumers : OwnDelivery(c)'
  <2> SUFFICES ASSUME NEW c \in Consumers PROVE OwnDelivery(c)'
    OBVIOUS
  <2>1. CASE consumer[c].phase = "idle"
    BY <2>1 DEF OwnDelivery, Taking, Recording
  <2>2. CASE consumer[c].phase # "idle"
    <3>1. message'[Of(c)] = message[Of(c)] /\ OwnDelivery(c)
      BY <1>1, <1>3, <2>2 DEF IInv, DeliveriesOK
    <3> QED
      BY <3>1 DEF OwnDelivery, Taking, Recording, Of
  <2> QED
    BY <2>1, <2>2
<1> QED
  BY <1>1, <1>4, <1>5, <1>6, <1>7, <1>8, <1>9, <1>10 DEF DeliveriesOK

\* A contact's stamp goes to the mirror by itself or with the delivery, or is lost.
LEMMA EntersOnTime ==
  ASSUME IInv, NoteSeen, NEW m \in Messages, message[m].state = "none",
         NEW v \in Deliveries, message' = [message EXCEPT ![m] = v], v.seen \in {Never, seen'},
         now' = now, lastSeen' = lastSeen, consumer' = consumer,
         stamps \subseteq stamps', stamps' \subseteq stamps \cup {seen'},
         stampLost => stampLost',
         StampDue(seen, now) =>
           \/ seen' \in stamps' \/ stampLost'
           \/ v.seen = seen' /\ v.state = "queued"
  PROVE  StampsBehind' /\ StampOnItsWay'
<1>1. /\ message'[m] = v
      /\ \A n \in Messages : n # m => message'[n] = message[n]
  BY DEF IInv, TypeInv
<1>2. ~StampDue(seen, now) => seen' = seen
  BY SeenNoted
<1>3. StampsBehind'
  BY <1>1, NotedBehind
<1>4. \A n \in Messages : Carries(n) => n # m
  BY DEF Carries
<1>5. StampOnItsWay'
  <2> SUFFICES ASSUME ~stampLost' PROVE StampOnItsWay'
    BY DEF StampOnItsWay
  <2>1. lastSeen' = seen' \/ seen' \in stamps' \/ \E n \in Messages : Carries(n)'
    <3>1. CASE StampDue(seen, now)
      BY <1>1, <3>1 DEF Carries
    <3>2. CASE ~StampDue(seen, now)
      BY <1>1, <1>2, <1>4, <3>2 DEF IInv, StampOnItsWay, Carries
    <3> QED
      BY <3>1, <3>2
  <2>2. \A c \in Consumers :
          consumer'[c].phase = "dispatch" /\ message'[Of(c)'].seen # Never =>
            lastSeen' # Never /\ lastSeen' >= message'[Of(c)'].seen
    <3> SUFFICES ASSUME NEW c \in Consumers, consumer[c].phase = "dispatch", message'[Of(c)].seen # Never
                 PROVE  lastSeen # Never /\ lastSeen >= message'[Of(c)].seen
      BY DEF Of
    <3>1. Of(c) \in Messages /\ Of(c) # m
      BY DEF IInv, DeliveriesOK, OwnDelivery, Taking
    <3> QED
      BY <1>1, <3>1 DEF IInv, StampOnItsWay
  <2> QED
    BY <2>1, <2>2 DEF StampOnItsWay
<1> QED
  BY <1>3, <1>5

LEMMA ReportHttpKeeps ==
  ASSUME IInv, NEW m \in Messages, NEW body \in Bodies, ReportHttp(m, body)
  PROVE  IInv'
<1> USE DEF store_vars
<1> DEFINE q == Named(m, ResolveBatch(body, now))
           lost == [NoMessage EXCEPT !.state = "lost"]
           queued == [NoMessage EXCEPT !.state = "queued", !.readings = q]
<1>1. PICK enqueued \in BOOLEAN :
        message' = [message EXCEPT ![m] = IF ~enqueued THEN lost ELSE queued]
  BY DEF ReportHttp
<1> DEFINE v == IF ~enqueued THEN lost ELSE queued
<1>2. /\ message[m].state = "none" /\ Acceptable(body) /\ NoteSeen
      /\ stamps' = IF StampDue(seen, now) THEN stamps \cup {now} ELSE stamps
      /\ UNCHANGED <<now, consumer, repeated, lastSeen, stampLost, store_vars, record_vars>>
  BY DEF ReportHttp
<1>3. now \in 0..MaxTime /\ now \in Times
  BY Clock DEF IInv, TypeInv
<1>4. /\ q \in Seq(Readings) /\ Len(q) <= MaxReadings /\ Cardinality(KeysOf(q)) <= MaxKeys
      /\ Numbered(m, q) /\ \A i \in DOMAIN q : q[i].previous = Empty
  <2> HIDE DEF q
  <2>1. q = Named(m, ResolveBatch(body, now))
    BY DEF q
  <2> QED
    BY <1>2, <1>3, <2>1, NamedReport, StoreAssumption
<1> HIDE DEF q
<1>5. /\ v \in Deliveries /\ v.state \in {"lost", "queued"} /\ v.seen = Never
      /\ v.readings \in {<<>>, q} /\ ~v.merged
  BY <1>4, Nothing DEF NoMessage, Deliveries
<1>6. \A i \in DOMAIN q : OwnStep(q[i])
  BY <1>4, EmptyStore DEF OwnStep
<1> HIDE DEF v
<1>7. /\ Len(v.readings) <= MaxReadings /\ Cardinality(KeysOf(v.readings)) <= MaxKeys
      /\ Numbered(m, v.readings) /\ \A i \in DOMAIN v.readings : OwnStep(v.readings[i])
  BY <1>4, <1>5, <1>6, Nothing, StoreAssumption DEF Numbered
<1>8. message' \in [Messages -> Deliveries] /\ DeliveriesOK'
  <2>1. \A k \in DOMAIN store' : store'[k].from # Never => store'[k].from[1] \in merged'
    BY <1>2 DEF IInv, DeliveriesOK, StepsOK
  <2>2. message' = [message EXCEPT ![m] = v] /\ merged' = merged
    BY <1>1, <1>2 DEF v
  <2> QED
    BY <1>2, <1>5, <1>7, <2>1, <2>2, EntersQueue
<1>9. /\ seen' \in Times /\ contact' = now
      /\ StampDue(seen, now) => seen' = now
  BY <1>2, SeenNoted
<1>10. StampsBehind' /\ StampOnItsWay'
  <2>1. message' = [message EXCEPT ![m] = v]
    BY <1>1 DEF v
  <2>2. stamps \subseteq stamps' /\ stamps' \subseteq stamps \cup {seen'}
        /\ (StampDue(seen, now) => seen' \in stamps')
    BY <1>2, <1>9
  <2> QED
    BY <1>2, <1>5, <2>1, <2>2, EntersOnTime
<1>11. TypeInv'
  BY <1>2, <1>3, <1>8, <1>9 DEF IInv, TypeInv, record_vars
<1>12. NewestIsOfStore'
  BY <1>2 DEF IInv, NewestIsOfStore, StoreHoldsNewest
<1> QED
  BY <1>8, <1>10, <1>11, <1>12 DEF IInv

LEMMA ContactObjectKeeps ==
  ASSUME IInv, NEW m \in Messages, ContactObject(m)
  PROVE  IInv'
<1> USE DEF store_vars
<1> DEFINE v == [NoMessage EXCEPT !.state = "queued", !.seen = now]
<1>1. /\ message[m].state = "none" /\ StampDue(seen, now) /\ NoteSeen
      /\ message' = [message EXCEPT ![m] = v]
      /\ UNCHANGED <<now, consumer, repeated, stamps, lastSeen, stampLost, store_vars, record_vars>>
  BY DEF ContactObject
<1>2. now \in Times
  BY Clock DEF IInv
<1>3. seen' = now /\ contact' = now
  BY <1>1, SeenNoted
<1>4. /\ v \in Deliveries /\ v.state = "queued" /\ v.seen = seen'
      /\ v.readings = <<>> /\ ~v.merged
  BY <1>2, <1>3, Nothing DEF NoMessage, Deliveries
<1> HIDE DEF v
<1>5. /\ Len(v.readings) <= MaxReadings /\ Cardinality(KeysOf(v.readings)) <= MaxKeys
      /\ Numbered(m, v.readings) /\ \A i \in DOMAIN v.readings : OwnStep(v.readings[i])
  BY <1>4, Nothing, StoreAssumption DEF Numbered
<1>6. message' \in [Messages -> Deliveries] /\ DeliveriesOK'
  <2>1. \A k \in DOMAIN store' : store'[k].from # Never => store'[k].from[1] \in merged'
    BY <1>1 DEF IInv, DeliveriesOK, StepsOK
  <2> QED
    BY <1>1, <1>4, <1>5, <2>1, EntersQueue
<1>7. StampsBehind' /\ StampOnItsWay'
  BY <1>1, <1>4, EntersOnTime
<1>8. TypeInv'
  BY <1>1, <1>2, <1>3, <1>6 DEF IInv, TypeInv, record_vars
<1>9. NewestIsOfStore'
  BY <1>1 DEF IInv, NewestIsOfStore, StoreHoldsNewest
<1> QED
  BY <1>6, <1>7, <1>8, <1>9 DEF IInv

\* A merge by a delivery that was never merged finds nothing of it in the store.
LEMMA MergedSteps ==
  ASSUME IInv, NEW m \in Messages, m \notin merged, NEW q \in Seq(Readings), Numbered(m, q),
         NEW p, MergedReadings(store, q, p)
  PROVE  \A i \in DOMAIN p : OwnStep(p[i])
<1> SUFFICES ASSUME NEW i \in DOMAIN p, NEW k \in DOMAIN p[i].previous,
                    p[i].previous[k].from # Never, p[i].previous[k].from[1] = p[i].id[1]
             PROVE  p[i].previous[k].from[2] < p[i].id[2]
  BY DEF OwnStep
<1>1. i \in DOMAIN q /\ DOMAIN q = 1..Len(q) /\ Len(q) \in Nat /\ p[i].id = <<m, i>>
  BY LenProperties DEF MergedReadings, Numbered
<1>2. CASE k \in DOMAIN store /\ p[i].previous[k] = store[k]
  BY <1>1, <1>2 DEF IInv, DeliveriesOK, StepsOK
<1>3. ASSUME NEW j \in 1..(i - 1), Brings(q, j, k, p[i].previous[k])
      PROVE  p[i].previous[k].from[2] < p[i].id[2]
  <2>1. j \in DOMAIN q /\ q[j].id = <<m, j>> /\ j < i
    BY <1>1 DEF Numbered
  <2> QED
    BY <1>1, <1>3, <2>1 DEF Brings
<1> QED
  BY <1>1, <1>2, <1>3 DEF MergedReadings

LEMMA NumberedBatch ==
  ASSUME NEW m, NEW s, NEW q \in Seq(Readings), Numbered(m, q), NEW p, MergedReadings(s, q, p)
  PROVE  /\ p \in Seq(Readings) /\ Len(p) = Len(q) /\ Numbered(m, p)
         /\ KeysOf(p) = KeysOf(q)
<1>1. p \in Seq(Readings) /\ Len(p) = Len(q) /\ DOMAIN p = DOMAIN q
  BY DEF MergedReadings
<1>2. \A i \in DOMAIN q : p[i].id = q[i].id /\ p[i].keys = q[i].keys
  BY DEF MergedReadings
<1> QED
  BY <1>1, <1>2 DEF Numbered, KeysOf

LEMMA ReportObjectKeeps ==
  ASSUME IInv, NEW m \in Messages, NEW body \in Bodies, ReportObject(m, body)
  PROVE  /\ IInv' /\ merged' = merged \cup {m}
         /\ KeysOf(message'[m].readings) \subseteq DOMAIN store'
         /\ \A k \in DOMAIN store \cap DOMAIN store' : store'[k].at >= store[k].at
<1> DEFINE q == Named(m, ResolveBatch(body, now))
           result == MergeBatch(store, q)
           p == result.readings
           full == [NoMessage EXCEPT !.state = "queued", !.readings = p,
                                     !.merged = TRUE, !.seen = StampNoted]
           alone == [NoMessage EXCEPT !.state = "queued", !.seen = StampNoted]
           lost == [NoMessage EXCEPT !.state = "lost"]
<1>1. PICK enqueued, sent \in BOOLEAN :
        /\ message' = [message EXCEPT ![m] = IF enqueued THEN full
                         ELSE IF sent /\ StampNoted # Never THEN alone ELSE lost]
        /\ stampLost' = (stampLost \/ (~enqueued /\ ~sent /\ StampNoted # Never))
  BY DEF ReportObject
<1> DEFINE v == IF enqueued THEN full ELSE IF sent /\ StampNoted # Never THEN alone ELSE lost
<1>2. /\ message[m].state = "none" /\ Acceptable(body) /\ Merge(m, result) /\ NoteSeen
      /\ UNCHANGED <<now, consumer, repeated, stamps, lastSeen, record_vars>>
  BY DEF ReportObject
<1>3. now \in 0..MaxTime /\ now \in Times /\ now # Never
  BY Clock DEF IInv, TypeInv
<1>4. /\ q \in Seq(Readings) /\ Len(q) <= MaxReadings /\ Cardinality(KeysOf(q)) <= MaxKeys
      /\ Numbered(m, q)
  <2> HIDE DEF q
  <2>1. q = Named(m, ResolveBatch(body, now))
    BY DEF q
  <2> QED
    BY <1>2, <1>3, <2>1, NamedReport, StoreAssumption
<1> HIDE DEF q
<1>5. /\ store' \in Stores /\ newest' \in [Keys -> Past \cup {Never}] /\ NewestIsOfStore'
      /\ merged' = merged \cup {m} /\ legacy' = legacy
      /\ MergedStore(store, q, store') /\ MergedReadings(store, q, p)
      /\ \A k \in DOMAIN store' : store'[k].from # Never => store'[k].from[1] \in merged'
  BY <1>2, <1>4, MergeKeepsStore
<1> HIDE DEF p
<1>6. p \in Seq(Readings) /\ Len(p) = Len(q) /\ Numbered(m, p) /\ KeysOf(p) = KeysOf(q)
  BY <1>4, <1>5, NumberedBatch
<1>7. \A i \in DOMAIN p : OwnStep(p[i])
  <2>1. m \notin merged
    BY <1>2 DEF IInv, DeliveriesOK, MergedOnce
  <2> QED
    BY <1>4, <1>5, <2>1, MergedSteps
<1>8. /\ seen' \in Times /\ contact' = now
      /\ StampDue(seen, now) => seen' = now /\ StampNoted = now
      /\ ~StampDue(seen, now) => StampNoted = Never
  BY <1>2, SeenNoted
<1>9. /\ v \in Deliveries /\ v.state \in {"lost", "queued"}
      /\ v.seen \in {Never, seen'}
      /\ v.readings \in {<<>>, p} /\ (v.readings # <<>> => v.merged)
  <2>1. StampNoted \in Times \cup {Never} /\ StampNoted \in {Never, seen'}
    BY <1>3, <1>8
  <2>2. full \in Deliveries /\ alone \in Deliveries /\ lost \in Deliveries
    BY <1>6, <2>1, Nothing DEF NoMessage, Deliveries
  <2> QED
    BY <2>1, <2>2 DEF NoMessage
<1>10. StampDue(seen, now) => stampLost' \/ (v.seen = seen' /\ v.state = "queued")
  BY <1>1, <1>3, <1>8 DEF NoMessage
<1> HIDE DEF v
<1>11. /\ Len(v.readings) <= MaxReadings /\ Cardinality(KeysOf(v.readings)) <= MaxKeys
       /\ Numbered(m, v.readings) /\ \A i \in DOMAIN v.readings : OwnStep(v.readings[i])
  BY <1>4, <1>6, <1>7, <1>9, Nothing, StoreAssumption DEF Numbered
<1>12. message' = [message EXCEPT ![m] = v]
  BY <1>1 DEF v
<1>13. message' \in [Messages -> Deliveries] /\ DeliveriesOK'
  BY <1>2, <1>5, <1>9, <1>11, <1>12, EntersQueue
<1>14. StampsBehind' /\ StampOnItsWay'
  BY <1>1, <1>2, <1>9, <1>10, <1>12, EntersOnTime
<1>15. TypeInv'
  <2>1. stampLost' \in BOOLEAN /\ merged' \subseteq Messages
    BY <1>1, <1>5 DEF IInv, TypeInv
  <2> QED
    BY <1>2, <1>3, <1>5, <1>8, <1>13, <2>1 DEF IInv, TypeInv, record_vars
<1>16. IInv'
  BY <1>5, <1>13, <1>14, <1>15 DEF IInv
<1>17. KeysOf(message'[m].readings) \subseteq DOMAIN store'
  <2>1. message'[m] = v
    BY <1>12 DEF IInv, TypeInv
  <2> QED
    BY <1>5, <1>6, <1>9, <2>1, Nothing DEF MergedStore
<1>18. \A k \in DOMAIN store \cap DOMAIN store' : store'[k].at >= store[k].at
  BY <1>5 DEF MergedStore
<1> QED
  BY <1>5, <1>16, <1>17, <1>18

----------------------------------------------------------------------------
(* The consumer's steps. *)

\* One delivery changes its state, one invocation its place.
Settles(m) ==
  /\ message' \in [Messages -> Deliveries]
  /\ \A n \in Messages :
       /\ message'[n].readings = message[n].readings
       /\ message'[n].merged = message[n].merged /\ message'[n].seen = message[n].seen
  /\ \A n \in Messages : n # m => message'[n].state = message[n].state
Stays(c) ==
  /\ consumer' \in [Consumers -> Invocations]
  /\ \A d \in Consumers : d # c => consumer'[d] = consumer[d]

LEMMA StateSet ==
  ASSUME TypeInv, NEW m \in Messages,
         NEW st \in {"none", "queued", "taken", "acked", "dead", "lost"},
         message' = [message EXCEPT ![m].state = st]
  PROVE  Settles(m) /\ message'[m].state = st
<1>1. \A n \in Messages : message[n] \in Deliveries
  BY DEF TypeInv
<1>2. [message[m] EXCEPT !.state = st] \in Deliveries
  BY <1>1 DEF Deliveries
<1>3. message' = [message EXCEPT ![m] = [message[m] EXCEPT !.state = st]]
  OBVIOUS
<1>4. /\ message'[m] = [message[m] EXCEPT !.state = st]
      /\ \A n \in Messages : n # m => message'[n] = message[n]
      /\ message' \in [Messages -> Deliveries]
  BY <1>2, <1>3 DEF TypeInv
<1>5. LET e == [message[m] EXCEPT !.state = st]
      IN  e.state = st /\ e.readings = message[m].readings /\ e.merged = message[m].merged
          /\ e.seen = message[m].seen
  BY <1>1 DEF Deliveries
<1> QED
  BY <1>4, <1>5 DEF Settles

LEMMA RetriedState ==
  ASSUME TypeInv, NEW m \in Messages, message' = Retried(m)
  PROVE  /\ Settles(m)
         /\ \/ message'[m].state = message[m].state /\ message[m].state # "taken"
            \/ message[m].state = "taken" /\ message'[m].state \in {"dead", "queued"}
<1> DEFINE st == IF message[m].state # "taken" THEN message[m].state
                 ELSE IF message[m].tries >= MaxTries THEN "dead" ELSE "queued"
<1>1. message[m].state \in {"none", "queued", "taken", "acked", "dead", "lost"}
  BY DEF TypeInv, Deliveries
<1>2. st \in {"none", "queued", "taken", "acked", "dead", "lost"}
  BY <1>1
<1>3. message' = [message EXCEPT ![m].state = st]
  BY DEF Retried
<1>4. \/ st = message[m].state /\ message[m].state # "taken"
      \/ message[m].state = "taken" /\ st \in {"dead", "queued"}
  OBVIOUS
<1> HIDE DEF st
<1> QED
  BY <1>2, <1>3, <1>4, StateSet

LEMMA PlaceSet ==
  ASSUME TypeInv, NEW c \in Consumers, NEW w \in Invocations,
         consumer' = [consumer EXCEPT ![c] = w]
  PROVE  Stays(c) /\ consumer'[c] = w
BY DEF TypeInv, Stays

LEMMA PhaseSet ==
  ASSUME TypeInv, NEW c \in Consumers,
         NEW phase \in {"idle", "stamp", "dispatch", "count", "store", "alerts"},
         consumer' = Set(c, phase)
  PROVE  /\ Stays(c) /\ consumer'[c].phase = phase /\ consumer'[c].of = consumer[c].of
         /\ consumer'[c].readings = consumer[c].readings
<1> DEFINE w == [consumer[c] EXCEPT !.phase = phase]
<1>1. consumer[c] \in Invocations
  BY DEF TypeInv
<1>2. /\ w \in Invocations /\ w.phase = phase /\ w.of = consumer[c].of
      /\ w.readings = consumer[c].readings
  BY <1>1 DEF Invocations
<1>3. consumer' = [consumer EXCEPT ![c] = w]
  BY DEF Set
<1> HIDE DEF w
<1> QED
  BY <1>2, <1>3, PlaceSet

\* What an invocation at work knows of its delivery.
LEMMA AtWork ==
  ASSUME IInv, NEW c \in Consumers, consumer[c].phase # "idle"
  PROVE  /\ Of(c) \in Messages
         /\ \A d \in Consumers : consumer[d].phase # "idle" /\ Of(d) = Of(c) => d = c
         /\ Taking(c) => message[Of(c)].state = "taken"
         /\ Recording(c) => message[Of(c)].state = "acked" /\ Of(c) \in merged
         /\ Taking(c) \/ Recording(c)
<1>1. OwnDelivery(c)
  BY DEF IInv, DeliveriesOK
<1>2. Taking(c) \/ Recording(c)
  BY DEF IInv, TypeInv, Invocations, Taking, Recording
<1> QED
  BY <1>1, <1>2 DEF OwnDelivery

\* Nobody else's place is disturbed.
LEMMA OthersOwn ==
  ASSUME IInv, NEW c \in Consumers, NEW m \in Messages, Stays(c), Settles(m), merged \subseteq merged',
         NEW d \in Consumers, d # c, consumer[d].phase # "idle" => Of(d) # m,
         consumer'[c].phase # "idle" => Of(c)' = m
  PROVE  OwnDelivery(d)'
<1>1. OwnDelivery(d) /\ consumer'[d] = consumer[d]
  BY DEF IInv, DeliveriesOK, Stays
<1>2. CASE consumer[d].phase = "idle"
  BY <1>1, <1>2 DEF OwnDelivery, Taking, Recording
<1>3. CASE consumer[d].phase # "idle"
  <2>1. Of(d)' = Of(d) /\ Of(d) # m /\ Of(d) \in Messages
    BY <1>1, <1>3 DEF Of, OwnDelivery
  <2>2. /\ message'[Of(d)].state = message[Of(d)].state
        /\ message'[Of(d)].readings = message[Of(d)].readings
        /\ message'[Of(d)].seen = message[Of(d)].seen
    BY <2>1 DEF Settles
  <2>3. \A b \in Consumers : consumer'[b].phase # "idle" /\ Of(b)' = Of(d)' => b = d
    <3> SUFFICES ASSUME NEW b \in Consumers, consumer'[b].phase # "idle", Of(b)' = Of(d)' PROVE b = d
      OBVIOUS
    <3>1. b # c
      BY <2>1
    <3>2. consumer'[b] = consumer[b] /\ Of(b)' = Of(b)
      BY <3>1 DEF Stays, Of
    <3> QED
      BY <1>1, <1>3, <2>1, <3>2 DEF OwnDelivery
  <2>4. Taking(d)' = Taking(d) /\ Recording(d)' = Recording(d)
    BY <1>1 DEF Taking, Recording
  <2> QED
    BY <1>1, <1>3, <2>1, <2>2, <2>3, <2>4 DEF OwnDelivery
<1> QED
  BY <1>2, <1>3

\* An invocation that leaves the stamp behind it.
LEMMA LeavesStamp ==
  ASSUME IInv, NEW c \in Consumers, consumer[c].phase # "idle", Settles(Of(c)), Stays(c),
         UNCHANGED <<now, seen, stamps, lastSeen, contact>>,
         stampLost => stampLost', consumer[c].phase = "stamp" => stampLost',
         consumer'[c].phase # "dispatch",
         message'[Of(c)].state = message[Of(c)].state \/ Taking(c)
  PROVE  StampsBehind' /\ StampOnItsWay'
<1>1. Of(c) \in Messages
  BY AtWork
<1>2. \A n \in Messages : message'[n].seen = message[n].seen
  BY DEF Settles
<1>3. StampsBehind'
  BY <1>2 DEF IInv, StampsBehind
<1>4. StampOnItsWay'
  <2> SUFFICES ASSUME ~stampLost' PROVE StampOnItsWay'
    BY DEF StampOnItsWay
  <2>1. ~stampLost /\ consumer[c].phase # "stamp"
    OBVIOUS
  <2>2. lastSeen' = seen' \/ seen' \in stamps' \/ \E n \in Messages : Carries(n)'
    <3> SUFFICES ASSUME lastSeen # seen, seen \notin stamps PROVE \E n \in Messages : Carries(n)'
      OBVIOUS
    <3>1. PICK n \in Messages : Carries(n)
      BY <2>1 DEF IInv, StampOnItsWay
    <3>2. seen # Never
      BY <2>1 DEF IInv, StampsBehind
    <3>3. CASE message'[n].state = message[n].state
      BY <1>2, <3>1, <3>3 DEF Carries
    <3>4. CASE message'[n].state # message[n].state
      <4>1. n = Of(c) /\ consumer[c].phase = "dispatch"
        BY <2>1, <3>4 DEF Settles, Taking
      <4>2. lastSeen # Never /\ lastSeen >= seen /\ lastSeen <= seen
        BY <2>1, <3>1, <3>2, <4>1 DEF IInv, StampOnItsWay, StampsBehind, Carries
      <4> QED
        BY <3>2, <4>2, Clock DEF IInv
    <3> QED
      BY <3>3, <3>4
  <2>3. \A d \in Consumers :
          consumer'[d].phase = "dispatch" /\ message'[Of(d)'].seen # Never =>
            lastSeen' # Never /\ lastSeen' >= message'[Of(d)'].seen
    <3> SUFFICES ASSUME NEW d \in Consumers, consumer'[d].phase = "dispatch", message'[Of(d)'].seen # Never
                 PROVE  lastSeen # Never /\ lastSeen >= message'[Of(d)'].seen
      OBVIOUS
    <3>1. d # c /\ consumer'[d] = consumer[d] /\ Of(d)' = Of(d)
      BY DEF Stays, Of
    <3>2. Of(d) \in Messages
      BY <3>1, AtWork
    <3> QED
      BY <1>2, <2>1, <3>1, <3>2 DEF IInv, StampOnItsWay
  <2> QED
    BY <2>2, <2>3 DEF StampOnItsWay
<1> QED
  BY <1>3, <1>4

\* An invocation that ends: its delivery is acked, comes again, is given up or
\* stays as it was; a merge on the way out is a repeated one.
LEMMA Leaves ==
  ASSUME IInv, NEW c \in Consumers, consumer[c].phase # "idle", Settles(Of(c)), Stays(c),
         consumer'[c].phase = "idle", UNCHANGED record_vars,
         \/ message'[Of(c)].state = message[Of(c)].state
         \/ Taking(c) /\ message'[Of(c)].state \in {"queued", "dead", "acked"},
         \/ merged' = merged /\ repeated' = repeated
         \/ merged' = merged \cup {Of(c)} /\ repeated' = repeated \cup {Of(c)},
         \A k \in DOMAIN store' : store'[k].from # Never => store'[k].from[1] \in merged'
  PROVE  DeliveriesOK'
<1> USE DEF record_vars
<1> DEFINE m == Of(c)
<1>1. /\ m \in Messages
      /\ \A d \in Consumers : consumer[d].phase # "idle" /\ Of(d) = m => d = c
      /\ Taking(c) => message[m].state = "taken"
      /\ Recording(c) => message[m].state = "acked" /\ m \in merged
      /\ Taking(c) \/ Recording(c)
  BY AtWork
<1>2. /\ \A n \in Messages :
           /\ message'[n].readings = message[n].readings
           /\ message'[n].merged = message[n].merged
           /\ n # m => message'[n].state = message[n].state
      /\ \A d \in Consumers : d # c => consumer'[d] = consumer[d] /\ Of(d)' = Of(d)
  BY DEF Settles, Stays, Of
<1>3. NothingRecorded'
  <2>1. \A n \in Messages : message'[n].state # "acked" => counted'[n] = 0 /\ stored'[n] = 0
    BY <1>1, <1>2 DEF IInv, DeliveriesOK, NothingRecorded
  <2>2. \A d \in Consumers : consumer'[d].phase = "count" => counted'[Of(d)'] = 0
    BY <1>2 DEF IInv, DeliveriesOK, NothingRecorded
  <2>3. \A d \in Consumers : consumer'[d].phase \in {"count", "store"} => stored'[Of(d)'] = 0
    BY <1>2 DEF IInv, DeliveriesOK, NothingRecorded
  <2> QED
    BY <2>1, <2>2, <2>3 DEF NothingRecorded
<1>4. RecordedOnce'
  BY <1>2 DEF IInv, DeliveriesOK, RecordedOnce
<1>5. StepsOK'
  <2>1. \A n \in Messages : OwnSteps(n, message[n].readings)'
    BY <1>2 DEF IInv, DeliveriesOK, StepsOK, OwnSteps
  <2>2. \A d \in Consumers : Recording(d)' => OwnSteps(Of(d), consumer[d].readings)'
    <3> SUFFICES ASSUME NEW d \in Consumers, Recording(d)' PROVE OwnSteps(Of(d), consumer[d].readings)'
      OBVIOUS
    <3>1. d # c
      BY DEF Recording
    <3>2. consumer'[d] = consumer[d] /\ Of(d)' = Of(d)
      BY <1>2, <3>1
    <3>3. Recording(d)
      BY <3>2 DEF Recording
    <3> QED
      BY <3>2, <3>3 DEF IInv, DeliveriesOK, StepsOK, OwnSteps
  <2> QED
    BY <2>1, <2>2 DEF StepsOK
<1>6. NoStepFromItself'
  BY DEF IInv, DeliveriesOK, NoStepFromItself
<1>7. \A n \in Messages : ReadingsOK(n)'
  BY <1>2 DEF IInv, DeliveriesOK, ReadingsOK
<1>8. \A n \in Messages : MergedOnce(n)'
  <2> SUFFICES ASSUME NEW n \in Messages PROVE MergedOnce(n)'
    OBVIOUS
  <2>1. MergedOnce(n)
    BY DEF IInv, DeliveriesOK
  <2>2. CASE n # m
    BY <1>2, <2>1, <2>2 DEF MergedOnce
  <2>3. CASE n = m
    BY <1>1, <1>2, <2>1, <2>3 DEF MergedOnce
  <2> QED
    BY <2>2, <2>3
<1>9. \A d \in Consumers : OwnDelivery(d)'
  <2> SUFFICES ASSUME NEW d \in Consumers PROVE OwnDelivery(d)'
    OBVIOUS
  <2>1. CASE d = c
    BY <2>1 DEF OwnDelivery, Taking, Recording
  <2>2. CASE d # c
    BY <1>1, <2>2, OthersOwn
  <2> QED
    BY <2>1, <2>2
<1> QED
  BY <1>3, <1>4, <1>5, <1>6, <1>7, <1>8, <1>9 DEF DeliveriesOK

LEMMA TakeKeeps ==
  ASSUME IInv, NEW c \in Consumers, NEW m \in Messages, Take(c, m)
  PROVE  IInv'
<1> USE DEF store_vars, record_vars, contact_vars
<1> DEFINE w == [IdleConsumer EXCEPT !.of = m,
                   !.phase = IF message[m].seen # Never THEN "stamp" ELSE "dispatch"]
           taken == [message[m] EXCEPT !.state = "taken"]
           v == [taken EXCEPT !.tries = taken.tries + 1]
<1>1. /\ consumer[c].phase = "idle" /\ message[m].state = "queued"
      /\ message' = [message EXCEPT ![m].state = "taken", ![m].tries = @ + 1]
      /\ consumer' = [consumer EXCEPT ![c] = w]
      /\ UNCHANGED <<now, repeated, store_vars, record_vars, contact_vars>>
  BY DEF Take
<1>2. Settles(m) /\ message'[m].state = "taken"
  <2>1. message[m] \in Deliveries
    BY DEF IInv, TypeInv
  <2>2. v \in Deliveries /\ v.state = "taken" /\ v.readings = message[m].readings
        /\ v.merged = message[m].merged /\ v.seen = message[m].seen
    <3>1. /\ taken \in Deliveries /\ taken.state = "taken" /\ taken.readings = message[m].readings
          /\ taken.merged = message[m].merged /\ taken.seen = message[m].seen
      BY <2>1 DEF Deliveries
    <3>2. taken.tries + 1 \in Nat
      BY <3>1 DEF Deliveries
    <3> HIDE DEF taken
    <3> QED
      BY <3>1, <3>2 DEF Deliveries
  <2>3. message' = [message EXCEPT ![m] = v]
    BY <1>1
  <2> HIDE DEF v
  <2>4. /\ message'[m] = v /\ message' \in [Messages -> Deliveries]
        /\ \A n \in Messages : n # m => message'[n] = message[n]
    BY <2>2, <2>3 DEF IInv, TypeInv
  <2> QED
    BY <2>2, <2>4 DEF Settles
<1>3. /\ w \in Invocations /\ w.of = m /\ w.phase \in {"stamp", "dispatch"}
      /\ w.phase = "stamp" <=> message[m].seen # Never
  BY Nothing DEF IdleConsumer, Invocations
<1> HIDE DEF w
<1>4. Stays(c) /\ consumer'[c] = w
  BY <1>1, <1>3, PlaceSet DEF IInv
<1>5. /\ \A n \in Messages :
           /\ message'[n].readings = message[n].readings
           /\ message'[n].merged = message[n].merged /\ message'[n].seen = message[n].seen
           /\ n # m => message'[n].state = message[n].state
      /\ \A d \in Consumers : d # c => consumer'[d] = consumer[d] /\ Of(d)' = Of(d)
      /\ Of(c)' = m
  BY <1>2, <1>3, <1>4 DEF Settles, Stays, Of
<1>6. \A d \in Consumers : consumer[d].phase # "idle" => Of(d) \in Messages /\ Of(d) # m
  <2> SUFFICES ASSUME NEW d \in Consumers, consumer[d].phase # "idle"
               PROVE  Of(d) \in Messages /\ Of(d) # m
    OBVIOUS
  <2>1. Of(d) \in Messages /\ message[Of(d)].state \in {"taken", "acked"}
    BY AtWork
  <2> QED
    BY <1>1, <2>1
<1>7. TypeInv'
  BY <1>1, <1>2, <1>4 DEF IInv, TypeInv, Settles, Stays
<1>8. NewestIsOfStore'
  BY <1>1 DEF IInv, NewestIsOfStore, StoreHoldsNewest
<1>9. NothingRecorded' /\ RecordedOnce' /\ NoStepFromItself'
  <2>1. NothingRecorded'
    <3>1. \A n \in Messages : message'[n].state # "acked" => counted'[n] = 0 /\ stored'[n] = 0
      BY <1>1, <1>2, <1>5 DEF IInv, DeliveriesOK, NothingRecorded
    <3>2. \A d \in Consumers : consumer'[d].phase = "count" => counted'[Of(d)'] = 0
      BY <1>1, <1>3, <1>4, <1>5 DEF IInv, DeliveriesOK, NothingRecorded
    <3>3. \A d \in Consumers : consumer'[d].phase \in {"count", "store"} => stored'[Of(d)'] = 0
      BY <1>1, <1>3, <1>4, <1>5 DEF IInv, DeliveriesOK, NothingRecorded
    <3> QED
      BY <3>1, <3>2, <3>3 DEF NothingRecorded
  <2>2. RecordedOnce'
    BY <1>1, <1>5 DEF IInv, DeliveriesOK, RecordedOnce
  <2>3. NoStepFromItself'
    BY <1>1 DEF IInv, DeliveriesOK, NoStepFromItself
  <2> QED
    BY <2>1, <2>2, <2>3
<1>10. StepsOK'
  <2>1. \A n \in Messages : OwnSteps(n, message[n].readings)'
    BY <1>1, <1>5 DEF IInv, DeliveriesOK, StepsOK, OwnSteps
  <2>2. \A d \in Consumers : Recording(d)' => OwnSteps(Of(d), consumer[d].readings)'
    <3> SUFFICES ASSUME NEW d \in Consumers, Recording(d)' PROVE OwnSteps(Of(d), consumer[d].readings)'
      OBVIOUS
    <3>1. d # c
      BY <1>3, <1>4 DEF Recording
    <3>2. consumer'[d] = consumer[d] /\ Of(d)' = Of(d)
      BY <1>5, <3>1
    <3>3. Recording(d)
      BY <3>2 DEF Recording
    <3> QED
      BY <1>1, <3>2, <3>3 DEF IInv, DeliveriesOK, StepsOK, OwnSteps
  <2> QED
    BY <1>1, <2>1, <2>2 DEF IInv, DeliveriesOK, StepsOK
<1>11. \A n \in Messages : ReadingsOK(n)' /\ MergedOnce(n)'
  <2> SUFFICES ASSUME NEW n \in Messages PROVE ReadingsOK(n)' /\ MergedOnce(n)'
    OBVIOUS
  <2>1. ReadingsOK(n) /\ MergedOnce(n)
    BY DEF IInv, DeliveriesOK
  <2>2. message'[n].state = message[n].state \/ (message[n].state = "queued" /\ message'[n].state = "taken")
    BY <1>1, <1>2, <1>5
  <2>3. ReadingsOK(n)'
    BY <1>5, <2>1 DEF ReadingsOK
  <2>4. MergedOnce(n)'
    BY <1>1, <1>5, <2>1, <2>2 DEF MergedOnce
  <2> QED
    BY <2>3, <2>4
<1>12. \A d \in Consumers : OwnDelivery(d)'
  <2> SUFFICES ASSUME NEW d \in Consumers PROVE OwnDelivery(d)'
    OBVIOUS
  <2>1. CASE d = c
    <3>1. \A b \in Consumers : consumer'[b].phase # "idle" /\ Of(b)' = m => b = c
      BY <1>5, <1>6
    <3>2. Taking(c)' /\ ~Recording(c)'
      BY <1>3, <1>4 DEF Taking, Recording
    <3> QED
      BY <1>2, <1>3, <1>4, <1>5, <2>1, <3>1, <3>2 DEF OwnDelivery
  <2>2. CASE d # c
    BY <1>1, <1>2, <1>4, <1>5, <1>6, <2>2, OthersOwn
  <2> QED
    BY <2>1, <2>2
<1>13. StampsBehind'
  BY <1>1, <1>5 DEF IInv, StampsBehind
<1>14. StampOnItsWay'
  <2> SUFFICES ASSUME ~stampLost PROVE StampOnItsWay'
    BY <1>1 DEF StampOnItsWay
  <2>1. \A n \in Messages : Carries(n) => Carries(n)'
    BY <1>1, <1>2, <1>5 DEF Carries
  <2>2. \A d \in Consumers :
          consumer'[d].phase = "dispatch" /\ message'[Of(d)'].seen # Never =>
            lastSeen # Never /\ lastSeen >= message'[Of(d)'].seen
    <3> SUFFICES ASSUME NEW d \in Consumers, consumer'[d].phase = "dispatch", message'[Of(d)'].seen # Never
                 PROVE  lastSeen # Never /\ lastSeen >= message'[Of(d)'].seen
      OBVIOUS
    <3>1. d # c
      BY <1>3, <1>4, <1>5
    <3>2. consumer'[d] = consumer[d] /\ Of(d)' = Of(d) /\ Of(d) \in Messages
      BY <1>5, <1>6, <3>1
    <3> QED
      BY <1>5, <3>2 DEF IInv, StampOnItsWay
  <2> QED
    BY <1>1, <2>1, <2>2 DEF IInv, StampOnItsWay
<1> QED
  BY <1>7, <1>8, <1>9, <1>10, <1>11, <1>12, <1>13, <1>14 DEF IInv, DeliveriesOK

\* The stamp a delivery carries lands or is lost; the delivery goes on either way.
LEMMA StampSeenKeeps ==
  ASSUME IInv, NEW c \in Consumers, StampSeen(c)
  PROVE  IInv'
<1> USE DEF store_vars, record_vars
<1> DEFINE m == Of(c)
           at == message[m].seen
<1>1. PICK lands \in BOOLEAN :
        /\ lastSeen' = IF lands THEN Stamped(lastSeen, at) ELSE lastSeen
        /\ stampLost' = (stampLost \/ ~lands)
  BY DEF StampSeen
<1>2. /\ consumer[c].phase = "stamp" /\ consumer' = Set(c, "dispatch")
      /\ UNCHANGED <<now, message, repeated, seen, stamps, contact, store_vars, record_vars>>
  BY DEF StampSeen
<1>3. /\ Stays(c) /\ consumer'[c].phase = "dispatch" /\ consumer'[c].of = consumer[c].of
      /\ consumer'[c].readings = consumer[c].readings
  BY <1>2, PhaseSet DEF IInv
<1>4. /\ m \in Messages /\ Of(c)' = m
      /\ \A d \in Consumers : consumer[d].phase # "idle" /\ Of(d) = m => d = c
      /\ message[m].state = "taken" /\ at # Never
      /\ \A d \in Consumers : d # c => consumer'[d] = consumer[d] /\ Of(d)' = Of(d)
  <2>1. OwnDelivery(c)
    BY DEF IInv, DeliveriesOK
  <2> QED
    BY <1>2, <1>3, <2>1 DEF OwnDelivery, Taking, Stays, Of
<1>5. /\ Never \notin Times /\ Times \subseteq Int /\ at \in Times /\ at \in Int
      /\ seen # Never => seen \in Int
      /\ lastSeen # Never => lastSeen \in Int
      /\ \A n \in Messages : message[n].seen \in Times \cup {Never}
  BY <1>4, Clock DEF IInv
<1> HIDE DEF at
<1>6. /\ Stamped(lastSeen, at) \in {lastSeen, at} /\ Stamped(lastSeen, at) \in Int
      /\ Stamped(lastSeen, at) # Never /\ Stamped(lastSeen, at) >= at
      /\ lastSeen # Never => Stamped(lastSeen, at) >= lastSeen
  BY <1>5, StampedFacts
<1>7. TypeInv'
  <2>1. lastSeen' \in Times \cup {Never} /\ stampLost' \in BOOLEAN
    BY <1>1, <1>5, <1>6 DEF IInv, TypeInv
  <2> QED
    BY <1>2, <1>3, <2>1 DEF IInv, TypeInv, Stays
<1>8. NewestIsOfStore'
  BY <1>2 DEF IInv, NewestIsOfStore, StoreHoldsNewest
<1>9. DeliveriesOK'
  <2>1. NothingRecorded'
    <3>1. \A n \in Messages : message'[n].state # "acked" => counted'[n] = 0 /\ stored'[n] = 0
      BY <1>2 DEF IInv, DeliveriesOK, NothingRecorded
    <3>2. \A d \in Consumers : consumer'[d].phase = "count" => counted'[Of(d)'] = 0
      BY <1>2, <1>3, <1>4 DEF IInv, DeliveriesOK, NothingRecorded
    <3>3. \A d \in Consumers : consumer'[d].phase \in {"count", "store"} => stored'[Of(d)'] = 0
      BY <1>2, <1>3, <1>4 DEF IInv, DeliveriesOK, NothingRecorded
    <3> QED
      BY <3>1, <3>2, <3>3 DEF NothingRecorded
  <2>2. RecordedOnce' /\ NoStepFromItself'
    BY <1>2 DEF IInv, DeliveriesOK, RecordedOnce, NoStepFromItself
  <2>3. StepsOK'
    <3>1. \A n \in Messages : OwnSteps(n, message[n].readings)'
      BY <1>2 DEF IInv, DeliveriesOK, StepsOK, OwnSteps
    <3>2. \A d \in Consumers : Recording(d)' => OwnSteps(Of(d), consumer[d].readings)'
      <4> SUFFICES ASSUME NEW d \in Consumers, Recording(d)' PROVE OwnSteps(Of(d), consumer[d].readings)'
        OBVIOUS
      <4>1. d # c
        BY <1>3 DEF Recording
      <4>2. consumer'[d] = consumer[d] /\ Of(d)' = Of(d)
        BY <1>4, <4>1
      <4>3. Recording(d)
        BY <4>2 DEF Recording
      <4> QED
        BY <1>2, <4>2, <4>3 DEF IInv, DeliveriesOK, StepsOK, OwnSteps
    <3> QED
      BY <1>2, <3>1, <3>2 DEF IInv, DeliveriesOK, StepsOK
  <2>4. \A n \in Messages : ReadingsOK(n)' /\ MergedOnce(n)'
    BY <1>2 DEF IInv, DeliveriesOK, ReadingsOK, MergedOnce
  <2>5. \A d \in Consumers : OwnDelivery(d)'
    <3> SUFFICES ASSUME NEW d \in Consumers PROVE OwnDelivery(d)'
      OBVIOUS
    <3>1. CASE d = c
      <4>1. \A b \in Consumers : consumer'[b].phase # "idle" /\ Of(b)' = m => b = c
        BY <1>4
      <4>2. Taking(c)' /\ ~Recording(c)'
        BY <1>3 DEF Taking, Recording
      <4> QED
        BY <1>2, <1>3, <1>4, <3>1, <4>1, <4>2 DEF OwnDelivery
    <3>2. CASE d # c
      <4>1. Settles(m)
        BY <1>2 DEF Settles, IInv, TypeInv
      <4> QED
        BY <1>2, <1>3, <1>4, <3>2, <4>1, OthersOwn
    <3> QED
      BY <3>1, <3>2
  <2> QED
    BY <2>1, <2>2, <2>3, <2>4, <2>5 DEF DeliveriesOK
<1>10. at <= seen /\ seen # Never /\ seen \in Int
  BY <1>4, <1>5 DEF IInv, StampsBehind, at
<1>11. StampsBehind'
  <2>1. lastSeen' # Never => lastSeen' <= seen
    BY <1>1, <1>6, <1>10 DEF IInv, StampsBehind
  <2> QED
    BY <1>2, <1>10, <2>1 DEF IInv, StampsBehind
<1>12. StampOnItsWay'
  <2> SUFFICES ASSUME ~stampLost' PROVE StampOnItsWay'
    BY DEF StampOnItsWay
  <2>1. lands /\ ~stampLost /\ lastSeen' = Stamped(lastSeen, at)
    BY <1>1
  <2>2. lastSeen' = seen' \/ seen' \in stamps' \/ \E n \in Messages : Carries(n)'
    <3>1. CASE lastSeen = seen
      <4>1. lastSeen' <= seen /\ lastSeen' >= seen
        BY <1>2, <1>6, <1>10, <1>11, <2>1, <3>1 DEF StampsBehind
      <4> QED
        BY <1>2, <1>6, <1>10, <2>1, <4>1
    <3>2. CASE lastSeen # seen
      BY <1>2, <2>1, <3>2 DEF IInv, StampOnItsWay, Carries
    <3> QED
      BY <3>1, <3>2
  <2>3. \A d \in Consumers :
          consumer'[d].phase = "dispatch" /\ message'[Of(d)'].seen # Never =>
            lastSeen' # Never /\ lastSeen' >= message'[Of(d)'].seen
    <3> SUFFICES ASSUME NEW d \in Consumers, consumer'[d].phase = "dispatch", message'[Of(d)'].seen # Never
                 PROVE  lastSeen' # Never /\ lastSeen' >= message'[Of(d)'].seen
      OBVIOUS
    <3>1. CASE d = c
      BY <1>2, <1>4, <1>6, <2>1, <3>1 DEF at
    <3>2. CASE d # c
      <4>1. consumer'[d] = consumer[d] /\ Of(d)' = Of(d)
        BY <1>4, <3>2
      <4>2. Of(d) \in Messages /\ message[Of(d)].seen \in Int
        BY <1>2, <1>5, <4>1, AtWork
      <4>3. lastSeen # Never /\ lastSeen >= message[Of(d)].seen
        BY <1>2, <2>1, <4>1 DEF IInv, StampOnItsWay
      <4> QED
        BY <1>2, <1>5, <1>6, <2>1, <4>1, <4>2, <4>3
    <3> QED
      BY <3>1, <3>2
  <2> QED
    BY <2>2, <2>3 DEF StampOnItsWay
<1> QED
  BY <1>7, <1>8, <1>9, <1>11, <1>12 DEF IInv

LEMMA DropEmptyKeeps ==
  ASSUME IInv, NEW c \in Consumers, DropEmpty(c)
  PROVE  IInv'
<1> USE DEF store_vars, contact_vars
<1>1. /\ consumer[c].phase = "dispatch" /\ message' = Acked(Of(c))
      /\ consumer' = [consumer EXCEPT ![c] = IdleConsumer]
      /\ UNCHANGED <<now, repeated, store_vars, record_vars, contact_vars>>
  BY DEF DropEmpty
<1>2. Of(c) \in Messages /\ Taking(c)
  BY <1>1, AtWork DEF Taking
<1>3. Settles(Of(c)) /\ message'[Of(c)].state = "acked"
  BY <1>1, <1>2, StateSet DEF IInv, Acked
<1>4. Stays(c) /\ consumer'[c] = IdleConsumer
  BY <1>1, Nothing, PlaceSet DEF IInv
<1>5. consumer'[c].phase = "idle"
  BY <1>4 DEF IdleConsumer
<1>6. DeliveriesOK'
  <2>1. \A k \in DOMAIN store' : store'[k].from # Never => store'[k].from[1] \in merged'
    BY <1>1 DEF IInv, DeliveriesOK, StepsOK
  <2> QED
    BY <1>1, <1>2, <1>3, <1>4, <1>5, <2>1, Leaves
<1>7. StampsBehind' /\ StampOnItsWay'
  BY <1>1, <1>2, <1>3, <1>4, <1>5, LeavesStamp
<1>8. TypeInv' /\ NewestIsOfStore'
  BY <1>1, <1>3, <1>4
     DEF IInv, TypeInv, NewestIsOfStore, StoreHoldsNewest, Settles, Stays, record_vars
<1> QED
  BY <1>6, <1>7, <1>8 DEF IInv

LEMMA CallFailsKeeps ==
  ASSUME IInv, NEW c \in Consumers, CallFails(c)
  PROVE  IInv'
<1> USE DEF store_vars, contact_vars
<1>1. /\ consumer[c].phase = "dispatch" /\ message' = Retried(Of(c))
      /\ consumer' = [consumer EXCEPT ![c] = IdleConsumer]
      /\ UNCHANGED <<now, repeated, store_vars, record_vars, contact_vars>>
  BY DEF CallFails
<1>2. Of(c) \in Messages /\ Taking(c)
  BY <1>1, AtWork DEF Taking
<1>3. /\ Settles(Of(c))
      /\ \/ message'[Of(c)].state = message[Of(c)].state
         \/ message'[Of(c)].state \in {"dead", "queued"}
  BY <1>1, <1>2, RetriedState DEF IInv
<1>4. Stays(c) /\ consumer'[c] = IdleConsumer
  BY <1>1, Nothing, PlaceSet DEF IInv
<1>5. consumer'[c].phase = "idle"
  BY <1>4 DEF IdleConsumer
<1>6. DeliveriesOK'
  <2>1. \A k \in DOMAIN store' : store'[k].from # Never => store'[k].from[1] \in merged'
    BY <1>1 DEF IInv, DeliveriesOK, StepsOK
  <2> QED
    BY <1>1, <1>2, <1>3, <1>4, <1>5, <2>1, Leaves
<1>7. StampsBehind' /\ StampOnItsWay'
  BY <1>1, <1>2, <1>3, <1>4, <1>5, LeavesStamp
<1>8. TypeInv' /\ NewestIsOfStore'
  BY <1>1, <1>3, <1>4
     DEF IInv, TypeInv, NewestIsOfStore, StoreHoldsNewest, Settles, Stays, record_vars
<1> QED
  BY <1>6, <1>7, <1>8 DEF IInv

LEMMA KilledKeeps ==
  ASSUME IInv, NEW c \in Consumers, Killed(c)
  PROVE  IInv'
<1> USE DEF store_vars
<1>1. /\ consumer[c].phase # "idle" /\ message' = Retried(Of(c))
      /\ stampLost' = (stampLost \/ consumer[c].phase = "stamp")
      /\ consumer' = [consumer EXCEPT ![c] = IdleConsumer]
      /\ UNCHANGED <<now, repeated, seen, stamps, lastSeen, contact, store_vars, record_vars>>
  BY DEF Killed
<1>2. /\ Of(c) \in Messages
      /\ message[Of(c)].state = "taken" => Taking(c)
  BY <1>1, AtWork
<1>3. /\ Settles(Of(c))
      /\ \/ message'[Of(c)].state = message[Of(c)].state
         \/ Taking(c) /\ message'[Of(c)].state \in {"dead", "queued"}
  BY <1>1, <1>2, RetriedState DEF IInv
<1>4. Stays(c) /\ consumer'[c] = IdleConsumer
  BY <1>1, Nothing, PlaceSet DEF IInv
<1>5. consumer'[c].phase = "idle"
  BY <1>4 DEF IdleConsumer
<1>6. DeliveriesOK'
  <2>1. \A k \in DOMAIN store' : store'[k].from # Never => store'[k].from[1] \in merged'
    BY <1>1 DEF IInv, DeliveriesOK, StepsOK
  <2> QED
    BY <1>1, <1>3, <1>4, <1>5, <2>1, Leaves
<1>7. StampsBehind' /\ StampOnItsWay'
  BY <1>1, <1>3, <1>4, <1>5, LeavesStamp
<1>8. TypeInv' /\ NewestIsOfStore'
  <2>1. stampLost' \in BOOLEAN
    BY <1>1 DEF IInv, TypeInv
  <2> QED
    BY <1>1, <1>3, <1>4, <2>1
       DEF IInv, TypeInv, NewestIsOfStore, StoreHoldsNewest, Settles, Stays, record_vars
<1> QED
  BY <1>6, <1>7, <1>8 DEF IInv

\* What the message of a consumer at its dispatch holds.
LEMMA AtDispatch ==
  ASSUME IInv, NEW c \in Consumers, consumer[c].phase = "dispatch"
  PROVE  LET m == Of(c) IN
         /\ m \in Messages /\ Taking(c) /\ message[m].state = "taken"
         /\ message[m].readings \in Seq(Readings)
         /\ Cardinality(KeysOf(message[m].readings)) <= MaxKeys
         /\ Numbered(m, message[m].readings)
<1>1. Of(c) \in Messages /\ Taking(c) /\ message[Of(c)].state = "taken"
  BY AtWork DEF Taking
<1>2. ReadingsOK(Of(c))
  BY <1>1 DEF IInv, DeliveriesOK
<1>3. message[Of(c)].readings \in Seq(Readings)
  BY <1>1, DeliveryFacts DEF IInv
<1> QED
  BY <1>1, <1>2, <1>3 DEF ReadingsOK

LEMMA WriteUnheardKeeps ==
  ASSUME IInv, NEW c \in Consumers, WriteUnheard(c)
  PROVE  /\ IInv' /\ merged' = merged \cup {Of(c)}
         /\ KeysOf(message'[Of(c)].readings) \subseteq DOMAIN store'
         /\ \A k \in DOMAIN store \cap DOMAIN store' : store'[k].at >= store[k].at
<1> USE DEF contact_vars
<1> DEFINE q == message[Of(c)].readings
<1>1. /\ Unmerged(c) /\ consumer[c].phase = "dispatch"
      /\ Merge(Of(c), MergeBatch(store, q))
      /\ message' = Retried(Of(c)) /\ repeated' = repeated \cup {Of(c)}
      /\ consumer' = [consumer EXCEPT ![c] = IdleConsumer]
      /\ UNCHANGED <<now, record_vars, contact_vars>>
  BY DEF WriteUnheard, Unmerged
<1>2. /\ Of(c) \in Messages /\ Taking(c) /\ q \in Seq(Readings)
      /\ Cardinality(KeysOf(q)) <= MaxKeys /\ Numbered(Of(c), q)
  BY <1>1, AtDispatch
<1> HIDE DEF q
<1>3. /\ store' \in Stores /\ newest' \in [Keys -> Past \cup {Never}] /\ NewestIsOfStore'
      /\ merged' = merged \cup {Of(c)} /\ legacy' = legacy
      /\ MergedStore(store, q, store')
      /\ \A k \in DOMAIN store' : store'[k].from # Never => store'[k].from[1] \in merged'
  BY <1>1, <1>2, MergeKeepsStore
<1>4. /\ Settles(Of(c))
      /\ \/ message'[Of(c)].state = message[Of(c)].state
         \/ message'[Of(c)].state \in {"dead", "queued"}
  BY <1>1, <1>2, RetriedState DEF IInv
<1>5. Stays(c) /\ consumer'[c] = IdleConsumer
  BY <1>1, Nothing, PlaceSet DEF IInv
<1>6. consumer'[c].phase = "idle"
  BY <1>5 DEF IdleConsumer
<1>7. DeliveriesOK'
  BY <1>1, <1>2, <1>3, <1>4, <1>5, <1>6, Leaves
<1>8. StampsBehind' /\ StampOnItsWay'
  BY <1>1, <1>2, <1>4, <1>5, <1>6, LeavesStamp
<1>9. TypeInv'
  BY <1>1, <1>2, <1>3, <1>4, <1>5 DEF IInv, TypeInv, Settles, Stays, record_vars
<1>10. KeysOf(message'[Of(c)].readings) \subseteq DOMAIN store'
  BY <1>2, <1>3, <1>4 DEF MergedStore, Settles, q
<1>11. \A k \in DOMAIN store \cap DOMAIN store' : store'[k].at >= store[k].at
  BY <1>3 DEF MergedStore
<1> QED
  BY <1>3, <1>7, <1>8, <1>9, <1>10, <1>11 DEF IInv

\* A delivery answered for: acked, merged, and its readings in hand.
LEMMA Answered ==
  ASSUME IInv, NEW c \in Consumers, consumer[c].phase = "dispatch",
         Settles(Of(c)), message'[Of(c)].state = "acked", Stays(c),
         consumer'[c].phase = "count", consumer'[c].of = consumer[c].of,
         Len(consumer'[c].readings) = Len(message[Of(c)].readings),
         Numbered(Of(c), consumer'[c].readings), OwnSteps(Of(c), consumer'[c].readings),
         merged' = merged \cup {Of(c)}, UNCHANGED <<repeated, record_vars>>,
         \A k \in DOMAIN store' : store'[k].from # Never => store'[k].from[1] \in merged'
  PROVE  DeliveriesOK'
<1> USE DEF record_vars
<1> DEFINE m == Of(c)
<1>1. /\ m \in Messages /\ message[m].state = "taken" /\ Of(c)' = m
      /\ \A d \in Consumers : consumer[d].phase # "idle" /\ Of(d) = m => d = c
  BY AtWork DEF Taking, Of
<1>2. /\ \A n \in Messages :
           /\ message'[n].readings = message[n].readings
           /\ message'[n].merged = message[n].merged
           /\ n # m => message'[n].state = message[n].state
      /\ \A d \in Consumers : d # c => consumer'[d] = consumer[d] /\ Of(d)' = Of(d)
  BY DEF Settles, Stays, Of
<1>3. counted[m] = 0 /\ stored[m] = 0
  BY <1>1 DEF IInv, DeliveriesOK, NothingRecorded
<1>4. NothingRecorded'
  <2>1. \A n \in Messages : message'[n].state # "acked" => counted'[n] = 0 /\ stored'[n] = 0
    BY <1>1, <1>2 DEF IInv, DeliveriesOK, NothingRecorded
  <2>2. \A d \in Consumers : consumer'[d].phase = "count" => counted'[Of(d)'] = 0
    BY <1>1, <1>2, <1>3 DEF IInv, DeliveriesOK, NothingRecorded
  <2>3. \A d \in Consumers : consumer'[d].phase \in {"count", "store"} => stored'[Of(d)'] = 0
    BY <1>1, <1>2, <1>3 DEF IInv, DeliveriesOK, NothingRecorded
  <2> QED
    BY <2>1, <2>2, <2>3 DEF NothingRecorded
<1>5. RecordedOnce' /\ NoStepFromItself'
  BY <1>2 DEF IInv, DeliveriesOK, RecordedOnce, NoStepFromItself
<1>6. StepsOK'
  <2>1. \A n \in Messages : OwnSteps(n, message[n].readings)'
    BY <1>2 DEF IInv, DeliveriesOK, StepsOK, OwnSteps
  <2>2. \A d \in Consumers : Recording(d)' => OwnSteps(Of(d), consumer[d].readings)'
    <3> SUFFICES ASSUME NEW d \in Consumers, Recording(d)' PROVE OwnSteps(Of(d), consumer[d].readings)'
      OBVIOUS
    <3>1. CASE d = c
      BY <1>1, <3>1 DEF OwnSteps
    <3>2. CASE d # c
      <4>1. consumer'[d] = consumer[d] /\ Of(d)' = Of(d)
        BY <1>2, <3>2
      <4>2. Recording(d)
        BY <4>1 DEF Recording
      <4> QED
        BY <4>1, <4>2 DEF IInv, DeliveriesOK, StepsOK, OwnSteps
    <3> QED
      BY <3>1, <3>2
  <2> QED
    BY <2>1, <2>2 DEF StepsOK
<1>7. \A n \in Messages : ReadingsOK(n)'
  BY <1>2 DEF IInv, DeliveriesOK, ReadingsOK
<1>8. \A n \in Messages : MergedOnce(n)'
  <2> SUFFICES ASSUME NEW n \in Messages PROVE MergedOnce(n)'
    OBVIOUS
  <2>1. MergedOnce(n)
    BY DEF IInv, DeliveriesOK
  <2>2. CASE n # m
    BY <1>2, <2>1, <2>2 DEF MergedOnce
  <2>3. CASE n = m
    BY <2>3 DEF MergedOnce
  <2> QED
    BY <2>2, <2>3
<1>9. \A d \in Consumers : OwnDelivery(d)'
  <2> SUFFICES ASSUME NEW d \in Consumers PROVE OwnDelivery(d)'
    OBVIOUS
  <2>1. CASE d = c
    <3>1. \A b \in Consumers : consumer'[b].phase # "idle" /\ Of(b)' = m => b = c
      BY <1>1, <1>2
    <3>2. ~Taking(c)' /\ m \in merged'
      BY DEF Taking
    <3>3. Len(consumer'[c].readings) = Len(message'[m].readings)
      BY <1>1, <1>2
    <3> QED
      BY <1>1, <2>1, <3>1, <3>2, <3>3 DEF OwnDelivery, Numbered
  <2>2. CASE d # c
    BY <1>1, <2>2, OthersOwn
  <2> QED
    BY <2>1, <2>2
<1> QED
  BY <1>4, <1>5, <1>6, <1>7, <1>8, <1>9 DEF DeliveriesOK

LEMMA WriteAnsweredKeeps ==
  ASSUME IInv, NEW c \in Consumers, NEW parsed \in BOOLEAN, NEW forward \in BOOLEAN,
         WriteAnswered(c, parsed, forward)
  PROVE  /\ IInv' /\ merged' = merged \cup {Of(c)}
         /\ KeysOf(message'[Of(c)].readings) \subseteq DOMAIN store'
         /\ \A k \in DOMAIN store \cap DOMAIN store' : store'[k].at >= store[k].at
<1> USE DEF contact_vars
<1> DEFINE m == Of(c)
           q == message[m].readings
           p == MergeBatch(store, q).readings
           w == [consumer[c] EXCEPT !.phase = "count", !.forward = forward,
                                    !.readings = IF parsed THEN p ELSE q]
<1>1. /\ Unmerged(c) /\ consumer[c].phase = "dispatch" /\ ~message[m].merged /\ q # <<>>
      /\ Merge(m, MergeBatch(store, q)) /\ message' = Acked(m)
      /\ consumer' = [consumer EXCEPT ![c] = w]
      /\ UNCHANGED <<now, repeated, record_vars, contact_vars>>
  BY DEF WriteAnswered, Unmerged
<1>2. /\ m \in Messages /\ Taking(c) /\ message[m].state = "taken" /\ q \in Seq(Readings)
      /\ Cardinality(KeysOf(q)) <= MaxKeys /\ Numbered(m, q)
  BY <1>1, AtDispatch
<1> HIDE DEF q
<1>3. /\ store' \in Stores /\ newest' \in [Keys -> Past \cup {Never}] /\ NewestIsOfStore'
      /\ merged' = merged \cup {m} /\ legacy' = legacy
      /\ MergedStore(store, q, store') /\ MergedReadings(store, q, p)
      /\ \A k \in DOMAIN store' : store'[k].from # Never => store'[k].from[1] \in merged'
  BY <1>1, <1>2, MergeKeepsStore
<1> HIDE DEF p
<1>4. p \in Seq(Readings) /\ Len(p) = Len(q) /\ Numbered(m, p)
  BY <1>2, <1>3, NumberedBatch
<1>5. /\ w \in Invocations /\ w.phase = "count" /\ w.of = consumer[c].of
      /\ w.readings = IF parsed THEN p ELSE q
  <2>1. consumer[c] \in Invocations
    BY DEF IInv, TypeInv
  <2> QED
    BY <1>2, <1>4, <2>1 DEF Invocations
<1> HIDE DEF w
<1>6. Stays(c) /\ consumer'[c] = w
  BY <1>1, <1>5, PlaceSet DEF IInv
<1>7. Settles(m) /\ message'[m].state = "acked"
  BY <1>1, <1>2, StateSet DEF IInv, Acked
<1>8. OwnSteps(m, w.readings)
  <2> SUFFICES ASSUME m \notin repeated PROVE \A i \in DOMAIN w.readings : OwnStep(w.readings[i])
    BY DEF OwnSteps
  <2>1. m \notin merged
    BY <1>1, <1>2 DEF IInv, DeliveriesOK, MergedOnce, q
  <2>2. \A i \in DOMAIN p : OwnStep(p[i])
    BY <1>2, <1>3, <2>1, MergedSteps
  <2>3. \A i \in DOMAIN q : OwnStep(q[i])
    BY <1>2 DEF IInv, DeliveriesOK, StepsOK, OwnSteps, q
  <2> QED
    BY <1>5, <2>2, <2>3
<1>9. DeliveriesOK'
  <2>1. /\ Len(w.readings) = Len(message[m].readings) /\ Numbered(m, w.readings)
    BY <1>2, <1>4, <1>5 DEF q
  <2> QED
    BY <1>1, <1>3, <1>5, <1>6, <1>7, <1>8, <2>1, Answered
<1>10. StampsBehind' /\ StampOnItsWay'
  BY <1>1, <1>2, <1>5, <1>6, <1>7, LeavesStamp
<1>11. TypeInv'
  BY <1>1, <1>2, <1>3, <1>6, <1>7 DEF IInv, TypeInv, Settles, Stays, record_vars
<1>12. KeysOf(message'[m].readings) \subseteq DOMAIN store'
  BY <1>2, <1>3, <1>7 DEF MergedStore, Settles, q
<1>13. \A k \in DOMAIN store \cap DOMAIN store' : store'[k].at >= store[k].at
  BY <1>3 DEF MergedStore
<1> QED
  BY <1>3, <1>9, <1>10, <1>11, <1>12, <1>13 DEF IInv

LEMMA EndpointReadKeeps ==
  ASSUME IInv, NEW c \in Consumers, NEW parsed \in BOOLEAN, NEW forward \in BOOLEAN,
         EndpointRead(c, parsed, forward)
  PROVE  IInv'
<1> USE DEF contact_vars, store_vars
<1> DEFINE m == Of(c)
           q == message[m].readings
           w == [consumer[c] EXCEPT !.phase = "count", !.forward = forward, !.readings = q]
<1>1. /\ consumer[c].phase = "dispatch" /\ message[m].merged
      /\ message' = Acked(m)
      /\ consumer' = [consumer EXCEPT ![c] = w]
      /\ UNCHANGED <<now, repeated, store_vars, record_vars, contact_vars>>
  BY DEF EndpointRead, Premerged
<1>2. /\ m \in Messages /\ Taking(c) /\ message[m].state = "taken" /\ q \in Seq(Readings)
      /\ Numbered(m, q)
  BY <1>1, AtDispatch
<1> HIDE DEF q
<1>3. /\ w \in Invocations /\ w.phase = "count" /\ w.of = consumer[c].of /\ w.readings = q
  <2>1. consumer[c] \in Invocations
    BY DEF IInv, TypeInv
  <2> QED
    BY <1>2, <2>1 DEF Invocations
<1> HIDE DEF w
<1>4. Stays(c) /\ consumer'[c] = w
  BY <1>1, <1>3, PlaceSet DEF IInv
<1>5. Settles(m) /\ message'[m].state = "acked"
  BY <1>1, <1>2, StateSet DEF IInv, Acked
<1>6. merged' = merged \cup {m}
  BY <1>1, <1>2 DEF IInv, DeliveriesOK, MergedOnce
<1>7. OwnSteps(m, w.readings)
  BY <1>2, <1>3 DEF IInv, DeliveriesOK, StepsOK, q
<1>8. DeliveriesOK'
  <2>1. /\ Len(w.readings) = Len(message[m].readings) /\ Numbered(m, w.readings)
    BY <1>2, <1>3 DEF q
  <2>2. \A k \in DOMAIN store' : store'[k].from # Never => store'[k].from[1] \in merged'
    BY <1>1 DEF IInv, DeliveriesOK, StepsOK
  <2> QED
    BY <1>1, <1>3, <1>4, <1>5, <1>6, <1>7, <2>1, <2>2, Answered
<1>9. StampsBehind' /\ StampOnItsWay'
  BY <1>1, <1>2, <1>3, <1>4, <1>5, LeavesStamp
<1>10. TypeInv' /\ NewestIsOfStore'
  BY <1>1, <1>4, <1>5
     DEF IInv, TypeInv, NewestIsOfStore, StoreHoldsNewest, Settles, Stays, record_vars
<1> QED
  BY <1>8, <1>9, <1>10 DEF IInv

\* What follows the ack records the readings in hand and moves on.
LEMMA Records ==
  ASSUME IInv, NEW c \in Consumers, Recording(c), Stays(c),
         consumer'[c].phase \in {"idle", "store", "alerts"},
         consumer'[c].phase # "idle" => /\ consumer'[c].of = consumer[c].of
                                        /\ consumer'[c].readings = consumer[c].readings,
         UNCHANGED <<now, message, repeated, store_vars, contact_vars>>,
         counted' \in [Messages -> Nat], stored' \in [Messages -> Nat],
         \A n \in Messages : n # Of(c) => counted'[n] = counted[n] /\ stored'[n] = stored[n],
         counted'[Of(c)] <= Len(message[Of(c)].readings),
         stored'[Of(c)] <= Len(message[Of(c)].readings),
         consumer'[c].phase = "store" => stored'[Of(c)] = 0,
         evaluated' \subseteq evaluated \cup Range(consumer[c].readings)
  PROVE  IInv'
<1> USE DEF contact_vars, store_vars
<1> DEFINE m == Of(c)
<1>1. /\ m \in Messages /\ message[m].state = "acked" /\ m \in merged
      /\ \A d \in Consumers : consumer[d].phase # "idle" /\ Of(d) = m => d = c
      /\ \A d \in Consumers : d # c => consumer'[d] = consumer[d] /\ Of(d)' = Of(d)
      /\ consumer'[c].phase # "idle" => Of(c)' = m
  <2>1. consumer[c].phase # "idle"
    BY DEF Recording
  <2> QED
    BY <2>1, AtWork DEF Stays, Of
<1>2. Settles(m)
  BY DEF Settles, IInv, TypeInv
<1>3. \A r \in evaluated' : r \in evaluated \/ (/\ r \in Readings /\ r.id[1] = m
                                                /\ m \notin repeated => OwnStep(r))
  <2> SUFFICES ASSUME NEW i \in DOMAIN consumer[c].readings
               PROVE  LET r == consumer[c].readings[i]
                      IN  r \in Readings /\ r.id[1] = m /\ (m \notin repeated => OwnStep(r))
    BY DEF Range
  <2>1. consumer[c].readings[i] \in Readings
    BY InvocationFacts DEF IInv
  <2>2. consumer[c].readings[i].id = <<m, i>>
    BY DEF IInv, DeliveriesOK, OwnDelivery, Numbered
  <2>3. OwnSteps(m, consumer[c].readings)
    BY DEF IInv, DeliveriesOK, StepsOK
  <2> QED
    BY <2>1, <2>2, <2>3 DEF OwnSteps
<1>4. TypeInv'
  <2>1. evaluated' \subseteq Readings
    BY <1>3 DEF IInv, TypeInv
  <2> QED
    BY <2>1 DEF IInv, TypeInv, Stays
<1>5. NewestIsOfStore'
  BY DEF IInv, NewestIsOfStore, StoreHoldsNewest
<1>6. NothingRecorded'
  <2>1. \A n \in Messages : message'[n].state # "acked" => counted'[n] = 0 /\ stored'[n] = 0
    BY <1>1 DEF IInv, DeliveriesOK, NothingRecorded
  <2>2. \A d \in Consumers : consumer'[d].phase # "idle" /\ d # c =>
          Of(d) \in Messages /\ Of(d) # m
    BY <1>1, AtWork
  <2>3. \A d \in Consumers : consumer'[d].phase = "count" => counted'[Of(d)'] = 0
    BY <1>1, <2>2 DEF IInv, DeliveriesOK, NothingRecorded
  <2>4. \A d \in Consumers : consumer'[d].phase \in {"count", "store"} => stored'[Of(d)'] = 0
    BY <1>1, <2>2 DEF IInv, DeliveriesOK, NothingRecorded
  <2> QED
    BY <2>1, <2>3, <2>4 DEF NothingRecorded
<1>7. RecordedOnce'
  BY <1>1 DEF IInv, DeliveriesOK, RecordedOnce
<1>8. StepsOK'
  <2>1. \A n \in Messages : OwnSteps(n, message[n].readings)'
    BY DEF IInv, DeliveriesOK, StepsOK, OwnSteps
  <2>2. \A d \in Consumers : Recording(d)' => OwnSteps(Of(d), consumer[d].readings)'
    <3> SUFFICES ASSUME NEW d \in Consumers, Recording(d)' PROVE OwnSteps(Of(d), consumer[d].readings)'
      OBVIOUS
    <3>1. Of(d)' = Of(d) /\ consumer'[d].readings = consumer[d].readings /\ Recording(d)
      BY <1>1 DEF Recording
    <3> QED
      BY <3>1 DEF IInv, DeliveriesOK, StepsOK, OwnSteps
  <2> QED
    BY <2>1, <2>2 DEF IInv, DeliveriesOK, StepsOK
<1>9. NoStepFromItself'
  <2> SUFFICES ASSUME NEW r \in evaluated', r.id[1] \notin repeated PROVE OwnStep(r)
    BY DEF NoStepFromItself, OwnStep
  <2>1. CASE r \in evaluated
    BY <2>1 DEF IInv, DeliveriesOK, NoStepFromItself, OwnStep
  <2> QED
    BY <1>3, <2>1
<1>10. \A n \in Messages : ReadingsOK(n)' /\ MergedOnce(n)'
  BY DEF IInv, DeliveriesOK, ReadingsOK, MergedOnce
<1>11. \A d \in Consumers : OwnDelivery(d)'
  <2> SUFFICES ASSUME NEW d \in Consumers PROVE OwnDelivery(d)'
    OBVIOUS
  <2>1. CASE d = c /\ consumer'[c].phase = "idle"
    BY <2>1 DEF OwnDelivery, Taking, Recording
  <2>2. CASE d = c /\ consumer'[c].phase # "idle"
    <3>1. \A b \in Consumers : consumer'[b].phase # "idle" /\ Of(b)' = m => b = c
      BY <1>1
    <3>2. ~Taking(c)' /\ consumer'[c].phase # "stamp" /\ Of(c)' = m
      BY <1>1, <2>2 DEF Taking
    <3>3. /\ Len(consumer'[c].readings) = Len(message[m].readings)
          /\ Numbered(m, consumer'[c].readings)
      BY <2>2 DEF IInv, DeliveriesOK, OwnDelivery
    <3> QED
      BY <1>1, <2>2, <3>1, <3>2, <3>3 DEF OwnDelivery, Numbered
  <2>3. CASE d # c
    BY <1>1, <1>2, <2>3, OthersOwn
  <2> QED
    BY <2>1, <2>2, <2>3
<1>12. StampsBehind' /\ StampOnItsWay'
  <2>1. consumer[c].phase \notin {"idle", "stamp"} /\ consumer'[c].phase # "dispatch"
    BY DEF Recording
  <2> QED
    BY <1>2, <2>1, LeavesStamp
<1> QED
  BY <1>4, <1>5, <1>6, <1>7, <1>8, <1>9, <1>10, <1>11, <1>12 DEF IInv, DeliveriesOK

\* What the consumer has in hand, against what is recorded of it.
LEMMA AtRecord ==
  ASSUME IInv, NEW c \in Consumers, Recording(c)
  PROVE  LET m == Of(c) IN
         /\ m \in Messages /\ counted[m] \in Nat /\ stored[m] \in Nat
         /\ Len(consumer[c].readings) = Len(message[m].readings) /\ Len(message[m].readings) \in Nat
         /\ counted[m] <= Len(message[m].readings) /\ stored[m] <= Len(message[m].readings)
         /\ consumer[c].phase = "count" => counted[m] = 0 /\ stored[m] = 0
         /\ consumer[c].phase = "store" => stored[m] = 0
<1>1. Of(c) \in Messages /\ Len(consumer[c].readings) = Len(message[Of(c)].readings)
  BY DEF IInv, DeliveriesOK, OwnDelivery, Recording
<1>2. Len(message[Of(c)].readings) \in Nat
  BY <1>1, DeliveryFacts DEF IInv
<1> QED
  BY <1>1, <1>2 DEF IInv, TypeInv, DeliveriesOK, RecordedOnce, NothingRecorded

LEMMA Tallied ==
  ASSUME NEW tally \in [Messages -> Nat], NEW m \in Messages, tally[m] = 0,
         NEW most \in Nat, NEW n \in {0, 1}, NEW next, next = [tally EXCEPT ![m] = @ + n * most]
  PROVE  /\ next \in [Messages -> Nat] /\ next[m] <= most
         /\ \A k \in Messages : k # m => next[k] = tally[k]
<1>1. 0 + n * most \in Nat /\ 0 + n * most <= most
  <2>1. CASE n = 0
    BY <2>1
  <2>2. CASE n = 1
    BY <2>2
  <2> QED
    BY <2>1, <2>2
<1>2. next = [tally EXCEPT ![m] = 0 + n * most]
  OBVIOUS
<1> DEFINE sum == 0 + n * most
<1> HIDE DEF sum
<1>3. sum \in Nat /\ sum <= most /\ next = [tally EXCEPT ![m] = sum]
  BY <1>1, <1>2 DEF sum
<1> QED
  BY <1>3

LEMMA CountMessagesKeeps ==
  ASSUME IInv, NEW c \in Consumers, CountMessages(c)
  PROVE  IInv'
<1> DEFINE m == Of(c)
           most == Len(consumer[c].readings)
<1>1. /\ consumer[c].phase = "count" /\ consumer' = Set(c, "store")
      /\ UNCHANGED <<now, message, repeated, stored, evaluated, store_vars, contact_vars>>
  BY DEF CountMessages
<1>2. PICK n \in {0, 1} : counted' = [counted EXCEPT ![m] = @ + n * most]
  BY DEF CountMessages, Lands
<1>3. Recording(c)
  BY <1>1 DEF Recording
<1>4. /\ m \in Messages /\ most = Len(message[m].readings) /\ most \in Nat
      /\ counted[m] = 0 /\ stored[m] = 0
  BY <1>1, <1>3, AtRecord
<1>5. counted \in [Messages -> Nat] /\ stored \in [Messages -> Nat]
  BY DEF IInv, TypeInv
<1> HIDE DEF most
<1>6. /\ counted' \in [Messages -> Nat] /\ counted'[m] <= most
      /\ \A k \in Messages : k # m => counted'[k] = counted[k]
  BY <1>2, <1>4, <1>5, Tallied
<1>7. /\ Stays(c) /\ consumer'[c].phase = "store" /\ consumer'[c].of = consumer[c].of
      /\ consumer'[c].readings = consumer[c].readings
  BY <1>1, PhaseSet DEF IInv
<1> QED
  BY <1>1, <1>3, <1>4, <1>5, <1>6, <1>7, Records

LEMMA StoreHistoryKeeps ==
  ASSUME IInv, NEW c \in Consumers, StoreHistory(c)
  PROVE  IInv'
<1> DEFINE m == Of(c)
           most == Len(consumer[c].readings)
<1>1. /\ consumer[c].phase = "store"
      /\ consumer' = IF consumer[c].forward THEN [consumer EXCEPT ![c] = IdleConsumer]
                     ELSE Set(c, "alerts")
      /\ UNCHANGED <<now, message, repeated, counted, evaluated, store_vars, contact_vars>>
  BY DEF StoreHistory
<1>2. PICK n \in {0, 1} : stored' = [stored EXCEPT ![m] = @ + n * most]
  BY DEF StoreHistory, Lands
<1>3. Recording(c)
  BY <1>1 DEF Recording
<1>4. /\ m \in Messages /\ most = Len(message[m].readings) /\ most \in Nat
      /\ counted[m] <= most /\ stored[m] = 0
  BY <1>1, <1>3, AtRecord
<1>5. counted \in [Messages -> Nat] /\ stored \in [Messages -> Nat]
  BY DEF IInv, TypeInv
<1> HIDE DEF most
<1>6. /\ stored' \in [Messages -> Nat] /\ stored'[m] <= most
      /\ \A k \in Messages : k # m => stored'[k] = stored[k]
  BY <1>2, <1>4, <1>5, Tallied
<1>7. /\ Stays(c) /\ consumer'[c].phase \in {"idle", "alerts"}
      /\ consumer'[c].phase # "idle" => /\ consumer'[c].of = consumer[c].of
                                        /\ consumer'[c].readings = consumer[c].readings
  <2>1. CASE consumer[c].forward
    <3>1. Stays(c) /\ consumer'[c] = IdleConsumer
      BY <1>1, <2>1, Nothing, PlaceSet DEF IInv
    <3> QED
      BY <3>1 DEF IdleConsumer
  <2>2. CASE ~consumer[c].forward
    BY <1>1, <2>2, PhaseSet DEF IInv
  <2> QED
    BY <2>1, <2>2
<1> QED
  BY <1>1, <1>3, <1>4, <1>5, <1>6, <1>7, Records

LEMMA CheckAlertsKeeps ==
  ASSUME IInv, NEW c \in Consumers, CheckAlerts(c)
  PROVE  IInv'
<1>1. /\ consumer[c].phase = "alerts" /\ consumer' = [consumer EXCEPT ![c] = IdleConsumer]
      /\ evaluated' \subseteq evaluated \cup Range(consumer[c].readings)
      /\ UNCHANGED <<now, message, repeated, counted, stored, store_vars, contact_vars>>
  BY DEF CheckAlerts
<1>2. Recording(c)
  BY <1>1 DEF Recording
<1>3. /\ Of(c) \in Messages
      /\ counted[Of(c)] <= Len(message[Of(c)].readings) /\ stored[Of(c)] <= Len(message[Of(c)].readings)
  BY <1>2, AtRecord
<1>4. counted \in [Messages -> Nat] /\ stored \in [Messages -> Nat]
  BY DEF IInv, TypeInv
<1>5. Stays(c) /\ consumer'[c] = IdleConsumer
  BY <1>1, Nothing, PlaceSet DEF IInv
<1>6. consumer'[c].phase = "idle"
  BY <1>5 DEF IdleConsumer
<1> QED
  BY <1>1, <1>2, <1>3, <1>4, <1>5, <1>6, Records

LEMMA StutterKeeps == IInv /\ UNCHANGED vars => IInv'
<1> SUFFICES ASSUME IInv, UNCHANGED vars PROVE IInv'
  OBVIOUS
<1> USE DEF vars, store_vars, record_vars, contact_vars
<1>1. TypeInv' /\ NewestIsOfStore'
  BY DEF IInv, TypeInv, NewestIsOfStore, StoreHoldsNewest
<1>2. DeliveriesOK'
  <2>1. \A k \in DOMAIN store' : store'[k].from # Never => store'[k].from[1] \in merged
    BY DEF IInv, DeliveriesOK, StepsOK
  <2> QED
    BY <2>1, DeliveriesRest
<1>3. StampsBehind' /\ StampOnItsWay'
  BY DEF IInv, StampsBehind, StampOnItsWay, Carries, Of
<1> QED
  BY <1>1, <1>2, <1>3 DEF IInv

\* A step that merges a delivery, and what it does to the store.
KeepsItsOwn ==
  /\ \A m \in merged' \ merged : KeysOf(message'[m].readings) \subseteq DOMAIN store'
  /\ \A k \in DOMAIN store \cap DOMAIN store' : store'[k].at >= store[k].at

LEMMA StoreRests ==
  ASSUME IInv, UNCHANGED store_vars
  PROVE  KeepsItsOwn
<1>1. \A k \in DOMAIN store : store[k].at \in Int
  BY StoreFacts DEF IInv, TypeInv
<1> QED
  BY <1>1 DEF store_vars, KeepsItsOwn

LEMMA ConsumeKeeps ==
  ASSUME IInv, NEW c \in Consumers, Consume(c)
  PROVE  IInv' /\ KeepsItsOwn
<1>1. ASSUME NEW m \in Messages, Take(c, m) PROVE IInv' /\ KeepsItsOwn
  BY <1>1, TakeKeeps, StoreRests DEF Take
<1>2. CASE StampSeen(c)
  BY <1>2, StampSeenKeeps, StoreRests DEF StampSeen
<1>3. CASE DropEmpty(c)
  BY <1>3, DropEmptyKeeps, StoreRests DEF DropEmpty
<1>4. ASSUME NEW parsed \in BOOLEAN, NEW forward \in BOOLEAN, WriteAnswered(c, parsed, forward)
      PROVE  IInv' /\ KeepsItsOwn
  BY <1>4, WriteAnsweredKeeps DEF KeepsItsOwn
<1>5. ASSUME NEW parsed \in BOOLEAN, NEW forward \in BOOLEAN, EndpointRead(c, parsed, forward)
      PROVE  IInv' /\ KeepsItsOwn
  BY <1>5, EndpointReadKeeps, StoreRests DEF EndpointRead
<1>6. CASE WriteUnheard(c)
  BY <1>6, WriteUnheardKeeps DEF KeepsItsOwn
<1>7. CASE CallFails(c)
  BY <1>7, CallFailsKeeps, StoreRests DEF CallFails
<1>8. CASE CountMessages(c)
  BY <1>8, CountMessagesKeeps, StoreRests DEF CountMessages
<1>9. CASE StoreHistory(c)
  BY <1>9, StoreHistoryKeeps, StoreRests DEF StoreHistory
<1>10. CASE CheckAlerts(c)
  BY <1>10, CheckAlertsKeeps, StoreRests DEF CheckAlerts
<1> QED
  BY <1>1, <1>2, <1>3, <1>4, <1>5, <1>6, <1>7, <1>8, <1>9, <1>10 DEF Consume

LEMMA NextKeeps ==
  ASSUME IInv, Next
  PROVE  IInv' /\ KeepsItsOwn
<1>1. CASE Tick
  BY <1>1, TickKeeps, StoreRests DEF Tick
<1>2. ASSUME NEW dropped \in BOOLEAN, Migrate(dropped) PROVE IInv' /\ KeepsItsOwn
  <2>1. merged' = merged
    BY <1>2 DEF Migrate
  <2> QED
    BY <1>2, <2>1, MigrateKeeps DEF KeepsItsOwn
<1>3. ASSUME NEW m \in Messages, NEW body \in Bodies, ReportHttp(m, body) PROVE IInv' /\ KeepsItsOwn
  BY <1>3, ReportHttpKeeps, StoreRests DEF ReportHttp
<1>4. ASSUME NEW m \in Messages, NEW body \in Bodies, ReportObject(m, body) PROVE IInv' /\ KeepsItsOwn
  BY <1>4, ReportObjectKeeps DEF KeepsItsOwn
<1>5. ASSUME NEW m \in Messages, ContactObject(m) PROVE IInv' /\ KeepsItsOwn
  BY <1>5, ContactObjectKeeps, StoreRests DEF ContactObject
<1>6. CASE ContactHttp
  BY <1>6, ContactHttpKeeps, StoreRests DEF ContactHttp
<1>7. ASSUME NEW at \in stamps, StampArrives(at) PROVE IInv' /\ KeepsItsOwn
  BY <1>7, StampArrivesKeeps, StoreRests DEF StampArrives
<1>8. ASSUME NEW c \in Consumers, Consume(c) PROVE IInv' /\ KeepsItsOwn
  BY <1>8, ConsumeKeeps
<1>9. ASSUME NEW c \in Consumers, Killed(c) PROVE IInv' /\ KeepsItsOwn
  BY <1>9, KilledKeeps, StoreRests DEF Killed
<1> QED
  BY <1>1, <1>2, <1>3, <1>4, <1>5, <1>6, <1>7, <1>8, <1>9 DEF Next

LEMMA NextIInv == IInv /\ [Next]_vars => IInv'
BY NextKeeps, StutterKeeps

LEMMA Invariant == Spec => []IInv
BY InitIInv, NextIInv, PTL DEF Spec

----------------------------------------------------------------------------
(* The theorems. *)

\* The variables keep their types: in particular every time a device claims is
\* resolved into the window and every place of a batch into one of its
\* readings, for any batch that is accepted.
THEOREM QueueTypes == Spec => []QueueTypeOK
<1>1. IInv => QueueTypeOK
  <2> SUFFICES ASSUME IInv PROVE QueueTypeOK
    OBVIOUS
  <2>1. IsStore(store)
    BY StoreFacts DEF IInv, TypeInv
  <2>2. \A r \in Readings : IsReading(r)
    BY ReadingFacts, StoreFacts DEF IsReading
  <2>3. ASSUME NEW m \in Messages
        PROVE /\ message[m].state \in {"none", "queued", "taken", "acked", "dead", "lost"}
              /\ message[m].tries \in Nat /\ message[m].merged \in BOOLEAN
              /\ message[m].seen \in Times \cup {Never}
              /\ \A i \in DOMAIN message[m].readings : IsReading(message[m].readings[i])
              /\ counted[m] \in Nat /\ stored[m] \in Nat
    <3>1. message[m] \in Deliveries /\ counted[m] \in Nat /\ stored[m] \in Nat
      BY DEF IInv, TypeInv
    <3>2. \A i \in DOMAIN message[m].readings : message[m].readings[i] \in Readings
      BY DeliveryFacts DEF IInv
    <3> QED
      BY <2>2, <3>1, <3>2 DEF Deliveries
  <2>4. ASSUME NEW c \in Consumers
        PROVE /\ consumer[c].phase \in {"idle", "stamp", "dispatch", "count", "store", "alerts"}
              /\ consumer[c].of \in Messages \cup {Never} /\ consumer[c].forward \in BOOLEAN
              /\ \A i \in DOMAIN consumer[c].readings : IsReading(consumer[c].readings[i])
    <3>1. consumer[c] \in Invocations
      BY DEF IInv, TypeInv
    <3>2. \A i \in DOMAIN consumer[c].readings : consumer[c].readings[i] \in Readings
      BY InvocationFacts DEF IInv
    <3> QED
      BY <2>2, <3>1, <3>2 DEF Invocations
  <2>5. \A r \in evaluated : IsReading(r)
    BY <2>2 DEF IInv, TypeInv
  <2> QED
    BY <2>1, <2>3, <2>4, <2>5 DEF IInv, TypeInv, QueueTypeOK
<1> QED
  BY <1>1, Invariant, PTL

\* The store is within its cap and holds the newest reading of each key merged
\* since the key came into it, whatever was delivered twice, late or dated
\* back, and however often the migration was interrupted.
THEOREM NewestHeld == Spec => []StoreHoldsNewest
<1>1. IInv => StoreHoldsNewest
  BY DEF IInv, NewestIsOfStore
<1> QED
  BY <1>1, Invariant, PTL

\* No step of the system that merges a delivery evicts one of its keys, and
\* none takes an entry of the store back in time.
THEOREM OwnKeysStay == Spec => MergeKeepsItsOwn
<1>1. IInv /\ [Next]_vars => [KeepsItsOwn]_vars
  BY NextKeeps
<1>2. IInv /\ [Next]_vars =>
        [/\ \A m \in merged' \ merged : KeysOf(message'[m].readings) \subseteq DOMAIN store'
         /\ \A k \in DOMAIN store \cap DOMAIN store' : store'[k].at >= store[k].at]_vars
  BY <1>1 DEF KeepsItsOwn
<1> QED
  BY <1>2, Invariant, PTL DEF Spec, MergeKeepsItsOwn

\* Each reading is counted and stored at most once and only once it is merged,
\* through every retry, kill and lost answer of the consumers.
THEOREM NothingTwice == Spec => []RecordedOnce
<1>1. IInv => RecordedOnce
  BY DEF IInv, DeliveriesOK
<1> QED
  BY <1>1, Invariant, PTL

\* No reading that is evaluated has itself, or a later one of its batch, for
\* its previous value, but in a delivery whose write was repeated.
THEOREM StepsBetween == Spec => []NoStepFromItself
<1>1. IInv => NoStepFromItself
  BY DEF IInv, DeliveriesOK
<1> QED
  BY <1>1, Invariant, PTL

\* With no stamp lost or under way the mirror has the object's stamp, and the
\* window it is credited with reaches the last contact.
THEOREM ContactCovered == Spec => []StampCoversContact
<1>1. IInv => StampCoversContact
  <2> SUFFICES ASSUME IInv, contact # Never, ~stampLost, ~Underway PROVE
                 /\ lastSeen = seen
                 /\ ContactUntil(lastSeen, Never) # Never /\ ContactUntil(lastSeen, Never) >= contact
    BY DEF StampCoversContact
  <2>1. lastSeen = seen
    <3>1. stamps = {} /\ \A m \in Messages : ~(message[m].seen # Never /\ message[m].state \in {"queued", "taken"})
      BY DEF Underway
    <3>2. seen # Never
      BY DEF IInv, StampsBehind
    <3> QED
      BY <3>1, <3>2 DEF IInv, StampOnItsWay, Carries
  <2>2. seen \in Int /\ contact \in Int /\ contact - seen <= StampHold /\ seen # Never
    <3>1. seen # Never /\ contact # Never /\ contact - seen <= StampHold
      BY DEF IInv, StampsBehind
    <3> QED
      BY <3>1, Clock DEF IInv
  <2>3. ContactUntil(seen, Never) = seen + StampHold
    <3> DEFINE T == {seen + StampHold, Never}
    <3>1. seen + StampHold \in Int
      BY <2>2, ConnectionAssumption
    <3>2. LatestOf(T) = seen + StampHold
      <4>1. /\ T \subseteq Int \cup {Never} /\ seen + StampHold \in T
            /\ \A u \in T : u # Never => u <= seen + StampHold
        BY <3>1
      <4> HIDE DEF T
      <4> QED
        BY <3>1, <4>1, LatestIs
    <3> QED
      BY <2>2, <3>2 DEF ContactUntil
  <2> QED
    BY <2>1, <2>2, <2>3, ConnectionAssumption
<1> QED
  BY <1>1, Invariant, PTL

==============================================================================
