------------------------- MODULE SemaphoreTheorems -------------------------
(***************************************************************************)
(* What the operations of Semaphore preserve, for any finite set of keys   *)
(* and any limit: the facts  the proofs about the components cite.         *)
(***************************************************************************)
EXTENDS Semaphore, FiniteSetTheorems, TLAPS

(* The components of a well-formed semaphore and their types.              *)
LEMMA Fields ==
  ASSUME NEW keys, NEW s,
         WellFormed(s, keys)
  PROVE  /\ s.limit \in Nat /\ s.held \in Int
         /\ s.running \in SUBSET keys /\ s.pending \in SUBSET keys
         /\ s.ahead \in SUBSET (keys \X keys)
BY DEF WellFormed, IsSemaphore

(* A non-empty set of pending keys has a last one in the heap order: the   *)
(* whole set is popped by the time it is.                                  *)
LEMMA LastOfPending ==
  ASSUME NEW keys, IsFiniteSet(keys), NEW s,
         WellFormed(s, keys),
         NEW T, T \subseteq s.pending, T # {}
  PROVE  \E k \in T : T \subseteq UpTo(s, k)
<1> DEFINE Rest(k) == s.pending \ UpTo(s, k)
           F == {Rest(k) : k \in T}
<1>1. IsFiniteSet(s.pending)
  BY Fields, FS_Subset
<1>2. F \subseteq FiniteSubsetsOf(s.pending) /\ F # {}
  <2>1. \A k \in T : Rest(k) \in SUBSET s.pending
    OBVIOUS
  <2>2. F \subseteq FiniteSubsetsOf(s.pending)
    BY <1>1, <2>1, FS_FiniteSubsetsOfFinite
  <2>3. F # {}
    OBVIOUS
  <2> QED
    BY <2>2, <2>3
<1>3. PICK k0 \in T : \A y \in F : <<y, Rest(k0)>> \notin StrictSubsetOrdering(s.pending)
  <2> HIDE DEF F
  <2>1. \E x \in F : \A y \in F : <<y, x>> \notin StrictSubsetOrdering(s.pending)
    BY <1>2, FS_StrictSubsetOrderingWellFounded, WFMin
  <2> QED
    BY <2>1 DEF F
<1>4. ASSUME NEW j \in T PROVE j \in UpTo(s, k0)
  <2>1. SUFFICES ASSUME j \notin UpTo(s, k0) PROVE FALSE
    OBVIOUS
  <2>2. j \in Tracked(s) /\ k0 \in Tracked(s) /\ s.pending \subseteq Tracked(s)
    BY DEF Tracked
  <2>3. <<k0, j>> \in s.ahead
    BY <2>1, <2>2 DEF WellFormed, Ordered, UpTo
  <2>4. UpTo(s, k0) \subseteq UpTo(s, j)
    BY <2>2, <2>3 DEF WellFormed, Ordered, UpTo
  <2>5. j \in UpTo(s, j)
    BY DEF UpTo
  <2>6. Rest(j) \subseteq Rest(k0) /\ Rest(j) # Rest(k0)
    BY <2>1, <2>4, <2>5
  <2>7. <<Rest(j), Rest(k0)>> \in StrictSubsetOrdering(s.pending)
    BY <2>6 DEF StrictSubsetOrdering
  <2> QED
    BY <1>3, <2>7
<1> QED
  BY <1>4

(* The batch never takes more keys than it may, nor more than the free     *)
(* permits.                                                                *)
LEMMA BatchBound ==
  ASSUME NEW keys, IsFiniteSet(keys), NEW s,
         WellFormed(s, keys),
         NEW allowed, NEW n \in Nat
  PROVE  /\ Batch(s, allowed, n) \subseteq s.pending \cap allowed
         /\ IsFiniteSet(Batch(s, allowed, n))
         /\ Batch(s, allowed, n) # {} =>
              /\ Cardinality(Batch(s, allowed, n)) <= n
              /\ Cardinality(Batch(s, allowed, n)) <= Room(s)
<1> DEFINE B == Batch(s, allowed, n)
<1>1. B \subseteq s.pending \cap allowed
  BY DEF Batch, UpTo
<1>2. IsFiniteSet(s.pending) /\ IsFiniteSet(B)
  BY <1>1, FS_Subset DEF WellFormed
<1>3. ASSUME B # {} PROVE Cardinality(B) <= n /\ Cardinality(B) <= Room(s)
  <2>1. PICK k \in B : B \subseteq UpTo(s, k)
    BY <1>1, <1>3, LastOfPending
  <2>2. UpTo(s, k) \in SUBSET s.pending
    BY DEF UpTo
  <2>3. IsFiniteSet(UpTo(s, k)) /\ Cardinality(UpTo(s, k)) \in Nat
    BY <1>2, <2>2, FS_Subset, FS_CardinalityType
  <2>4. Cardinality(B) <= Cardinality(UpTo(s, k)) /\ Cardinality(B) \in Nat
    BY <1>2, <2>1, <2>3, FS_Subset, FS_CardinalityType
  <2>5. Cardinality(UpTo(s, k)) <= Least(n, Room(s))
    BY <2>1 DEF Batch
  <2>6. Room(s) \in Int
    <3>1. Cardinality(s.pending) \in Int
      BY <1>2, FS_CardinalityType
    <3>2. s.limit \in Int /\ s.held \in Int
      BY Fields
    <3> QED
      BY <3>1, <3>2 DEF Room
  <2> QED
    BY <2>3, <2>4, <2>5, <2>6 DEF Least
<1> QED
  BY <1>1, <1>2, <1>3

(* The cardinality facts the permit arithmetic rests on. *)
LEMMA RunningCardinality ==
  ASSUME NEW keys, IsFiniteSet(keys), NEW s,
         WellFormed(s, keys), NEW set
  PROVE  /\ IsFiniteSet(s.running)
         /\ Cardinality(s.running) \in Nat
         /\ Cardinality(s.running \cap set) \in Nat
         /\ Cardinality(s.running \cap set) <= Cardinality(s.running)
         /\ Cardinality(s.running \ set) =
              Cardinality(s.running) - Cardinality(s.running \cap set)
<1>1. IsFiniteSet(s.running)
  BY Fields, FS_Subset
<1> QED
  BY <1>1, FS_Difference, FS_Intersection, FS_CardinalityType

(* newSemaphore (semaphore.go:22): an empty queue is well formed and holds *)
(* no permit.                                                              *)
LEMMA NewSemaphoreOK ==
  ASSUME NEW keys, NEW limit \in Nat
  PROVE  /\ WellFormed(newSemaphore(limit), keys)
         /\ PermitsMatch(newSemaphore(limit))
<1>1. WellFormed(newSemaphore(limit), keys)
  BY DEF WellFormed, IsSemaphore, Ordered, newSemaphore, Tracked
<1>2. PermitsMatch(newSemaphore(limit))
  BY FS_EmptySet DEF PermitsMatch, newSemaphore, Least
<1> QED
  BY <1>1, <1>2

(* resize (semaphore.go:62): the queue keeps its keys and their order, and *)
(* the new weighted semaphore holds the permits of the running keys it has *)
(* room for.                                                               *)
LEMMA ResizeOK ==
  ASSUME NEW keys, IsFiniteSet(keys), NEW s,
         WellFormed(s, keys), NEW limit \in Nat
  PROVE  /\ WellFormed(resize(s, limit), keys)
         /\ PermitsMatch(resize(s, limit))
<1>1. Cardinality(s.running) \in Nat
  BY RunningCardinality
<1>2. Least(Cardinality(s.running), limit) \in Int
  BY <1>1 DEF Least
<1> DEFINE t == resize(s, limit)
<1>3. WellFormed(t, keys)
  <2>1. /\ t \in [limit : Nat, running : SUBSET keys, pending : SUBSET keys,
                  ahead : SUBSET (keys \X keys), held : Int]
        /\ t.running = s.running /\ t.pending = s.pending /\ t.ahead = s.ahead
    BY <1>2 DEF WellFormed, IsSemaphore, resize
  <2> QED
    BY <2>1 DEF WellFormed, IsSemaphore, Ordered, Tracked
<1>4. PermitsMatch(resize(s, limit))
  BY DEF PermitsMatch, resize, WellFormed, IsSemaphore
<1> QED
  BY <1>3, <1>4

(* A key that occurs in a list has a first occurrence in it. *)
LEMMA FirstOccurrence ==
  ASSUME NEW keys, NEW list \in Seq(keys), NEW i \in DOMAIN list
  PROVE  \E m \in DOMAIN list : list[m] = list[i] /\ \A y \in 1..(m-1) : list[y] # list[i]
<1> DEFINE T == {m \in DOMAIN list : list[m] = list[i]}
           R == OpToRel(<, Nat)
<1>1. T \subseteq Nat /\ T # {}
  OBVIOUS
<1>2. PICK m \in T : \A y \in T : <<y, m>> \notin R
  <2> HIDE DEF T, R
  <2>1. IsWellFoundedOn(R, Nat)
    BY NatLessThanWellFounded DEF R
  <2> QED
    BY <1>1, <2>1, WFMin
<1>3. \A y \in T : ~(y < m)
  BY <1>1, <1>2 DEF OpToRel
<1>4. ASSUME NEW y \in 1..(m-1) PROVE list[y] # list[i]
  <2>1. y \in DOMAIN list /\ y < m
    OBVIOUS
  <2> QED
    BY <1>3, <2>1
<1> QED
  BY <1>4

(* addToQueue (semaphore.go:163): the new keys go behind every tracked     *)
(* key, in the order of the list, and no key changes place.                *)
LEMMA AddToQueueOK ==
  ASSUME NEW keys, NEW s, WellFormed(s, keys),
         NEW list \in Seq(keys)
  PROVE  /\ WellFormed(addToQueue(s, list), keys)
         /\ PermitsMatch(s) => PermitsMatch(addToQueue(s, list))
         /\ addToQueue(s, list).limit = s.limit
         /\ addToQueue(s, list).running = s.running
         /\ s.pending \subseteq addToQueue(s, list).pending
         /\ s.ahead \subseteq addToQueue(s, list).ahead
<1> DEFINE t == addToQueue(s, list)
           new == {list[i] : i \in DOMAIN list} \ Tracked(s)
           First(a, b) == \E i \in DOMAIN list : list[i] = a /\ \A j \in 1..i : list[j] # b
           between == {p \in new \X new : First(p[1], p[2])}
<1>1. new \subseteq keys /\ new \cap Tracked(s) = {}
  OBVIOUS
<1>2. /\ t.limit = s.limit /\ t.running = s.running /\ t.held = s.held
      /\ t.pending = s.pending \cup new
      /\ t.ahead = s.ahead \cup (Tracked(s) \X new) \cup between
      /\ IsSemaphore(t, keys)
  <2>1. Tracked(s) \subseteq keys
    BY Fields DEF Tracked
  <2> HIDE DEF new, First
  <2>2. between \subseteq keys \X keys /\ Tracked(s) \X new \subseteq keys \X keys
    BY <1>1, <2>1
  <2>3. t = [s EXCEPT !.pending = @ \cup new,
                      !.ahead = @ \cup (Tracked(s) \X new) \cup between]
    BY DEF addToQueue, new, First
  <2> HIDE DEF t, between
  <2> QED
    BY <1>1, <2>2, <2>3 DEF WellFormed, IsSemaphore
<1>3. Tracked(t) = Tracked(s) \cup new
  BY <1>2 DEF Tracked
<1>4. \A j, k \in new : First(j, k) <=> j # k /\ ~First(k, j)
  <2>1. ASSUME NEW j \in new PROVE ~First(j, j)
    <3>1. \A i \in DOMAIN list : i \in 1..i
      OBVIOUS
    <3> QED
      BY <3>1
  <2>2. ASSUME NEW j \in new, NEW k \in new, First(j, k), First(k, j) PROVE FALSE
    <3>1. PICK x \in DOMAIN list : list[x] = j /\ \A y \in 1..x : list[y] # k
      BY <2>2
    <3>2. PICK z \in DOMAIN list : list[z] = k /\ \A y \in 1..z : list[y] # j
      BY <2>2
    <3>3. x \in Nat /\ z \in Nat /\ x >= 1 /\ z >= 1
      OBVIOUS
    <3>4. x \in 1..z \/ z \in 1..x
      BY <3>3
    <3> QED
      BY <3>1, <3>2, <3>4
  <2>3. ASSUME NEW j \in new, NEW k \in new, j # k, ~First(k, j) PROVE First(j, k)
    <3>1. PICK i \in DOMAIN list : list[i] = j
      OBVIOUS
    <3>2. PICK m \in DOMAIN list : list[m] = j /\ \A y \in 1..(m-1) : list[y] # j
      <4>1. \E m \in DOMAIN list : list[m] = list[i] /\ \A y \in 1..(m-1) : list[y] # list[i]
        <5> HIDE DEF new, First, between, t
        <5> QED
          BY FirstOccurrence
      <4> QED
        BY <3>1, <4>1
    <3>3. SUFFICES ASSUME NEW z \in 1..m, list[z] = k PROVE FALSE
      BY <3>2
    <3>4. z \in DOMAIN list /\ z # m /\ z \in 1..(m-1)
      BY <2>3, <3>2, <3>3
    <3>5. PICK y \in 1..z : list[y] = j
      BY <2>3, <3>3, <3>4
    <3>6. y \in 1..(m-1)
      BY <3>4
    <3> QED
      BY <3>2, <3>5, <3>6
  <2> QED
    BY <2>1, <2>2, <2>3
<1>5. \A j, k, l \in new : First(j, k) /\ First(k, l) => First(j, l)
  <2>1. SUFFICES ASSUME NEW j \in new, NEW k \in new, NEW l \in new,
                        First(j, k), First(k, l)
                 PROVE  First(j, l)
    OBVIOUS
  <2>2. PICK x \in DOMAIN list : list[x] = j /\ \A y \in 1..x : list[y] # k
    BY <2>1
  <2>3. PICK z \in DOMAIN list : list[z] = k /\ \A y \in 1..z : list[y] # l
    BY <2>1
  <2>4. x \in Nat /\ z \in Nat /\ x >= 1 /\ z >= 1 /\ z \notin 1..x
    BY <2>2, <2>3
  <2>5. 1..x \subseteq 1..z
    BY <2>4
  <2> QED
    BY <2>2, <2>3, <2>5
<1>6. Ordered(t)
  <2> HIDE DEF new, First
  <2> DEFINE NewPair(j, k) == \/ j \in Tracked(s) /\ k \in new
                              \/ j \in new /\ k \in new /\ First(j, k)
  <2>1. \A j, k : <<j, k>> \in t.ahead <=> <<j, k>> \in s.ahead \/ NewPair(j, k)
    <3> HIDE DEF t
    <3> QED
      BY <1>2
  <2>2. s.ahead \subseteq Tracked(s) \X Tracked(s)
    BY DEF WellFormed, Ordered
  <2>3. t.ahead \subseteq Tracked(t) \X Tracked(t)
    BY <1>2, <1>3, <2>2
  <2> HIDE DEF t
  <2>4. \A j, k \in Tracked(s) :
          /\ <<j, k>> \in s.ahead <=> j # k /\ <<k, j>> \notin s.ahead
          /\ \A l \in Tracked(s) :
               <<j, k>> \in s.ahead /\ <<k, l>> \in s.ahead => <<j, l>> \in s.ahead
    BY DEF WellFormed, Ordered
  <2>5. \A j, k : <<j, k>> \in s.ahead => j \in Tracked(s) /\ k \in Tracked(s)
    BY <2>2
  <2>6. ASSUME NEW j \in Tracked(t), NEW k \in Tracked(t)
        PROVE  <<j, k>> \in t.ahead <=> j # k /\ <<k, j>> \notin t.ahead
    <3>1. CASE j \in Tracked(s) /\ k \in Tracked(s)
      BY <1>1, <2>1, <2>4, <3>1
    <3>2. CASE j \in new /\ k \in new
      BY <1>1, <1>4, <2>1, <2>5, <3>2
    <3>3. CASE ~(j \in new <=> k \in new)
      BY <1>1, <1>3, <2>1, <2>5, <3>3
    <3> QED
      BY <1>1, <1>3, <3>1, <3>2, <3>3
  <2>7. ASSUME NEW j \in Tracked(t), NEW k \in Tracked(t), NEW l \in Tracked(t),
               <<j, k>> \in t.ahead, <<k, l>> \in t.ahead
        PROVE  <<j, l>> \in t.ahead
    <3>1. CASE l \in Tracked(s)
      <4>1. j \in Tracked(s) /\ k \in Tracked(s)
        BY <1>1, <2>1, <2>5, <2>7, <3>1
      <4> QED
        BY <1>1, <2>1, <2>4, <2>7, <3>1, <4>1
    <3>2. CASE l \in new /\ j \in Tracked(s)
      BY <2>1, <3>2
    <3>3. CASE l \in new /\ j \in new
      <4>1. k \in new /\ First(j, k) /\ First(k, l)
        BY <1>1, <2>1, <2>5, <2>7, <3>3
      <4> QED
        BY <1>5, <2>1, <3>3, <4>1
    <3> QED
      BY <1>3, <3>1, <3>2, <3>3
  <2> QED
    BY <2>3, <2>6, <2>7 DEF Ordered
<1>7. t.running \cap t.pending = {}
  BY <1>1, <1>2 DEF WellFormed, Tracked
<1> QED
  BY <1>2, <1>6, <1>7 DEF WellFormed, PermitsMatch

(* acquireLatest, called over a prefix of the heap: the batch moves to     *)
(* running, takes the permits it needs and the order stays as it was.      *)
LEMMA AcquireBatchOK ==
  ASSUME NEW keys, IsFiniteSet(keys), NEW s, WellFormed(s, keys),
         PermitsMatch(s), NEW allowed, NEW n \in Nat
  PROVE  LET t == acquireBatch(s, allowed, n)
             batch == Batch(s, allowed, n)
         IN  /\ WellFormed(t, keys) /\ PermitsMatch(t)
             /\ t.limit = s.limit /\ t.ahead = s.ahead
             /\ t.running = s.running \cup batch /\ t.pending = s.pending \ batch
             /\ batch \subseteq s.pending \cap allowed
             /\ batch # {} /\ s.limit # 0 => Cardinality(t.running) <= s.limit
<1> DEFINE t == acquireBatch(s, allowed, n)
           batch == Batch(s, allowed, n)
<1>1. /\ batch \subseteq s.pending \cap allowed /\ IsFiniteSet(batch)
      /\ batch # {} => Cardinality(batch) <= n /\ Cardinality(batch) <= Room(s)
  BY BatchBound
<1>2. Cardinality(batch) \in Nat
  BY <1>1, FS_CardinalityType
<1>3. /\ t.limit = s.limit /\ t.ahead = s.ahead
      /\ t.running = s.running \cup batch /\ t.pending = s.pending \ batch
      /\ t.held = IF s.limit = 0 THEN s.held ELSE s.held + Cardinality(batch)
      /\ IsSemaphore(t, keys)
  <2> DEFINE held == IF s.limit = 0 THEN s.held ELSE s.held + Cardinality(batch)
  <2>1. held \in Int
    BY <1>2, Fields
  <2>2. t = [s EXCEPT !.running = @ \cup batch, !.pending = @ \ batch, !.held = held]
    BY DEF acquireBatch
  <2>3. batch \in SUBSET keys
    BY <1>1, Fields
  <2> HIDE DEF t, batch, held
  <2>4. /\ t.limit = s.limit /\ t.ahead = s.ahead /\ t.held = held
        /\ t.running = s.running \cup batch /\ t.pending = s.pending \ batch
        /\ IsSemaphore(t, keys)
    BY <2>1, <2>2, <2>3 DEF WellFormed, IsSemaphore
  <2> QED
    BY <2>4 DEF held
<1> HIDE DEF t, batch
<1>4. WellFormed(t, keys)
  <2>1. Tracked(t) = Tracked(s)
    BY <1>1, <1>3 DEF Tracked
  <2>2. t.running \cap t.pending = {}
    BY <1>1, <1>3 DEF WellFormed
  <2> QED
    BY <1>3, <2>1, <2>2 DEF WellFormed, Ordered
<1>5. /\ IsFiniteSet(s.running) /\ Cardinality(s.running) \in Nat
      /\ s.limit \in Nat
  BY RunningCardinality, Fields
<1>6. Cardinality(t.running) = Cardinality(s.running) + Cardinality(batch)
  <2>1. s.running \cap batch = {}
    BY <1>1 DEF WellFormed
  <2> QED
    BY <1>1, <1>2, <1>3, <1>5, <2>1, FS_Union, FS_EmptySet
<1>7. PermitsMatch(t) /\ (batch # {} /\ s.limit # 0 => Cardinality(t.running) <= s.limit)
  <2>1. s.held = Least(Cardinality(s.running), s.limit)
    BY DEF PermitsMatch
  <2>2. CASE s.limit = 0
    BY <1>2, <1>3, <1>5, <1>6, <2>1, <2>2 DEF PermitsMatch, Least
  <2>3. CASE s.limit # 0 /\ batch = {}
    <3>1. Cardinality(batch) = 0
      BY <2>3, FS_EmptySet
    <3> QED
      BY <1>3, <1>5, <1>6, <2>1, <2>3, <3>1 DEF PermitsMatch
  <2>4. CASE s.limit # 0 /\ batch # {}
    <3>1. Cardinality(batch) # 0
      BY <1>1, <2>4, FS_EmptySet
    <3>2. Cardinality(batch) <= s.limit - s.held
      BY <1>1, <2>4 DEF Room
    <3>3. /\ s.held = Cardinality(s.running)
          /\ Cardinality(s.running) + Cardinality(batch) <= s.limit
      BY <1>2, <1>5, <2>1, <3>1, <3>2 DEF Least
    <3> QED
      BY <1>2, <1>3, <1>5, <1>6, <2>4, <3>3 DEF PermitsMatch, Least
  <2> QED
    BY <2>2, <2>3, <2>4
<1> QED
  BY <1>1, <1>3, <1>4, <1>7 DEF t, batch

(* What release and requeue share: the permits returned leave exactly      *)
(* those of the remaining running keys.                                    *)
LEMMA VacateOK ==
  ASSUME NEW keys, IsFiniteSet(keys), NEW s, WellFormed(s, keys),
         PermitsMatch(s), NEW set
  PROVE  LET t == vacate(s, set)
         IN  /\ IsSemaphore(t, keys) /\ PermitsMatch(t)
             /\ t.limit = s.limit /\ t.ahead = s.ahead /\ t.pending = s.pending
             /\ t.running = s.running \ set
<1> DEFINE t == vacate(s, set)
           r == Cardinality(s.running)
           n == Cardinality(s.running \cap set)
<1>1. /\ r \in Nat /\ n \in Nat /\ n <= r /\ s.limit \in Nat /\ s.held \in Int
      /\ Cardinality(s.running \ set) = r - n
  BY RunningCardinality, Fields
<1> HIDE DEF r, n
<1>2. Released(r, n, s.limit) \in Int
  BY <1>1 DEF Released
<1> DEFINE held == s.held - Released(r, n, s.limit)
<1>3. t = [s EXCEPT !.running = @ \ set, !.held = held]
  BY DEF vacate, r, n
<1>4. /\ IsSemaphore(t, keys)
      /\ t.limit = s.limit /\ t.ahead = s.ahead /\ t.pending = s.pending
      /\ t.running = s.running \ set
      /\ t.held = s.held - Released(r, n, s.limit)
  <2>1. held \in Int
    BY <1>1, <1>2
  <2> HIDE DEF t, held
  <2>2. /\ IsSemaphore(t, keys)
        /\ t.limit = s.limit /\ t.ahead = s.ahead /\ t.pending = s.pending
        /\ t.running = s.running \ set /\ t.held = held
    BY <1>3, <2>1 DEF WellFormed, IsSemaphore
  <2> QED
    BY <2>2 DEF held
<1> HIDE DEF t
<1>5. PermitsMatch(t)
  <2>1. s.held = Least(r, s.limit)
    BY DEF PermitsMatch, r
  <2>2. t.held = Least(r - n, s.limit)
    BY <1>1, <1>4, <2>1 DEF Released, Least
  <2> QED
    BY <1>1, <1>4, <2>2 DEF PermitsMatch
<1> QED
  BY <1>4, <1>5 DEF t

(* requeue (semaphore.go:129): the keys go back to the heap in the place   *)
(* they were taken from.                                                   *)
LEMMA RequeueOK ==
  ASSUME NEW keys, IsFiniteSet(keys), NEW s, WellFormed(s, keys),
         PermitsMatch(s), NEW set
  PROVE  LET t == requeue(s, set)
         IN  /\ WellFormed(t, keys) /\ PermitsMatch(t)
             /\ t.limit = s.limit /\ t.ahead = s.ahead
             /\ t.running = s.running \ set
             /\ t.pending = s.pending \cup (s.running \cap set)
<1> DEFINE v == vacate(s, set)
           t == requeue(s, set)
<1>1. /\ IsSemaphore(v, keys) /\ PermitsMatch(v)
      /\ v.limit = s.limit /\ v.ahead = s.ahead /\ v.pending = s.pending
      /\ v.running = s.running \ set
  BY VacateOK
<1>2. t = [v EXCEPT !.pending = @ \cup (s.running \cap set)]
  BY DEF requeue
<1> HIDE DEF v, t
<1>3. s.running \in SUBSET keys
  BY Fields
<1>4. /\ IsSemaphore(t, keys)
      /\ t.limit = s.limit /\ t.ahead = s.ahead /\ t.held = v.held
      /\ t.running = s.running \ set
      /\ t.pending = s.pending \cup (s.running \cap set)
  BY <1>1, <1>2, <1>3 DEF IsSemaphore
<1>5. Tracked(t) = Tracked(s) /\ t.running \cap t.pending = {}
  BY <1>4 DEF Tracked, WellFormed
<1>6. PermitsMatch(t)
  BY <1>1, <1>4 DEF PermitsMatch
<1>7. WellFormed(t, keys)
  BY <1>4, <1>5 DEF WellFormed, Ordered
<1> QED
  BY <1>4, <1>6, <1>7 DEF t

(* Dropping keys from the order leaves a strict total order of the others. *)
LEMMA ForgetOK ==
  ASSUME NEW keys, NEW s, NEW u, IsSemaphore(u, keys), Ordered(s),
         NEW gone, u.ahead = s.ahead, Tracked(u) = Tracked(s) \ gone,
         u.running \cap u.pending = {}
  PROVE  LET t == Forget(u, gone)
         IN  /\ WellFormed(t, keys)
             /\ t.limit = u.limit /\ t.held = u.held
             /\ t.running = u.running /\ t.pending = u.pending
             /\ t.ahead = {p \in u.ahead : p[1] \notin gone /\ p[2] \notin gone}
<1> DEFINE t == Forget(u, gone)
           kept == {p \in u.ahead : p[1] \notin gone /\ p[2] \notin gone}
<1>1. t = [u EXCEPT !.ahead = kept]
  BY DEF Forget
<1>2. kept \subseteq u.ahead
  OBVIOUS
<1>3. \A j, k : <<j, k>> \in kept <=> <<j, k>> \in u.ahead /\ j \notin gone /\ k \notin gone
  OBVIOUS
<1>4. kept \subseteq Tracked(u) \X Tracked(u)
  BY DEF Ordered
<1> HIDE DEF t, kept
<1>5. /\ IsSemaphore(t, keys)
      /\ t.limit = u.limit /\ t.held = u.held /\ t.ahead = kept
      /\ t.running = u.running /\ t.pending = u.pending
  BY <1>1, <1>2 DEF IsSemaphore
<1>6. Tracked(t) = Tracked(u)
  BY <1>5 DEF Tracked
<1>7. Ordered(t)
  <2>1. \A j, k \in Tracked(t) : <<j, k>> \in t.ahead <=> <<j, k>> \in s.ahead
    BY <1>3, <1>5, <1>6
  <2>2. \A j \in Tracked(t) : j \in Tracked(s)
    BY <1>6
  <2> QED
    BY <1>4, <1>5, <1>6, <2>1, <2>2 DEF Ordered
<1> QED
  BY <1>5, <1>7 DEF WellFormed, t, kept

(* release (semaphore.go:145): running keys leave the queue and return     *)
(* their permits; pending keys and the order of the rest stay.             *)
LEMMA ReleaseOK ==
  ASSUME NEW keys, IsFiniteSet(keys), NEW s, WellFormed(s, keys),
         PermitsMatch(s), NEW set
  PROVE  LET t == release(s, set)
         IN  /\ WellFormed(t, keys) /\ PermitsMatch(t)
             /\ t.limit = s.limit /\ t.pending = s.pending
             /\ t.running = s.running \ set
             /\ t.ahead = {p \in s.ahead : /\ p[1] \notin s.running \cap set
                                           /\ p[2] \notin s.running \cap set}
<1> DEFINE v == vacate(s, set)
<1>1. /\ IsSemaphore(v, keys) /\ PermitsMatch(v)
      /\ v.limit = s.limit /\ v.ahead = s.ahead /\ v.pending = s.pending
      /\ v.running = s.running \ set
  BY VacateOK
<1> HIDE DEF v
<1>2. Tracked(v) = Tracked(s) \ (s.running \cap set) /\ v.running \cap v.pending = {}
  BY <1>1 DEF Tracked, WellFormed
<1>3. Ordered(s)
  BY DEF WellFormed
<1> DEFINE t == Forget(v, s.running \cap set)
<1>4. /\ WellFormed(t, keys)
      /\ t.limit = v.limit /\ t.held = v.held
      /\ t.running = v.running /\ t.pending = v.pending
      /\ t.ahead = {p \in v.ahead : /\ p[1] \notin s.running \cap set
                                    /\ p[2] \notin s.running \cap set}
  BY <1>1, <1>2, <1>3, ForgetOK
<1>5. PermitsMatch(t)
  BY <1>1, <1>4 DEF PermitsMatch
<1> QED
  BY <1>1, <1>4, <1>5 DEF release, v

(* removeFromQueue (semaphore.go:81): pending keys leave the queue;        *)
(* running keys and the order of the rest stay.                            *)
LEMMA RemoveFromQueueOK ==
  ASSUME NEW keys, NEW s, WellFormed(s, keys),
         PermitsMatch(s), NEW set
  PROVE  LET t == removeFromQueue(s, set)
         IN  /\ WellFormed(t, keys) /\ PermitsMatch(t)
             /\ t.limit = s.limit /\ t.running = s.running
             /\ t.pending = s.pending \ set
             /\ t.ahead = {p \in s.ahead : /\ p[1] \notin s.pending \cap set
                                           /\ p[2] \notin s.pending \cap set}
<1> DEFINE v == [s EXCEPT !.pending = @ \ set]
<1>1. /\ IsSemaphore(v, keys)
      /\ v.limit = s.limit /\ v.ahead = s.ahead /\ v.running = s.running
      /\ v.held = s.held /\ v.pending = s.pending \ set
  BY DEF WellFormed, IsSemaphore
<1> HIDE DEF v
<1>2. Tracked(v) = Tracked(s) \ (s.pending \cap set) /\ v.running \cap v.pending = {}
  BY <1>1 DEF Tracked, WellFormed
<1>3. Ordered(s)
  BY DEF WellFormed
<1> DEFINE t == Forget(v, s.pending \cap set)
<1>4. /\ WellFormed(t, keys)
      /\ t.limit = v.limit /\ t.held = v.held
      /\ t.running = v.running /\ t.pending = v.pending
      /\ t.ahead = {p \in v.ahead : /\ p[1] \notin s.pending \cap set
                                    /\ p[2] \notin s.pending \cap set}
  BY <1>1, <1>2, <1>3, ForgetOK
<1>5. PermitsMatch(t)
  BY <1>1, <1>4 DEF PermitsMatch
<1> QED
  BY <1>1, <1>4, <1>5 DEF removeFromQueue, v

(* A non-empty heap has a head, the only key with nothing ahead of it. *)
LEMMA HeadOfPending ==
  ASSUME NEW keys, IsFiniteSet(keys), NEW s, WellFormed(s, keys), s.pending # {}
  PROVE  \E k \in s.pending : UpTo(s, k) = {k}
<1> DEFINE F == {UpTo(s, k) : k \in s.pending}
<1>1. IsFiniteSet(s.pending)
  BY Fields, FS_Subset
<1>2. F \subseteq FiniteSubsetsOf(s.pending) /\ F # {}
  <2>1. \A k \in s.pending : UpTo(s, k) \in SUBSET s.pending
    BY DEF UpTo
  <2>2. F \subseteq FiniteSubsetsOf(s.pending)
    BY <1>1, <2>1, FS_FiniteSubsetsOfFinite
  <2>3. F # {}
    OBVIOUS
  <2> QED
    BY <2>2, <2>3
<1>3. PICK k0 \in s.pending :
        \A y \in F : <<y, UpTo(s, k0)>> \notin StrictSubsetOrdering(s.pending)
  <2> HIDE DEF F
  <2>1. \E x \in F : \A y \in F : <<y, x>> \notin StrictSubsetOrdering(s.pending)
    BY <1>2, FS_StrictSubsetOrderingWellFounded, WFMin
  <2> QED
    BY <2>1 DEF F
<1>4. ASSUME NEW j \in UpTo(s, k0), j # k0 PROVE FALSE
  <2>1. j \in s.pending /\ <<j, k0>> \in s.ahead
    BY <1>4 DEF UpTo
  <2>2. j \in Tracked(s) /\ k0 \in Tracked(s) /\ s.pending \subseteq Tracked(s)
    BY <2>1 DEF Tracked
  <2>3. k0 \notin UpTo(s, j)
    BY <1>4, <2>1, <2>2 DEF WellFormed, Ordered, UpTo
  <2>4. UpTo(s, j) \subseteq UpTo(s, k0) /\ UpTo(s, j) \subseteq s.pending
    BY <2>1, <2>2 DEF WellFormed, Ordered, UpTo
  <2>5. k0 \in UpTo(s, k0) /\ UpTo(s, k0) \subseteq s.pending
    BY DEF UpTo
  <2>6. <<UpTo(s, j), UpTo(s, k0)>> \in StrictSubsetOrdering(s.pending)
    BY <2>3, <2>4, <2>5 DEF StrictSubsetOrdering
  <2> QED
    BY <1>3, <2>1, <2>6
<1>5. k0 \in UpTo(s, k0)
  BY DEF UpTo
<1> QED
  BY <1>4, <1>5

(* acquireLatest takes the head when there is one and a permit is free,    *)
(* and nothing otherwise.                                                  *)
LEMMA AcquireLatestOK ==
  ASSUME NEW keys, IsFiniteSet(keys), NEW s, WellFormed(s, keys), PermitsMatch(s)
  PROVE  LET t == acquireLatest(s)
             free == s.limit = 0 \/ Cardinality(s.running) < s.limit
         IN  \/ /\ t.pending = s.pending /\ t.running = s.running
                /\ s.pending = {} \/ ~free
             \/ /\ free
                /\ \E k \in s.pending :
                     /\ \A j \in s.pending : <<j, k>> \notin s.ahead
                     /\ t.pending = s.pending \ {k} /\ t.running = s.running \cup {k}
<1> DEFINE t == acquireLatest(s)
           batch == Batch(s, s.pending, 1)
           free == s.limit = 0 \/ Cardinality(s.running) < s.limit
<1>1. /\ t.running = s.running \cup batch /\ t.pending = s.pending \ batch
      /\ batch \subseteq s.pending
  BY AcquireBatchOK DEF acquireLatest
<1>2. /\ IsFiniteSet(batch) /\ IsFiniteSet(s.pending)
      /\ batch # {} => Cardinality(batch) <= 1 /\ Cardinality(batch) <= Room(s)
  <2>1. IsFiniteSet(s.pending)
    BY Fields, FS_Subset
  <2> QED
    BY <2>1, BatchBound
<1>3. /\ Cardinality(s.running) \in Nat /\ s.limit \in Nat
      /\ s.held = Least(Cardinality(s.running), s.limit)
  BY RunningCardinality, Fields DEF PermitsMatch
<1>4. CASE batch = {}
  <2>1. SUFFICES ASSUME s.pending # {}, free PROVE FALSE
    BY <1>1, <1>4
  <2>2. PICK k \in s.pending : UpTo(s, k) = {k}
    BY <2>1, HeadOfPending
  <2>3. Cardinality(UpTo(s, k)) = 1
    BY <2>2, FS_Singleton
  <2>4. Room(s) \in Int /\ Room(s) >= 1
    <3>1. Cardinality(s.pending) \in Nat /\ Cardinality(s.pending) # 0
      BY <1>2, <2>1, FS_CardinalityType, FS_EmptySet
    <3> QED
      BY <1>3, <2>1, <3>1 DEF Room, Least
  <2>5. k \in batch
    BY <2>2, <2>3, <2>4 DEF Batch, Least
  <2> QED
    BY <1>4, <2>5
<1>5. CASE batch # {}
  <2>1. Cardinality(batch) \in Nat /\ Cardinality(batch) # 0
    BY <1>2, <1>5, FS_CardinalityType, FS_EmptySet
  <2>2. Cardinality(batch) = 1 /\ Room(s) >= 1
    <3>1. Cardinality(s.pending) \in Nat
      BY <1>2, FS_CardinalityType
    <3>2. Room(s) \in Int
      BY <1>3, <3>1 DEF Room, Least
    <3> QED
      BY <1>2, <1>5, <2>1, <3>2
  <2>3. PICK k : batch = {k}
    BY <1>2, <2>2, FS_Singleton
  <2>4. free
    BY <1>3, <2>2 DEF Room, Least
  <2>5. Cardinality(UpTo(s, k)) <= 1 /\ k \in UpTo(s, k) /\ UpTo(s, k) \in SUBSET s.pending
    <3>1. k \in batch /\ k \in s.pending
      BY <1>1, <2>3
    <3>2. Cardinality(UpTo(s, k)) <= Least(1, Room(s))
      BY <3>1 DEF Batch
    <3>3. UpTo(s, k) \in SUBSET s.pending /\ k \in UpTo(s, k)
      BY <3>1 DEF UpTo
    <3> QED
      BY <2>2, <3>2, <3>3 DEF Least
  <2>6. \A j \in s.pending : <<j, k>> \notin s.ahead
    <3>1. IsFiniteSet(UpTo(s, k)) /\ Cardinality(UpTo(s, k)) \in Nat
      BY <1>2, <2>5, FS_Subset, FS_CardinalityType
    <3>2. Cardinality(UpTo(s, k)) # 0
      BY <2>5, <3>1, FS_EmptySet
    <3>3. PICK x : UpTo(s, k) = {x}
      BY <2>5, <3>1, <3>2, FS_Singleton
    <3>4. UpTo(s, k) = {k}
      BY <2>5, <3>3
    <3>5. <<k, k>> \notin s.ahead
      BY <2>5 DEF WellFormed, Ordered, Tracked
    <3> QED
      BY <3>4, <3>5 DEF UpTo
  <2> QED
    BY <1>1, <2>3, <2>4, <2>6
<1> QED
  BY <1>4, <1>5

----------------------------------------------------------------------------
(* What an operation leaves of the order: whoever is not taken out keeps   *)
(* its place, and gets nobody in front of it that was not there before.    *)
KeepsPlaces(s, t, gone) ==
  \A j \in Tracked(s) \ gone :
    /\ j \in Tracked(t)
    /\ \A k \in Tracked(t) \ {j} :
         (k \in Tracked(s) => <<j, k>> \in s.ahead) => <<j, k>> \in t.ahead

LEMMA PlacesCompose ==
  ASSUME NEW s, NEW t, NEW u, NEW gone, KeepsPlaces(s, t, gone), KeepsPlaces(t, u, gone)
  PROVE  KeepsPlaces(s, u, gone)
BY DEF KeepsPlaces

(* An operation that moves keys between running and pending at most.       *)
LEMMA SamePlaces ==
  ASSUME NEW s, NEW t, NEW gone, Tracked(t) = Tracked(s), t.ahead = s.ahead
  PROVE  KeepsPlaces(s, t, gone)
BY DEF KeepsPlaces

LEMMA ResizePlaces ==
  ASSUME NEW keys, NEW s, WellFormed(s, keys), NEW limit, NEW gone
  PROVE  KeepsPlaces(s, resize(s, limit), gone)
<1> DEFINE t == resize(s, limit)
<1>1. t.running = s.running /\ t.pending = s.pending /\ t.ahead = s.ahead
  BY DEF resize, WellFormed, IsSemaphore
<1> HIDE DEF t
<1> QED
  BY <1>1, SamePlaces DEF t, Tracked

LEMMA AddToQueuePlaces ==
  ASSUME NEW keys, NEW s, WellFormed(s, keys), NEW list \in Seq(keys), NEW gone
  PROVE  KeepsPlaces(s, addToQueue(s, list), gone)
<1> DEFINE t == addToQueue(s, list)
           new == {list[i] : i \in DOMAIN list} \ Tracked(s)
           First(a, b) == \E i \in DOMAIN list : list[i] = a /\ \A j \in 1..i : list[j] # b
           between == {p \in new \X new : First(p[1], p[2])}
<1>1. /\ t.running = s.running /\ t.pending = s.pending \cup new
      /\ t.ahead = s.ahead \cup (Tracked(s) \X new) \cup between
  <2> HIDE DEF new, First
  <2>1. t = [s EXCEPT !.pending = @ \cup new,
                      !.ahead = @ \cup (Tracked(s) \X new) \cup between]
    BY DEF addToQueue, new, First
  <2> HIDE DEF t, between
  <2> QED
    BY <2>1 DEF WellFormed, IsSemaphore
<1> HIDE DEF t, new, between
<1>2. Tracked(t) = Tracked(s) \cup new
  BY <1>1 DEF Tracked
<1> QED
  BY <1>1, <1>2 DEF KeepsPlaces, t

LEMMA AcquireBatchPlaces ==
  ASSUME NEW keys, IsFiniteSet(keys), NEW s, WellFormed(s, keys),
         PermitsMatch(s), NEW allowed, NEW n \in Nat, NEW gone
  PROVE  KeepsPlaces(s, acquireBatch(s, allowed, n), gone)
<1> DEFINE t == acquireBatch(s, allowed, n)
           batch == Batch(s, allowed, n)
<1>1. /\ t.ahead = s.ahead /\ t.running = s.running \cup batch
      /\ t.pending = s.pending \ batch /\ batch \subseteq s.pending \cap allowed
  BY AcquireBatchOK
<1> HIDE DEF t, batch
<1>2. Tracked(t) = Tracked(s)
  BY <1>1 DEF Tracked
<1> QED
  BY <1>1, <1>2, SamePlaces DEF t

LEMMA RequeuePlaces ==
  ASSUME NEW keys, IsFiniteSet(keys), NEW s, WellFormed(s, keys),
         PermitsMatch(s), NEW set, NEW gone
  PROVE  KeepsPlaces(s, requeue(s, set), gone)
<1> DEFINE t == requeue(s, set)
<1>1. /\ t.ahead = s.ahead /\ t.running = s.running \ set
      /\ t.pending = s.pending \cup (s.running \cap set)
  BY RequeueOK
<1> HIDE DEF t
<1>2. Tracked(t) = Tracked(s)
  BY <1>1 DEF Tracked
<1> QED
  BY <1>1, <1>2, SamePlaces DEF t

LEMMA ReleasePlaces ==
  ASSUME NEW keys, IsFiniteSet(keys), NEW s, WellFormed(s, keys),
         PermitsMatch(s), NEW set, NEW gone, set \subseteq gone
  PROVE  KeepsPlaces(s, release(s, set), gone)
<1> DEFINE t == release(s, set)
<1>1. /\ t.pending = s.pending /\ t.running = s.running \ set
      /\ t.ahead = {p \in s.ahead : /\ p[1] \notin s.running \cap set
                                    /\ p[2] \notin s.running \cap set}
  BY ReleaseOK
<1>2. s.running \cap s.pending = {}
  BY DEF WellFormed
<1> HIDE DEF t
<1> QED
  BY <1>1, <1>2 DEF KeepsPlaces, Tracked, t

LEMMA RemoveFromQueuePlaces ==
  ASSUME NEW keys, NEW s, WellFormed(s, keys),
         PermitsMatch(s), NEW set, NEW gone, set \subseteq gone
  PROVE  KeepsPlaces(s, removeFromQueue(s, set), gone)
<1> DEFINE t == removeFromQueue(s, set)
<1>1. /\ t.running = s.running /\ t.pending = s.pending \ set
      /\ t.ahead = {p \in s.ahead : /\ p[1] \notin s.pending \cap set
                                    /\ p[2] \notin s.pending \cap set}
  BY RemoveFromQueueOK
<1>2. s.running \cap s.pending = {}
  BY DEF WellFormed
<1> HIDE DEF t
<1> QED
  BY <1>1, <1>2 DEF KeepsPlaces, Tracked, t
=============================================================================
