---------------------- MODULE PrioritySemaphore_proofs ----------------------
(* PrioritySemaphore is correct for every finite set of keys and every set *)
(* of limits.                                                              *)
EXTENDS PrioritySemaphore, SemaphoreTheorems

(* The invariants are inductive together: the permit count is preserved    *)
(* because every operation returns or takes exactly the permits of the     *)
(* running keys the limit covers.                                          *)
IInv == TypeOK /\ PermitsMatchRunning

(* A new semaphore (semaphore.go:22) satisfies the inductive invariant.    *)
LEMMA InitIInv == Init => IInv
<1> SUFFICES ASSUME Init PROVE IInv
  OBVIOUS
<1>1. PICK limit \in Limits : sem = newSemaphore(limit)
  BY DEF Init
<1>2. limit \in Nat
  BY SemaphoreAssumption
<1> QED
  BY <1>1, <1>2, NewSemaphoreOK DEF IInv, TypeOK, PermitsMatchRunning

(* Every call of the semaphore keeps the inductive invariant: the permits  *)
(* depend on the order being total, which bounds a batch, and on no key    *)
(* being in two places.                                                    *)
LEMMA NextIInv == IInv /\ [Next]_vars => IInv'
<1> SUFFICES ASSUME IInv, [Next]_vars PROVE IInv'
  OBVIOUS
<1> USE SemaphoreAssumption
<1>1. WellFormed(sem, Keys) /\ PermitsMatch(sem)
  BY DEF IInv, TypeOK, PermitsMatchRunning
<1> SUFFICES WellFormed(sem', Keys) /\ PermitsMatch(sem')
  BY DEF IInv, TypeOK, PermitsMatchRunning
<1>2. CASE AcquireLatest
  <2>1. sem' = acquireBatch(sem, sem.pending, 1)
    BY <1>2 DEF AcquireLatest, acquireLatest
  <2> QED
    BY <1>1, <2>1, AcquireBatchOK
<1>3. ASSUME NEW k \in Keys, AddToQueue(k) PROVE WellFormed(sem', Keys) /\ PermitsMatch(sem')
  <2>1. <<k>> \in Seq(Keys)
    OBVIOUS
  <2> QED
    BY <1>1, <1>3, <2>1, AddToQueueOK DEF AddToQueue
<1>4. ASSUME NEW k \in Keys, Requeue(k) PROVE WellFormed(sem', Keys) /\ PermitsMatch(sem')
  BY <1>1, <1>4, RequeueOK DEF Requeue
<1>5. ASSUME NEW k \in Keys, Release(k) PROVE WellFormed(sem', Keys) /\ PermitsMatch(sem')
  BY <1>1, <1>5, ReleaseOK DEF Release
<1>6. ASSUME NEW k \in Keys, RemoveFromQueue(k)
      PROVE  WellFormed(sem', Keys) /\ PermitsMatch(sem')
  BY <1>1, <1>6, RemoveFromQueueOK DEF RemoveFromQueue
<1>7. ASSUME NEW limit \in Limits, Resize(limit)
      PROVE  WellFormed(sem', Keys) /\ PermitsMatch(sem')
  BY <1>1, <1>7, ResizeOK DEF Resize
<1>8. CASE UNCHANGED vars
  BY <1>1, <1>8 DEF vars
<1> QED
  BY <1>2, <1>3, <1>4, <1>5, <1>6, <1>7, <1>8 DEF Next

(* The semaphore keeps its shape: no key in two places, and one total      *)
(* order of the keys.                                                      *)
THEOREM TypeCorrect == Spec => []TypeOK
<1>1. IInv => TypeOK
  BY DEF IInv
<1> QED
  BY InitIInv, NextIInv, <1>1, PTL DEF Spec

(* The permits of the weighted semaphore are those of the running keys the *)
(* limit covers, through every resize.                                     *)
THEOREM PermitsAlwaysMatch == Spec => []PermitsMatchRunning
<1>1. IInv => PermitsMatchRunning
  BY DEF IInv
<1> QED
  BY InitIInv, NextIInv, <1>1, PTL DEF Spec

(* Two keys never swap places while both are in the queue. *)
THEOREM OrderAlwaysKept == Spec => OrderIsKept
<1> DEFINE Kept == \A p \in sem.ahead :
                     {p[1], p[2]} \subseteq Tracked(sem') => p \in sem'.ahead
<1> USE SemaphoreAssumption
<1>1. IInv /\ Next => Kept
  <2> SUFFICES ASSUME IInv, Next, NEW p \in sem.ahead,
                      p[1] \in Tracked(sem'), p[2] \in Tracked(sem')
               PROVE  p \in sem'.ahead
    OBVIOUS
  <2>0. WellFormed(sem, Keys) /\ PermitsMatch(sem)
    BY DEF IInv, TypeOK, PermitsMatchRunning
  <2>1. CASE AcquireLatest
    <3>1. sem' = acquireBatch(sem, sem.pending, 1)
      BY <2>1 DEF AcquireLatest, acquireLatest
    <3> QED
      BY <2>0, <3>1, AcquireBatchOK
  <2>2. ASSUME NEW k \in Keys, AddToQueue(k) PROVE p \in sem'.ahead
    <3>1. <<k>> \in Seq(Keys)
      OBVIOUS
    <3> QED
      BY <2>0, <2>2, <3>1, AddToQueueOK DEF AddToQueue
  <2>3. ASSUME NEW k \in Keys, Requeue(k) PROVE p \in sem'.ahead
    BY <2>0, <2>3, RequeueOK DEF Requeue
  <2>4. ASSUME NEW k \in Keys, Release(k) PROVE p \in sem'.ahead
    <3>1. /\ sem'.running = sem.running \ {k} /\ sem'.pending = sem.pending
          /\ sem'.ahead = {q \in sem.ahead : /\ q[1] \notin sem.running \cap {k}
                                             /\ q[2] \notin sem.running \cap {k}}
      BY <2>0, <2>4, ReleaseOK DEF Release
    <3> QED
      BY <2>0, <3>1 DEF Tracked, WellFormed
  <2>5. ASSUME NEW k \in Keys, RemoveFromQueue(k) PROVE p \in sem'.ahead
    <3>1. /\ sem'.running = sem.running /\ sem'.pending = sem.pending \ {k}
          /\ sem'.ahead = {q \in sem.ahead : /\ q[1] \notin sem.pending \cap {k}
                                             /\ q[2] \notin sem.pending \cap {k}}
      BY <2>0, <2>5, RemoveFromQueueOK DEF RemoveFromQueue
    <3> QED
      BY <2>0, <3>1 DEF Tracked, WellFormed
  <2>6. ASSUME NEW limit \in Limits, Resize(limit) PROVE p \in sem'.ahead
    BY <2>0, <2>6 DEF Resize, resize, WellFormed, IsSemaphore
  <2> QED
    BY <2>1, <2>2, <2>3, <2>4, <2>5, <2>6 DEF Next
<1>2. IInv /\ [Next]_vars => [Kept]_vars
  BY <1>1
<1> QED
  BY InitIInv, NextIInv, <1>2, PTL DEF Spec, OrderIsKept

(* Every step of the semaphore is a step of the slot pool: in particular   *)
(* acquireLatest admits the first waiter when there is a free slot, and    *)
(* refuses only when there is no waiter or the pool is full.               *)
LEMMA StepRefines == IInv /\ Next => Pool!Next
<1> SUFFICES ASSUME IInv, Next PROVE Pool!Next
  OBVIOUS
<1> USE SemaphoreAssumption
<1>0. /\ WellFormed(sem, Keys) /\ PermitsMatch(sem)
      /\ sem.limit \in Nat /\ sem.running \in SUBSET Keys /\ sem.pending \in SUBSET Keys
      /\ Cardinality(sem.running) \in Nat
  BY Fields, RunningCardinality DEF IInv, TypeOK, PermitsMatchRunning
<1>full. Pool!Full <=> sem.limit # 0 /\ Cardinality(sem.running) >= sem.limit
  <2>1. Pool!Cardinality(sem.running) = Cardinality(sem.running)
    BY DEF Pool!Cardinality, Cardinality, Pool!IsFiniteSet, IsFiniteSet
  <2> QED
    BY <2>1 DEF Pool!Full
<1>1. CASE AcquireLatest
  <2> DEFINE free == sem.limit = 0 \/ Cardinality(sem.running) < sem.limit
  <2>0. sem'.limit = sem.limit /\ sem'.ahead = sem.ahead
    BY <1>0, <1>1, AcquireBatchOK DEF AcquireLatest, acquireLatest
  <2>1. CASE /\ sem'.pending = sem.pending /\ sem'.running = sem.running
             /\ sem.pending = {} \/ ~free
    <3>1. reply' = Refused
      BY <1>1, <2>1 DEF AcquireLatest
    <3>2. Pool!Refuse
      BY <1>0, <1>full, <2>0, <2>1, <3>1 DEF Pool!Refuse
    <3> QED
      BY <3>2 DEF Pool!Next
  <2>2. ASSUME free, NEW k \in sem.pending,
               \A j \in sem.pending : <<j, k>> \notin sem.ahead,
               sem'.pending = sem.pending \ {k}, sem'.running = sem.running \cup {k}
        PROVE  Pool!Next
    <3>1. sem.pending \ sem'.pending = {k} /\ sem'.pending # sem.pending
      BY <2>2
    <3>2. reply' = k
      BY <1>1, <3>1 DEF AcquireLatest
    <3>3. Pool!Admit(k)
      BY <1>0, <1>full, <2>0, <2>2, <3>2 DEF Pool!Admit
    <3> QED
      BY <1>0, <3>3 DEF Pool!Next
  <2>3. sem' = acquireLatest(sem)
    BY <1>1 DEF AcquireLatest
  <2> QED
    BY <1>0, <2>1, <2>2, <2>3, AcquireLatestOK
<1>2. ASSUME NEW k \in Keys, AddToQueue(k) PROVE Pool!Next
  <2> DEFINE new == {<<k>>[i] : i \in DOMAIN <<k>>} \ Tracked(sem)
             First(a, b) == \E i \in DOMAIN <<k>> :
                              <<k>>[i] = a /\ \A j \in 1..i : <<k>>[j] # b
             between == {p \in new \X new : First(p[1], p[2])}
  <2>1. new = {k} \ Tracked(sem)
    OBVIOUS
  <2>2. between = {}
    <3>1. ASSUME NEW p \in new \X new, First(p[1], p[2]) PROVE FALSE
      <4>1. p[1] = k /\ p[2] = k
        BY <2>1
      <4>2. PICK i \in DOMAIN <<k>> : <<k>>[i] = p[1] /\ \A j \in 1..i : <<k>>[j] # p[2]
        BY <3>1
      <4>3. i \in 1..i
        OBVIOUS
      <4> QED
        BY <4>1, <4>2, <4>3
    <3> QED
      BY <3>1
  <2>3. sem' = [sem EXCEPT !.pending = @ \cup new,
                           !.ahead = @ \cup (Tracked(sem) \X new) \cup between]
    BY <1>2 DEF AddToQueue, addToQueue
  <2> HIDE DEF new, between
  <2>4. /\ sem'.limit = sem.limit /\ sem'.running = sem.running
        /\ sem'.pending = sem.pending \cup new
        /\ sem'.ahead = sem.ahead \cup (Tracked(sem) \X new)
    BY <1>0, <2>2, <2>3 DEF WellFormed, IsSemaphore
  <2>5. reply' = Ok
    BY <1>2 DEF AddToQueue
  <2>6. CASE k \in Tracked(sem)
    <3>1. new = {}
      BY <2>1, <2>6
    <3>2. Pool!Answer
      BY <2>4, <2>5, <3>1 DEF Pool!Answer
    <3> QED
      BY <3>2 DEF Pool!Next
  <2>7. CASE k \notin Tracked(sem)
    <3>1. new = {k} /\ Tracked(sem) = sem.pending \cup sem.running
      BY <2>1, <2>7 DEF Tracked
    <3>2. Pool!Join(k)
      BY <2>4, <2>5, <2>7, <3>1 DEF Pool!Join, Pool!Members
    <3> QED
      BY <3>2 DEF Pool!Next
  <2> QED
    BY <2>6, <2>7
<1>3. ASSUME NEW k \in Keys, Requeue(k) PROVE Pool!Next
  <2>1. /\ sem'.limit = sem.limit /\ sem'.ahead = sem.ahead /\ reply' = Ok
        /\ sem'.running = sem.running \ {k}
        /\ sem'.pending = sem.pending \cup (sem.running \cap {k})
    BY <1>0, <1>3, RequeueOK DEF Requeue
  <2>2. CASE k \in sem.running
    <3>1. Pool!GiveBack(k)
      BY <2>1, <2>2 DEF Pool!GiveBack
    <3> QED
      BY <3>1 DEF Pool!Next
  <2>3. CASE k \notin sem.running
    <3>1. Pool!Answer
      BY <2>1, <2>3 DEF Pool!Answer
    <3> QED
      BY <3>1 DEF Pool!Next
  <2> QED
    BY <2>2, <2>3
<1>4. ASSUME NEW k \in Keys, Release(k) \/ RemoveFromQueue(k) PROVE Pool!Next
  <2> DEFINE gone == IF Release(k) THEN sem.running \cap {k} ELSE sem.pending \cap {k}
  <2>1. /\ sem'.limit = sem.limit /\ reply' = Ok
        /\ sem'.running = sem.running \ gone /\ sem'.pending = sem.pending \ gone
        /\ sem'.ahead = {p \in sem.ahead : p[1] \notin gone /\ p[2] \notin gone}
    <3>1. CASE Release(k)
      <4>1. /\ sem'.limit = sem.limit /\ reply' = Ok
            /\ sem'.running = sem.running \ {k} /\ sem'.pending = sem.pending
            /\ sem'.ahead = {p \in sem.ahead : /\ p[1] \notin sem.running \cap {k}
                                               /\ p[2] \notin sem.running \cap {k}}
        BY <1>0, <3>1, ReleaseOK DEF Release
      <4> QED
        BY <1>0, <3>1, <4>1 DEF WellFormed
    <3>2. CASE ~Release(k)
      <4>1. /\ sem'.limit = sem.limit /\ reply' = Ok
            /\ sem'.running = sem.running /\ sem'.pending = sem.pending \ {k}
            /\ sem'.ahead = {p \in sem.ahead : /\ p[1] \notin sem.pending \cap {k}
                                               /\ p[2] \notin sem.pending \cap {k}}
        BY <1>0, <1>4, <3>2, RemoveFromQueueOK DEF RemoveFromQueue
      <4> QED
        BY <1>0, <3>2, <4>1 DEF WellFormed
    <3> QED
      BY <3>1, <3>2
  <2>2. gone = {} \/ (gone = {k} /\ k \in sem.running \cup sem.pending)
    OBVIOUS
  <2> HIDE DEF gone
  <2>3. CASE gone = {}
    <3>1. Pool!Answer
      BY <2>1, <2>3 DEF Pool!Answer
    <3> QED
      BY <3>1 DEF Pool!Next
  <2>4. CASE gone = {k} /\ k \in sem.running \cup sem.pending
    <3>1. Pool!Leave(k)
      BY <2>1, <2>4 DEF Pool!Leave, Pool!Members
    <3> QED
      BY <3>1 DEF Pool!Next
  <2> QED
    BY <2>2, <2>3, <2>4
<1>5. ASSUME NEW limit \in Limits, Resize(limit) PROVE Pool!Next
  <2>1. /\ sem'.limit \in Nat /\ reply' = Ok
        /\ sem'.running = sem.running /\ sem'.pending = sem.pending
        /\ sem'.ahead = sem.ahead
    BY <1>0, <1>5 DEF Resize, resize, WellFormed, IsSemaphore
  <2>2. Pool!Resize
    BY <2>1 DEF Pool!Resize
  <2> QED
    BY <2>2 DEF Pool!Next
<1> QED
  BY <1>1, <1>2, <1>3, <1>4, <1>5 DEF Next

(* The semaphore implements the slot pool. *)
THEOREM SlotPoolImplemented == Spec => ImplementsSlotPool
<1>1. Init => Pool!Init
  BY SemaphoreAssumption DEF Init, newSemaphore, Pool!Init
<1>2. IInv /\ [Next]_vars => [Pool!Next]_(Pool!poolVars)
  BY StepRefines DEF vars, Pool!poolVars
<1> QED
  BY InitIInv, NextIInv, <1>1, <1>2, PTL DEF Spec, ImplementsSlotPool, Pool!Spec
=============================================================================
