-------------------------- MODULE QueueManager_proofs --------------------------
(***************************************************************************)
(* Proofs about the queue Manager, for every set of keys and owners, any   *)
(* number of workers and all limits and lists.  Its properties relate the  *)
(* queue, the admissions, the claims and the leases, and none of them is   *)
(* inductive alone: ManagerIInv joins what AdmissionsTheorems shows of the        *)
(* manager's record with what the leases say of it.                        *)
(***************************************************************************)
EXTENDS QueueManager, AdmissionsTheorems

Lease == [owner : Owners, cands : SUBSET Keys, attempts : SUBSET (Keys \X UIDs)]

Working(ls, w) == ls[w] \notin {NoLease, Stale}

\* A working lease is of a busy admission, one for each, and the candidates
\* the owner still claims hold their slots.
LeasesMatch(m, ls) ==
  /\ ls \in [Workers -> Lease \cup {NoLease, Stale}]
  /\ \A w \in Workers : Working(ls, w) => Busy(m, ls[w].owner)
  /\ \A v, w \in Workers :
       Working(ls, v) /\ Working(ls, w) /\ ls[v].owner = ls[w].owner => v = w
  /\ \A o \in Owners : Busy(m, o) => \E w \in Workers : Working(ls, w) /\ ls[w].owner = o
  /\ \A w \in Workers : Working(ls, w) =>
       \A k \in ls[w].cands : m.claims[k] = ls[w].owner => Holds(m, k)

ManagerIInv ==
  /\ Consistent(mgr)
  /\ \A o \in Owners : Swept(mgr, o)
  /\ LeasesMatch(mgr, leases)

\* What a step does about the handoffs that are done, and nobody works on.
HandoffsStay(m, n) ==
  \A o \in Owners :
    Settled(m, o) /\ ~Busy(m, o) /\ n.admissions[o] # NoAdmission => Settled(n, o)

\* What is shown of each step.
Proper == ManagerIInv' /\ TakesInOrder(mgr, mgr') /\ HandoffsStay(mgr, mgr')

----------------------------------------------------------------------------
LEMMA LeaseIsSome == NoLease \notin Lease /\ Stale \notin Lease /\ NoLease # Stale
BY QueueManagerAssumption DEF IsLease, Lease

LEMMA WorkingIsLease ==
  ASSUME NEW m, NEW ls, LeasesMatch(m, ls), NEW w \in Workers, Working(ls, w)
  PROVE  ls[w] \in Lease /\ ls[w].owner \in Owners /\ ls[w].cands \in SUBSET Keys
BY DEF LeasesMatch, Working, Lease

(* No lease goes stale in a step that keeps the batches in flight.         *)
LEMMA LeasesKept ==
  ASSUME NEW m, NEW n, NEW ls, LeasesMatch(m, ls), KeepsBatches(m, n)
  PROVE  LeasesMatch(n, ls) /\ StillCurrent(n, ls) = ls
<1>1. ASSUME NEW w \in Workers, Working(ls, w)
      PROVE  /\ ls[w].owner \in Owners /\ ls[w].cands \in SUBSET Keys
             /\ Busy(m, ls[w].owner) /\ Busy(n, ls[w].owner)
  <2>1. ls[w].owner \in Owners /\ ls[w].cands \in SUBSET Keys
    BY <1>1, WorkingIsLease
  <2>2. Busy(m, ls[w].owner)
    BY <1>1 DEF LeasesMatch
  <2> QED
    BY <2>1, <2>2 DEF KeepsBatches
<1>2. ASSUME NEW w \in Workers, Working(ls, w),
             NEW k \in ls[w].cands, n.claims[k] = ls[w].owner
      PROVE  Holds(n, k)
  <2>1. k \in Keys /\ ls[w].owner \in Owners /\ Busy(m, ls[w].owner)
    BY <1>1, <1>2
  <2>2. m.claims[k] = ls[w].owner /\ (Holds(m, k) => Holds(n, k))
    BY <1>2, <2>1 DEF KeepsBatches
  <2>3. Holds(m, k)
    BY <1>2, <2>2 DEF LeasesMatch
  <2> QED
    BY <2>2, <2>3
<1>3. \A o \in Owners : Busy(n, o) => \E w \in Workers : Working(ls, w) /\ ls[w].owner = o
  BY DEF LeasesMatch, KeepsBatches
<1>4. LeasesMatch(n, ls)
  <2>1. /\ ls \in [Workers -> Lease \cup {NoLease, Stale}]
        /\ \A v, w \in Workers :
             Working(ls, v) /\ Working(ls, w) /\ ls[v].owner = ls[w].owner => v = w
    BY DEF LeasesMatch
  <2> QED
    BY <1>1, <1>2, <1>3, <2>1 DEF LeasesMatch
<1>5. \A w \in Workers : Working(ls, w) => n.admissions[ls[w].owner] # NoAdmission
  BY <1>1 DEF Busy
<1>6. StillCurrent(n, ls) = [w \in Workers |-> ls[w]]
  BY <1>5 DEF StillCurrent, Working
<1>7. ls = [w \in Workers |-> ls[w]]
  BY DEF LeasesMatch
<1> QED
  BY <1>4, <1>6, <1>7

(* A method that keeps the batches in flight and leaves nothing spent.     *)
LEMMA MethodOK ==
  ASSUME ManagerIInv, Consistent(mgr'), KeepsBatches(mgr, mgr'),
         \A o \in Owners : Swept(mgr', o),
         TakesInOrder(mgr, mgr'), HandoffsStay(mgr, mgr'),
         leases' = leases \/ leases' = StillCurrent(mgr', leases)
  PROVE  Proper
<1>1. LeasesMatch(mgr', leases) /\ StillCurrent(mgr', leases) = leases
  BY LeasesKept DEF ManagerIInv
<1>2. leases' = leases
  BY <1>1
<1>3. LeasesMatch(mgr', leases')
  BY <1>1, <1>2
<1>4. ManagerIInv'
  BY <1>3 DEF ManagerIInv
<1> QED
  BY <1>4 DEF Proper

LEMMA KeepsImplies ==
  ASSUME NEW m, NEW n, Keeps(m, n)
  PROVE  KeepsBatches(m, n) /\ HandoffsStay(m, n)
BY DEF Keeps, HandoffsStay

LEMMA TakesNoneInOrder ==
  ASSUME NEW m, NEW n, TakesNone(m, n)
  PROVE  TakesInOrder(m, n)
BY DEF TakesNone, TakesInOrder

LEMMA StutterOK ==
  ASSUME ManagerIInv, UNCHANGED mgr, UNCHANGED leases
  PROVE  Proper
<1>1. /\ Keeps(mgr, mgr') /\ TakesNone(mgr, mgr')
      /\ Consistent(mgr') /\ \A o \in Owners : Swept(mgr', o)
  BY KeepsReflexive DEF ManagerIInv
<1> QED
  BY <1>1, KeepsImplies, TakesNoneInOrder, MethodOK

----------------------------------------------------------------------------
(* One lemma per method.                                                   *)
LEMMA SemaphoreStep ==
  ASSUME ManagerIInv, NEW limit \in Nat, mgr' = getSemaphore(mgr, limit), UNCHANGED leases
  PROVE  Proper
<1>1. Consistent(mgr)
  BY DEF ManagerIInv
<1>2. /\ Consistent(mgr') /\ mgr'.admissions = mgr.admissions
      /\ Keeps(mgr, mgr') /\ TakesNone(mgr, mgr')
  BY <1>1, GetSemaphoreOK
<1>3. \A o \in Owners : Swept(mgr', o)
  BY <1>2 DEF Swept, ManagerIInv
<1> QED
  BY <1>2, <1>3, KeepsImplies, TakesNoneInOrder, MethodOK

LEMMA AcquireNothingStep ==
  ASSUME ManagerIInv, NEW owner, NEW mode, NEW limit \in Nat,
         AcquireNothing(owner, mode, limit) \/ AcquireRefused(owner, mode, limit)
  PROVE  Proper
<1>1. \/ UNCHANGED mgr /\ UNCHANGED leases
      \/ mgr' = getSemaphore(mgr, limit) /\ UNCHANGED leases
  BY DEF AcquireNothing, AcquireRefused, managerVars
<1> QED
  BY <1>1, StutterOK, SemaphoreStep

(* The preparation of AcquireAdmission, for both of its outcomes.          *)
LEMMA PreparationOK ==
  ASSUME ManagerIInv, NEW owner \in Owners, NEW list \in Seq(Keys),
         NEW mode, NEW finishing, NEW limit \in Nat, Admissible(owner, mode)
  PROVE  LET n == prepared(mgr, owner, list, mode, finishing, limit)
         IN  /\ Consistent(n) /\ n.queue # NoQueue
             /\ n.admissions[owner] # NoAdmission
             /\ ~Busy(mgr, owner) /\ Keeps(mgr, n) /\ TakesInOrder(mgr, n)
             /\ \A o \in Owners \ {owner} : Swept(n, o)
<1>2. Consistent(mgr) /\ ~Busy(mgr, owner)
  BY DEF ManagerIInv, Admissible, BeingProcessed, Busy
<1>3. \A o \in Owners : Swept(mgr, o)
  BY DEF ManagerIInv
<1> DEFINE n == prepared(mgr, owner, list, mode, finishing, limit)
<1>4. /\ Consistent(n) /\ n.queue # NoQueue
      /\ n.admissions[owner] # NoAdmission
      /\ Keeps(mgr, n) /\ TakesInOrder(mgr, n)
      /\ \A o \in Owners \ {owner} : Swept(mgr, o) => Swept(n, o)
  BY <1>2, PreparedOK
<1> HIDE DEF n
<1> QED
  BY <1>2, <1>3, <1>4 DEF n

LEMMA AcquireBlockedStep ==
  ASSUME ManagerIInv, NEW owner \in Owners, NEW list \in Seq(Keys),
         NEW mode, NEW finishing, NEW limit \in Nat,
         AcquireBlocked(owner, list, mode, finishing, limit)
  PROVE  Proper
<1> DEFINE n == prepared(mgr, owner, list, mode, finishing, limit)
<1>1. /\ Admissible(owner, mode) /\ Waiting(n.admissions[owner])
      /\ mgr' = n /\ leases' = StillCurrent(mgr', leases)
  BY DEF AcquireBlocked
<1>2. /\ Consistent(n) /\ Keeps(mgr, n) /\ TakesInOrder(mgr, n)
      /\ \A o \in Owners \ {owner} : Swept(n, o)
  BY <1>1, PreparationOK
<1> HIDE DEF n
<1>3. Swept(n, owner)
  BY <1>1 DEF Swept, Spent, Waiting
<1> QED
  BY <1>1, <1>2, <1>3, KeepsImplies, MethodOK

(* The owner becomes busy and its worker the only one with a lease of it.  *)
LEMMA AcquireWorkStep ==
  ASSUME ManagerIInv, NEW w \in Workers, NEW owner \in Owners, NEW list \in Seq(Keys),
         NEW mode, NEW finishing, NEW limit \in Nat,
         AcquireWork(w, owner, list, mode, finishing, limit)
  PROVE  Proper /\ Working(leases', w)
<1> DEFINE n == prepared(mgr, owner, list, mode, finishing, limit)
           self == n.admissions[owner]
           b == [self EXCEPT !.busy = TRUE]
           lease == [owner |-> owner, cands |-> self.reserved,
                     attempts |-> {a \in self.attempts : a[1] \in self.reserved}]
<1>1. /\ leases[w] = NoLease /\ Admissible(owner, mode)
      /\ mgr' = [n EXCEPT !.admissions[owner].busy = TRUE]
      /\ leases' = [StillCurrent(n, leases) EXCEPT ![w] = lease]
  BY DEF AcquireWork
<1>2. /\ Consistent(n) /\ n.queue # NoQueue /\ self # NoAdmission
      /\ ~Busy(mgr, owner) /\ Keeps(mgr, n) /\ TakesInOrder(mgr, n)
      /\ \A o \in Owners \ {owner} : Swept(n, o)
  BY <1>1, PreparationOK
<1> HIDE DEF n
<1>3. LeasesMatch(mgr, leases)
  BY DEF ManagerIInv
<1>4. LeasesMatch(n, leases) /\ StillCurrent(n, leases) = leases
  BY <1>2, <1>3, KeepsImplies, LeasesKept
<1>5. self \in Admission /\ SlotsMatch(self, n.queue) /\ HandsOver(self)
  BY <1>2 DEF Consistent, Typed
<1>6. \A k \in Keys : n.claims[k] = owner <=> k \in self.cands
  BY <1>2 DEF Consistent, ClaimsMatch
<1>7. mgr' = [n EXCEPT !.admissions[owner] = b]
  BY <1>1
<1>8. Settled(n, owner) <=> self.promotion /\ self.done
  BY <1>2 DEF Settled
<1>9. ~Busy(n, owner)
  BY <1>2 DEF Keeps, KeepsBatches
<1> HIDE DEF self
<1>10. /\ b \in Admission /\ b.busy /\ b.promotion = self.promotion /\ b.done = self.done
       /\ b.cands = self.cands /\ b.reserved = self.reserved /\ b.attempts = self.attempts
  BY <1>5 DEF Admission
<1> HIDE DEF b
<1>11. SlotsMatch(b, n.queue) /\ HandsOver(b) /\ ~Spent(b)
  <2>1. SlotsMatch(b, n.queue)
    BY <1>5, <1>10 DEF SlotsMatch
  <2>2. HandsOver(b)
    BY <1>5, <1>10 DEF HandsOver
  <2>3. ~Spent(b)
    BY <1>10 DEF Spent
  <2> QED
    BY <2>1, <2>2, <2>3
<1>12. \A k \in Keys : n.claims[k] = owner <=> k \in b.cands
  BY <1>6, <1>10
<1>13. /\ Consistent(mgr') /\ mgr'.queue = n.queue /\ mgr'.claims = n.claims
       /\ mgr'.admissions[owner] = b /\ b # NoAdmission
       /\ \A o \in Owners \ {owner} : mgr'.admissions[o] = n.admissions[o]
       /\ \A o \in Owners \ {owner} : Swept(n, o) => Swept(mgr', o)
       /\ Swept(mgr', owner)
  <2> DEFINE n2 == [n EXCEPT !.admissions[owner] = b]
  <2>1. b # NoAdmission
    BY <1>10, NoAdmissionIsNone
  <2>2. Consistent(n2)
    BY <1>2, <1>10, <1>11, <1>12, AdmissionChangeOK
  <2>3. n2.queue = n.queue
    BY <1>2, <1>10, <1>11, <1>12, AdmissionChangeOK
  <2>4. n2.claims = n.claims
    BY <1>2, <1>10, <1>11, <1>12, AdmissionChangeOK
  <2>5. n2.admissions = [n.admissions EXCEPT ![owner] = b]
    BY <1>2, <1>10, <1>11, <1>12, AdmissionChangeOK
  <2>6. /\ \A o \in Owners \ {owner} : Swept(n, o) => Swept(n2, o)
        /\ Swept(n2, owner)
    BY <1>2, <1>10, <1>11, <1>12, AdmissionChangeOK
  <2>7. mgr' = n2
    BY <1>7
  <2> HIDE DEF n2
  <2>8. n.admissions \in [Owners -> Admission \cup {NoAdmission}]
    BY <1>2 DEF Consistent, Typed
  <2>9. /\ n2.admissions[owner] = b
        /\ \A o \in Owners \ {owner} : n2.admissions[o] = n.admissions[o]
    BY <2>5, <2>8
  <2> QED
    BY <2>1, <2>2, <2>3, <2>4, <2>6, <2>7, <2>9
<1>14. \A o \in Owners : Swept(mgr', o)
  BY <1>2, <1>13
<1>15. \A k \in Keys : Holds(mgr', k) <=> Holds(n, k)
  BY <1>13 DEF Holds
<1>16. TakesInOrder(mgr, mgr')
  BY <1>2, <1>13, <1>15 DEF TakesInOrder
<1>17. HandoffsStay(mgr, mgr')
  <2> SUFFICES ASSUME NEW o \in Owners, Settled(mgr, o) PROVE Settled(mgr', o)
    BY DEF HandoffsStay
  <2>1. Settled(n, o)
    BY <1>2 DEF Keeps
  <2>2. CASE o = owner
    BY <1>8, <1>10, <1>13, <2>1, <2>2 DEF Settled
  <2>3. CASE o # owner
    BY <1>13, <2>1, <2>3, Zenon DEF Settled
  <2> QED
    BY <2>2, <2>3
<1>18. LeasesMatch(mgr', leases') /\ Working(leases', w)
  <2>1. lease \in Lease /\ lease.owner = owner /\ lease.cands = self.reserved
    BY <1>5 DEF Lease, Admission
  <2> HIDE DEF lease
  <2>2. leases \in [Workers -> Lease \cup {NoLease, Stale}]
    BY <1>3 DEF LeasesMatch
  <2>3. /\ leases' \in [Workers -> Lease \cup {NoLease, Stale}]
        /\ leases'[w] = lease
        /\ \A v \in Workers \ {w} : leases'[v] = leases[v]
    BY <1>1, <1>4, <2>1, <2>2
  <2>4. Working(leases', w) /\ ~Working(leases, w)
    BY <1>1, <2>1, <2>3, LeaseIsSome DEF Working
  <2>5. \A v \in Workers \ {w} : Working(leases', v) <=> Working(leases, v)
    BY <2>3 DEF Working
  <2>6. Busy(mgr', owner)
    BY <1>10, <1>13 DEF Busy
  <2>7. \A o \in Owners \ {owner} : Busy(mgr', o) <=> Busy(n, o)
    BY <1>13, Zenon DEF Busy
  <2>8. \A v \in Workers \ {w} : Working(leases, v) =>
          leases[v].owner \in Owners \ {owner} /\ Busy(mgr', leases[v].owner)
    <3> SUFFICES ASSUME NEW v \in Workers \ {w}, Working(leases, v)
                 PROVE  leases[v].owner \in Owners \ {owner} /\ Busy(mgr', leases[v].owner)
      OBVIOUS
    <3>1. leases[v].owner \in Owners
      BY <1>4, WorkingIsLease
    <3>2. Busy(n, leases[v].owner)
      BY <1>4 DEF LeasesMatch
    <3> QED
      BY <1>9, <2>7, <3>1, <3>2
  <2>9. \A v \in Workers : Working(leases', v) => Busy(mgr', leases'[v].owner)
    BY <2>1, <2>3, <2>5, <2>6, <2>8
  <2>10. \A u, v \in Workers :
           Working(leases', u) /\ Working(leases', v) /\ leases'[u].owner = leases'[v].owner
             => u = v
    <3> SUFFICES ASSUME NEW u \in Workers, NEW v \in Workers, u # v,
                        Working(leases', u), Working(leases', v)
                 PROVE  leases'[u].owner # leases'[v].owner
      OBVIOUS
    <3>1. CASE u = w
      BY <2>1, <2>3, <2>5, <2>8, <3>1
    <3>2. CASE v = w
      BY <2>1, <2>3, <2>5, <2>8, <3>2
    <3>3. CASE u # w /\ v # w
      <4>1. leases'[u] = leases[u] /\ leases'[v] = leases[v]
        BY <2>3, <3>3
      <4>2. Working(leases, u) /\ Working(leases, v)
        BY <2>5, <3>3
      <4> QED
        BY <1>4, <4>1, <4>2 DEF LeasesMatch
    <3> QED
      BY <3>1, <3>2, <3>3
  <2>11. \A o \in Owners : Busy(mgr', o) =>
           \E v \in Workers : Working(leases', v) /\ leases'[v].owner = o
    <3> SUFFICES ASSUME NEW o \in Owners, Busy(mgr', o)
                 PROVE  \E v \in Workers : Working(leases', v) /\ leases'[v].owner = o
      OBVIOUS
    <3>1. CASE o = owner
      BY <2>1, <2>3, <2>4, <3>1
    <3>2. CASE o # owner
      <4>1. PICK v \in Workers : Working(leases, v) /\ leases[v].owner = o
        BY <1>4, <2>7, <3>2 DEF LeasesMatch
      <4>2. v # w
        BY <2>4, <4>1
      <4> QED
        BY <2>3, <2>5, <4>1, <4>2
    <3> QED
      BY <3>1, <3>2
  <2>12. ASSUME NEW v \in Workers, Working(leases', v),
                NEW k \in leases'[v].cands, mgr'.claims[k] = leases'[v].owner
         PROVE  Holds(mgr', k)
    <3>1. CASE v = w
      <4>1. k \in self.reserved
        BY <2>1, <2>3, <2>12, <3>1
      <4> QED
        BY <1>5, <1>13, <4>1 DEF SlotsMatch, Holds
    <3>2. CASE v # w
      <4>1. Working(leases, v) /\ k \in leases[v].cands /\ n.claims[k] = leases[v].owner
        BY <1>13, <2>3, <2>5, <2>12, <3>2
      <4>2. Holds(n, k)
        BY <1>4, <4>1 DEF LeasesMatch
      <4> QED
        BY <1>13, <4>2 DEF Holds
    <3> QED
      BY <3>1, <3>2
  <2> QED
    BY <2>3, <2>4, <2>9, <2>10, <2>11, <2>12 DEF LeasesMatch
<1> QED
  BY <1>13, <1>14, <1>16, <1>17, <1>18 DEF ManagerIInv, Proper

(* The lease is given back and the results recorded; what the other        *)
(* workers lease belongs to other owners.                                  *)
LEMMA FinishAdmissionStep ==
  ASSUME ManagerIInv, NEW w \in Workers, NEW succeeded, NEW gone,
         NEW attempts \in SUBSET (Keys \X UIDs),
         Working(leases, w), FinishAdmission(w, succeeded, gone, attempts)
  PROVE  Proper
<1> DEFINE owner == leases[w].owner
           live == {k \in leases[w].cands : mgr.claims[k] = owner}
           n == recorded(mgr, owner, live, succeeded, gone, attempts)
<1>1. mgr' = n /\ leases' = [StillCurrent(n, leases) EXCEPT ![w] = NoLease]
  BY DEF FinishAdmission
<1>2. /\ Consistent(mgr) /\ LeasesMatch(mgr, leases)
      /\ \A o \in Owners : Swept(mgr, o)
  BY DEF ManagerIInv
<1>3. owner \in Owners /\ leases[w].cands \in SUBSET Keys
  BY <1>2, WorkingIsLease
<1>4. Busy(mgr, owner) /\ mgr.admissions[owner] # NoAdmission
  BY <1>2 DEF LeasesMatch, Busy
<1>5. live \in SUBSET Keys /\ \A k \in live : mgr.claims[k] = owner /\ k \in mgr.queue.running
  BY <1>2, <1>3 DEF LeasesMatch, Holds
<1>6. mgr.queue # NoQueue
  BY <1>2, <1>3, <1>4 DEF Consistent, SlotsMatch
<1> HIDE DEF owner, live
<1>7. /\ Consistent(n) /\ n.queue # NoQueue
      /\ ~Busy(n, owner) /\ Swept(n, owner)
      /\ TakesNone(mgr, n)
      /\ \A o \in Owners \ {owner} :
           /\ n.admissions[o] = mgr.admissions[o]
           /\ Busy(mgr, o) <=> Busy(n, o)
           /\ Swept(mgr, o) => Swept(n, o)
           /\ \A k \in Keys :
                n.claims[k] = o => mgr.claims[k] = o /\ (Holds(mgr, k) => Holds(n, k))
  <2>1. /\ Consistent(n) /\ n.queue # NoQueue
        /\ ~Busy(n, owner) /\ Swept(n, owner)
        /\ TakesNone(mgr, n)
        /\ \A o \in Owners \ {owner} : Spared(mgr, n, o)
    BY <1>2, <1>3, <1>4, <1>5, <1>6, RecordedOK
  <2> HIDE DEF n
  <2> QED
    BY <2>1 DEF Spared
<1> HIDE DEF n
<1>8. leases \in [Workers -> Lease \cup {NoLease, Stale}]
  BY <1>2 DEF LeasesMatch
<1>9. \A v \in Workers \ {w} : Working(leases, v) =>
        /\ leases[v].owner \in Owners \ {owner} /\ leases[v].cands \in SUBSET Keys
        /\ Busy(n, leases[v].owner)
  <2> SUFFICES ASSUME NEW v \in Workers \ {w}, Working(leases, v)
               PROVE  /\ leases[v].owner \in Owners \ {owner}
                      /\ leases[v].cands \in SUBSET Keys
                      /\ Busy(n, leases[v].owner)
    OBVIOUS
  <2>1. leases[v].owner \in Owners /\ leases[v].cands \in SUBSET Keys
    BY <1>2, WorkingIsLease
  <2>2. leases[v].owner # owner
    BY <1>2 DEF LeasesMatch, owner
  <2>3. Busy(mgr, leases[v].owner)
    BY <1>2 DEF LeasesMatch
  <2> QED
    BY <1>7, <2>1, <2>2, <2>3
<1>10. /\ leases' \in [Workers -> Lease \cup {NoLease, Stale}]
       /\ leases'[w] = NoLease
       /\ \A v \in Workers \ {w} : leases'[v] = leases[v]
  <2>1. \A v \in Workers \ {w} : StillCurrent(n, leases)[v] = leases[v]
    <3> SUFFICES ASSUME NEW v \in Workers \ {w} PROVE StillCurrent(n, leases)[v] = leases[v]
      OBVIOUS
    <3>1. Working(leases, v) => n.admissions[leases[v].owner] # NoAdmission
      BY <1>9 DEF Busy
    <3> QED
      BY <3>1 DEF StillCurrent, Working
  <2>2. /\ leases' = [StillCurrent(n, leases) EXCEPT ![w] = NoLease]
        /\ StillCurrent(n, leases) \in [Workers -> Lease \cup {NoLease, Stale}]
    BY <1>1, <1>8 DEF StillCurrent
  <2> QED
    BY <2>1, <2>2
<1>11. ~Working(leases', w) /\ \A v \in Workers \ {w} : Working(leases', v) <=> Working(leases, v)
  BY <1>10 DEF Working
<1>12. LeasesMatch(n, leases')
  <2>1. \A v \in Workers : Working(leases', v) => Busy(n, leases'[v].owner)
    BY <1>9, <1>10, <1>11
  <2>2. \A u, v \in Workers :
          Working(leases', u) /\ Working(leases', v) /\ leases'[u].owner = leases'[v].owner
            => u = v
    <3> SUFFICES ASSUME NEW u \in Workers, NEW v \in Workers,
                        Working(leases', u), Working(leases', v),
                        leases'[u].owner = leases'[v].owner
                 PROVE  u = v
      OBVIOUS
    <3>1. u # w /\ v # w
      BY <1>11
    <3> QED
      BY <1>2, <1>10, <1>11, <3>1 DEF LeasesMatch
  <2>3. \A o \in Owners : Busy(n, o) =>
          \E v \in Workers : Working(leases', v) /\ leases'[v].owner = o
    <3> SUFFICES ASSUME NEW o \in Owners, Busy(n, o)
                 PROVE  \E v \in Workers : Working(leases', v) /\ leases'[v].owner = o
      OBVIOUS
    <3>1. o # owner /\ Busy(mgr, o)
      BY <1>7
    <3>2. PICK v \in Workers : Working(leases, v) /\ leases[v].owner = o
      BY <1>2, <3>1 DEF LeasesMatch
    <3>3. v # w
      BY <3>1, <3>2 DEF owner
    <3> QED
      BY <1>10, <1>11, <3>2, <3>3
  <2>4. ASSUME NEW v \in Workers, Working(leases', v),
               NEW k \in leases'[v].cands, n.claims[k] = leases'[v].owner
        PROVE  Holds(n, k)
    <3>1. v # w /\ Working(leases, v) /\ leases'[v] = leases[v]
      BY <1>10, <1>11, <2>4
    <3>2. leases[v].owner \in Owners \ {owner} /\ k \in Keys
      BY <1>9, <2>4, <3>1
    <3>3. mgr.claims[k] = leases[v].owner /\ (Holds(mgr, k) => Holds(n, k))
      BY <1>7, <2>4, <3>1, <3>2
    <3>4. Holds(mgr, k)
      BY <1>2, <2>4, <3>1, <3>3 DEF LeasesMatch
    <3> QED
      BY <3>3, <3>4
  <2> QED
    BY <1>10, <2>1, <2>2, <2>3, <2>4 DEF LeasesMatch
<1>13. \A o \in Owners : Swept(n, o)
  BY <1>2, <1>7
<1>14. HandoffsStay(mgr, n)
  <2> SUFFICES ASSUME NEW o \in Owners, Settled(mgr, o), ~Busy(mgr, o)
               PROVE  Settled(n, o)
    BY DEF HandoffsStay
  <2>1. n.admissions[o] = mgr.admissions[o]
    BY <1>4, <1>7
  <2> QED
    BY <2>1, Zenon DEF Settled
<1>15. TakesInOrder(mgr, n)
  BY <1>7, TakesNoneInOrder
<1>16. ManagerIInv'
  BY <1>1, <1>7, <1>12, <1>13 DEF ManagerIInv
<1> QED
  BY <1>1, <1>14, <1>15, <1>16 DEF Proper

LEMMA FinishStaleStep ==
  ASSUME ManagerIInv, NEW w \in Workers, FinishStaleAdmission(w)
  PROVE  Proper
<1>1. leases[w] = Stale /\ leases' = [leases EXCEPT ![w] = NoLease] /\ mgr' = mgr
  BY DEF FinishStaleAdmission
<1>2. LeasesMatch(mgr, leases)
  BY DEF ManagerIInv
<1>3. leases \in [Workers -> Lease \cup {NoLease, Stale}]
  BY <1>2 DEF LeasesMatch
<1>4. /\ leases' \in [Workers -> Lease \cup {NoLease, Stale}]
      /\ ~Working(leases', w) /\ ~Working(leases, w)
      /\ \A v \in Workers : v # w => leases'[v] = leases[v]
  BY <1>1, <1>3 DEF Working
<1>5. \A v \in Workers : Working(leases', v) <=> Working(leases, v)
  BY <1>4 DEF Working
<1>6. \A v \in Workers : Working(leases, v) => leases'[v] = leases[v]
  BY <1>4
<1>7. LeasesMatch(mgr, leases')
  BY <1>2, <1>4, <1>5, <1>6 DEF LeasesMatch
<1>8. ManagerIInv'
  BY <1>1, <1>7 DEF ManagerIInv
<1>9. TakesInOrder(mgr, mgr') /\ HandoffsStay(mgr, mgr')
  BY <1>1, KeepsReflexive, TakesNoneInOrder DEF HandoffsStay
<1> QED
  BY <1>8, <1>9 DEF Proper

LEMMA ForgetStep ==
  ASSUME ManagerIInv, NEW owner \in Owners, ForgetAdmission(owner)
  PROVE  Proper
<1> DEFINE n == [mgr EXCEPT !.admissions[owner] = NoAdmission]
<1>1. /\ mgr.admissions[owner] # NoAdmission /\ ~mgr.admissions[owner].busy
      /\ mgr.admissions[owner].cands = {}
      /\ mgr' = n /\ leases' = StillCurrent(mgr', leases)
  BY DEF ForgetAdmission, Forgettable
<1>2. Consistent(mgr) /\ \A o \in Owners : Swept(mgr, o)
  BY DEF ManagerIInv
<1>3. Consistent(n) /\ KeepsBatches(mgr, n) /\ TakesNone(mgr, n)
  BY <1>1, <1>2, ForgottenOK
<1>4. n.admissions = [mgr.admissions EXCEPT ![owner] = NoAdmission]
  BY <1>1, <1>2, ForgottenOK
<1>5. \A o \in Owners : Swept(n, o)
  BY <1>1, <1>2, ForgottenOK
<1> HIDE DEF n
<1>6. mgr.admissions \in [Owners -> Admission \cup {NoAdmission}]
  BY <1>2 DEF Consistent, Typed
<1>7. /\ n.admissions[owner] = NoAdmission
      /\ \A o \in Owners \ {owner} : n.admissions[o] = mgr.admissions[o]
  BY <1>4, <1>6
<1>8. HandoffsStay(mgr, n)
  <2> SUFFICES ASSUME NEW o \in Owners, Settled(mgr, o), n.admissions[o] # NoAdmission
               PROVE  Settled(n, o)
    BY DEF HandoffsStay
  <2>1. n.admissions[o] = mgr.admissions[o]
    BY <1>7
  <2> QED
    BY <2>1, Zenon DEF Settled
<1> QED
  BY <1>1, <1>3, <1>5, <1>8, TakesNoneInOrder, MethodOK

LEMMA RemoveStep ==
  ASSUME ManagerIInv, NEW key \in Keys, RemoveFromQueue(key)
  PROVE  Proper
<1> DEFINE n == removeKey(mgr, key)
<1>1. mgr.queue # NoQueue /\ mgr' = n /\ leases' = StillCurrent(mgr', leases)
  BY DEF RemoveFromQueue
<1>2. Consistent(mgr) /\ \A o \in Owners : Swept(mgr, o)
  BY DEF ManagerIInv
<1>3. /\ Consistent(n) /\ Keeps(mgr, n) /\ TakesNone(mgr, n)
      /\ \A o \in Owners : Swept(n, o)
  BY <1>1, <1>2, RemoveKeyOK
<1> HIDE DEF n
<1> QED
  BY <1>1, <1>3, KeepsImplies, TakesNoneInOrder, MethodOK

LEMMA RemoveAndTakeStep ==
  ASSUME ManagerIInv, NEW key \in Keys, RemoveAndTakeItemFromQueue(key)
  PROVE  Proper
<1> DEFINE m == removeKey(mgr, key)
           n == acquireUnowned(m, 1)
<1>1. mgr.queue # NoQueue /\ mgr' = n /\ leases' = StillCurrent(mgr', leases)
  BY DEF RemoveAndTakeItemFromQueue
<1>2. Consistent(mgr) /\ \A o \in Owners : Swept(mgr, o)
  BY DEF ManagerIInv
<1>3. /\ Consistent(m) /\ m.queue # NoQueue
      /\ Keeps(mgr, m) /\ TakesNone(mgr, m)
      /\ \A o \in Owners : Swept(m, o)
  BY <1>1, <1>2, RemoveKeyOK
<1> HIDE DEF m
<1>4. /\ Consistent(n) /\ n.admissions = m.admissions
      /\ Keeps(m, n) /\ TakesInOrder(m, n)
  BY <1>3, AcquireUnownedOK DEF acquireUnowned
<1> HIDE DEF n
<1>5. Keeps(mgr, n) /\ TakesInOrder(mgr, n)
  BY <1>3, <1>4, KeepsComposes, TakesNoneFirst
<1>6. \A o \in Owners : Swept(n, o)
  BY <1>3, <1>4 DEF Swept
<1> QED
  BY <1>1, <1>4, <1>5, <1>6, KeepsImplies, MethodOK

(* AddListToRunningQueue and AddToPendingQueue, one after the other: the   *)
(* first is the second followed by an acquisition of what it listed.       *)
LEMMA ListingStep ==
  ASSUME ManagerIInv, NEW list \in Seq(Keys), NEW limit \in Nat,
         AddListToRunningQueue(list, limit) \/ AddToPendingQueue(list, limit)
  PROVE  Proper
<1> DEFINE l == getSemaphore(mgr, limit)
           m == listed(l, list)
           n == acquireUnowned(m, limit)
<1>1. (mgr' = n \/ mgr' = m) /\ UNCHANGED leases
  BY DEF AddListToRunningQueue, AddToPendingQueue
<1>2. Consistent(mgr) /\ \A o \in Owners : Swept(mgr, o)
  BY DEF ManagerIInv
<1>3. /\ Consistent(l) /\ l.queue # NoQueue /\ l.admissions = mgr.admissions
      /\ Keeps(mgr, l) /\ TakesNone(mgr, l)
  BY <1>2, GetSemaphoreOK
<1> HIDE DEF l
<1>4. /\ Consistent(m) /\ m.queue # NoQueue /\ m.admissions = l.admissions
      /\ Keeps(l, m) /\ TakesNone(l, m)
  BY <1>2, <1>3, ListedOK
<1> HIDE DEF m
<1>5. /\ Consistent(n) /\ n.admissions = m.admissions
      /\ Keeps(m, n) /\ TakesInOrder(m, n)
  BY <1>2, <1>4, AcquireUnownedOK DEF acquireUnowned
<1> HIDE DEF n
<1>6. Keeps(mgr, m) /\ TakesNone(mgr, m)
  BY <1>3, <1>4, KeepsComposes, TakesNoneComposes
<1>7. Keeps(mgr, n) /\ TakesInOrder(mgr, n)
  BY <1>5, <1>6, KeepsComposes, TakesNoneFirst
<1>8. \A o \in Owners : Swept(m, o) /\ Swept(n, o)
  BY <1>2, <1>3, <1>4, <1>5 DEF Swept
<1>9. CASE mgr' = m
  BY <1>1, <1>4, <1>6, <1>8, <1>9, KeepsImplies, TakesNoneInOrder, MethodOK
<1>10. CASE mgr' = n
  BY <1>1, <1>5, <1>7, <1>8, <1>10, KeepsImplies, MethodOK
<1> QED
  BY <1>1, <1>9, <1>10

(* RemoveRepository and a restart leave nothing: a lease is stale or given *)
(* back.                                                                   *)
LEMMA AnewStep ==
  ASSUME mgr' = NewManager, leases' \in [Workers -> Lease \cup {NoLease, Stale}],
         \A w \in Workers : ~Working(leases', w)
  PROVE  Proper
<1>1. /\ Consistent(mgr') /\ mgr'.queue = NoQueue
      /\ \A o \in Owners : mgr'.admissions[o] = NoAdmission
  BY NewManagerOK
<1>2. /\ \A o \in Owners : Swept(mgr', o) /\ ~Busy(mgr', o)
      /\ \A k \in Keys : ~Holds(mgr', k)
  BY <1>1 DEF Swept, Busy, Holds
<1>3. LeasesMatch(mgr', leases')
  BY <1>2 DEF LeasesMatch
<1>4. TakesInOrder(mgr, mgr') /\ HandoffsStay(mgr, mgr')
  BY <1>1, <1>2 DEF TakesInOrder, HandoffsStay
<1> QED
  BY <1>1, <1>2, <1>3, <1>4 DEF ManagerIInv, Proper

LEMMA RemoveRepositoryStep ==
  ASSUME ManagerIInv, RemoveRepository
  PROVE  Proper
<1>1. mgr' = NewManager /\ leases' = StillCurrent(mgr', leases)
  BY DEF RemoveRepository
<1>2. \A o \in Owners : mgr'.admissions[o] = NoAdmission
  BY <1>1, NewManagerOK
<1>3. leases \in [Workers -> Lease \cup {NoLease, Stale}]
  BY DEF ManagerIInv, LeasesMatch
<1>4. \A w \in Workers : Working(leases, w) => leases[w].owner \in Owners
  BY WorkingIsLease DEF ManagerIInv
<1>5. leases' \in [Workers -> Lease \cup {NoLease, Stale}]
  BY <1>1, <1>3 DEF StillCurrent
<1>6. ASSUME NEW w \in Workers PROVE ~Working(leases', w)
  <2>1. Working(leases, w) => mgr'.admissions[leases[w].owner] = NoAdmission
    BY <1>2, <1>4
  <2>2. leases'[w] = IF Working(leases, w) THEN Stale ELSE leases[w]
    BY <1>1, <2>1 DEF StillCurrent, Working
  <2> QED
    BY <2>2 DEF Working
<1> QED
  BY <1>1, <1>5, <1>6, AnewStep

LEMMA RestartStep ==
  ASSUME Restart
  PROVE  Proper
BY AnewStep DEF Restart, Working

(* Whatever a worker reports names leased candidates and UIDs only.        *)
LEMMA FinishStep ==
  ASSUME ManagerIInv, NEW w \in Workers, FinishAdmissionWith(w)
  PROVE  Proper
<1>1. Working(leases, w)
  BY DEF FinishAdmissionWith, Working
<1>2. leases[w] \in Lease
  BY <1>1, WorkingIsLease DEF ManagerIInv
<1>3. PICK succeeded \in SUBSET Keys, gone \in SUBSET Keys,
           attempts \in SUBSET (Keys \X UIDs) :
        FinishAdmission(w, succeeded, gone, attempts)
  <2>1. PICK outcome \in [leases[w].cands -> {"started", "gone", "attempted", "untried"}],
             uid \in UIDs :
          LET With(o) == {k \in leases[w].cands : outcome[k] = o}
          IN FinishAdmission(w, With("started"), With("gone"),
               leases[w].attempts \cup
                 {<<k, uid>> : k \in {k \in With("attempted") :
                                       \A a \in leases[w].attempts : a[1] # k}})
    BY DEF FinishAdmissionWith
  <2> DEFINE With(o) == {k \in leases[w].cands : outcome[k] = o}
             tried == {k \in With("attempted") : \A a \in leases[w].attempts : a[1] # k}
             attempts == leases[w].attempts \cup {<<k, uid>> : k \in tried}
  <2>2. leases[w].cands \in SUBSET Keys /\ leases[w].attempts \in SUBSET (Keys \X UIDs)
    BY <1>2 DEF Lease
  <2>3. With("started") \in SUBSET Keys /\ With("gone") \in SUBSET Keys
        /\ tried \in SUBSET Keys
    BY <2>2
  <2>4. FinishAdmission(w, With("started"), With("gone"), attempts)
    BY <2>1
  <2> HIDE DEF tried
  <2>5. attempts \in SUBSET (Keys \X UIDs)
    BY <2>2, <2>3
  <2> HIDE DEF With, attempts
  <2> QED
    BY <2>3, <2>4, <2>5
<1> QED
  BY <1>1, <1>3, FinishAdmissionStep

----------------------------------------------------------------------------
(* The invariant holds initially, and every step is Proper.                *)
LEMMA ManagerInitIInv == ManagerInit => ManagerIInv
<1> SUFFICES ASSUME ManagerInit PROVE ManagerIInv
  OBVIOUS
<1>1. mgr = NewManager /\ leases = [w \in Workers |-> NoLease]
  BY DEF ManagerInit
<1>2. /\ Consistent(mgr)
      /\ \A o \in Owners : mgr.admissions[o] = NoAdmission
  BY <1>1, NewManagerOK
<1>3. \A o \in Owners : Swept(mgr, o) /\ ~Busy(mgr, o)
  BY <1>2 DEF Swept, Busy
<1>4. /\ leases \in [Workers -> Lease \cup {NoLease, Stale}]
      /\ \A w \in Workers : ~Working(leases, w)
  BY <1>1 DEF Working
<1>5. LeasesMatch(mgr, leases)
  BY <1>3, <1>4 DEF LeasesMatch
<1> QED
  BY <1>2, <1>3, <1>5 DEF ManagerIInv

LEMMA AcquireStep ==
  ASSUME ManagerIInv, AcquireAdmission
  PROVE  Proper
<1>1. PICK owner \in Owners, mode \in Modes, limit \in Limits :
        \/ AcquireNothing(owner, mode, limit)
        \/ AcquireRefused(owner, mode, limit)
        \/ \E list \in IF mode = Initial THEN Lists ELSE {<<>>},
              finishing \in IF mode = Resume THEN BOOLEAN ELSE {FALSE} :
             \/ AcquireBlocked(owner, list, mode, finishing, limit)
             \/ \E w \in Workers : AcquireWork(w, owner, list, mode, finishing, limit)
  BY DEF AcquireAdmission
<1>2. CASE AcquireNothing(owner, mode, limit) \/ AcquireRefused(owner, mode, limit)
  BY <1>2, QueueManagerAssumption, AcquireNothingStep
<1>3. limit \in Nat
  BY QueueManagerAssumption
<1>4. ASSUME NEW list \in Lists \cup {<<>>}, NEW finishing,
             \/ AcquireBlocked(owner, list, mode, finishing, limit)
             \/ \E w \in Workers : AcquireWork(w, owner, list, mode, finishing, limit)
      PROVE  Proper
  <2>1. <<>> \in Seq(Keys)
    OBVIOUS
  <2>2. list \in Seq(Keys)
    BY <2>1, QueueManagerAssumption
  <2> QED
    BY <1>3, <1>4, <2>2, AcquireBlockedStep, AcquireWorkStep
<1> QED
  BY <1>1, <1>2, <1>3, <1>4

LEMMA ManagerNextIInv == ManagerIInv /\ [ManagerNext]_managerVars => Proper
<1> SUFFICES ASSUME ManagerIInv, [ManagerNext]_managerVars PROVE Proper
  OBVIOUS
<1>1. CASE AcquireAdmission
  BY <1>1, AcquireStep
<1>2. ASSUME NEW w \in Workers, FinishAdmissionWith(w) \/ FinishStaleAdmission(w)
      PROVE  Proper
  BY <1>2, FinishStep, FinishStaleStep
<1>3. ASSUME NEW owner \in Owners, ForgetAdmission(owner) PROVE Proper
  BY <1>3, ForgetStep
<1>4. ASSUME NEW key \in Keys, RemoveFromQueue(key) \/ RemoveAndTakeItemFromQueue(key)
      PROVE  Proper
  BY <1>4, RemoveStep, RemoveAndTakeStep
<1>5. ASSUME NEW list \in Lists, NEW limit \in Limits,
             AddListToRunningQueue(list, limit) \/ AddToPendingQueue(list, limit)
      PROVE  Proper
  BY <1>5, QueueManagerAssumption, ListingStep
<1>6. CASE RemoveRepository
  BY <1>6, RemoveRepositoryStep
<1>7. CASE Restart
  BY <1>7, RestartStep
<1>8. CASE UNCHANGED managerVars
  BY <1>8, StutterOK DEF managerVars
<1> QED
  BY <1>1, <1>2, <1>3, <1>4, <1>5, <1>6, <1>7, <1>8 DEF ManagerNext

LEMMA Invariance == ManagerSpec => []ManagerIInv
<1>1. ManagerIInv /\ [ManagerNext]_managerVars => ManagerIInv'
  BY ManagerNextIInv DEF Proper
<1> QED
  BY ManagerInitIInv, <1>1, PTL DEF ManagerSpec

LEMMA EveryStep == ManagerSpec => [][Proper]_managerVars
<1>1. ManagerIInv /\ [ManagerNext]_managerVars => [Proper]_managerVars
  BY ManagerNextIInv
<1> QED
  BY Invariance, <1>1, PTL DEF ManagerSpec

----------------------------------------------------------------------------
(* What the inductive invariant says of the manager's state.               *)
LEMMA AccountsAgree == ManagerIInv => SlotsAreAccounted /\ ClaimsAreCandidates
<1> SUFFICES ASSUME ManagerIInv PROVE SlotsAreAccounted /\ ClaimsAreCandidates
  OBVIOUS
<1>1. Consistent(mgr) /\ Typed(mgr) /\ \A o \in Owners : Swept(mgr, o)
  BY DEF ManagerIInv, Consistent
<1>2. ManagerTypeOK
  <2>1. DOMAIN mgr = {"queue", "admissions", "claims"}
    BY <1>1 DEF Typed
  <2>2. /\ mgr.queue = NoQueue \/ WellFormed(mgr.queue, Keys)
        /\ DOMAIN mgr.admissions = Owners
        /\ mgr.claims \in [Keys -> Owners \cup {NoOwner}]
    BY <1>1 DEF Typed, Sound
  <2>3. \A o \in Owners : mgr.admissions[o] = NoAdmission \/ IsAdmission(mgr.admissions[o])
    BY <1>1, AdmissionIsTyped DEF Typed
  <2>4. leases \in [Workers -> Lease \cup {NoLease, Stale}]
    BY DEF ManagerIInv, LeasesMatch
  <2>5. DOMAIN leases = Workers
        /\ \A w \in Workers : leases[w] \in {NoLease, Stale} \/ IsLease(leases[w])
    BY <2>4 DEF IsLease, Lease
  <2> QED
    BY <2>1, <2>2, <2>3, <2>5 DEF ManagerTypeOK
<1>3. PermitsMatchRunning
  BY <1>1 DEF Typed, Sound, PermitsMatchRunning
<1>4. CandidatesHoldTheirSlots
  BY <1>1 DEF Consistent, SlotsMatch, CandidatesHoldTheirSlots, Live
<1>5. NoFinishedBatchIsKept
  BY <1>1 DEF Swept, Spent, NoFinishedBatchIsKept, Live
<1>6. ClaimsAreCandidates
  BY <1>1 DEF Consistent, ClaimsMatch, ClaimsAreCandidates, Live
<1> QED
  BY <1>2, <1>3, <1>4, <1>5, <1>6 DEF SlotsAreAccounted

LEMMA LeasesAgree == ManagerIInv => LeasedCandidatesRun /\ OneWorkerPerAdmission
<1> SUFFICES ASSUME ManagerIInv PROVE LeasedCandidatesRun /\ OneWorkerPerAdmission
  OBVIOUS
<1>1. LeasesMatch(mgr, leases)
  BY DEF ManagerIInv
<1>2. LeasedCandidatesRun
  BY <1>1 DEF LeasesMatch, Working, Holds, LeasedCandidatesRun
<1>3. ASSUME NEW o \in Owners
      PROVE  Cardinality(Leased(o)) = IF o \in Live /\ mgr.admissions[o].busy THEN 1 ELSE 0
  <2>1. Leased(o) = {w \in Workers : Working(leases, w) /\ leases[w].owner = o}
    BY DEF Leased, Working
  <2>2. Busy(mgr, o) <=> o \in Live /\ mgr.admissions[o].busy
    BY DEF Busy, Live
  <2>3. CASE Busy(mgr, o)
    <3>1. PICK w \in Workers : Working(leases, w) /\ leases[w].owner = o
      BY <1>1, <2>3 DEF LeasesMatch
    <3>2. \A v \in Leased(o) : v = w
      BY <1>1, <2>1, <3>1 DEF LeasesMatch
    <3>3. Leased(o) = {w}
      BY <2>1, <3>1, <3>2
    <3>4. Cardinality(Leased(o)) = 1
      BY <3>3, FS_Singleton
    <3> QED
      BY <2>2, <2>3, <3>4
  <2>4. CASE ~Busy(mgr, o)
    <3>1. Leased(o) = {}
      BY <1>1, <2>1, <2>4 DEF LeasesMatch
    <3>2. Cardinality(Leased(o)) = 0
      BY <3>1, FS_EmptySet
    <3> QED
      BY <2>2, <2>4, <3>2
  <2> QED
    BY <2>3, <2>4
<1> QED
  BY <1>2, <1>3 DEF OneWorkerPerAdmission

(* The permits, the running keys and the admissions' candidates agree      *)
(* between any two calls, for every use of the manager.                    *)
THEOREM SlotsAlwaysAccounted == ManagerSpec => []SlotsAreAccounted
BY Invariance, AccountsAgree, PTL

(* A key is claimed by an owner exactly when it is one of its candidates,  *)
(* so no claim outlives its admission and blocks the head of the queue.    *)
THEOREM ClaimsAlwaysCandidates == ManagerSpec => []ClaimsAreCandidates
BY Invariance, AccountsAgree, PTL

(* A leased candidate nobody removed has its slot until the lease is given *)
(* back, whatever the other workers call.                                  *)
THEOREM LeasedCandidatesAlwaysRun == ManagerSpec => []LeasedCandidatesRun
BY Invariance, LeasesAgree, PTL

(* An admission is busy exactly while one worker holds its lease.          *)
THEOREM AlwaysOneWorker == ManagerSpec => []OneWorkerPerAdmission
BY Invariance, LeasesAgree, PTL

(* Keys take slots within the limit and in the order they were added, in   *)
(* every step of every method.                                             *)
THEOREM SlotsAlwaysGoInOrder == ManagerSpec => SlotsGoInOrder
<1> DEFINE Step ==
      mgr'.queue # NoQueue =>
        LET q   == mgr'.queue
            new == q.running \ (IF mgr.queue = NoQueue THEN {} ELSE mgr.queue.running)
        IN /\ new = {} \/ q.limit = 0 \/ Cardinality(q.running) <= q.limit
           /\ \A k \in new, j \in q.pending : <<j, k>> \notin q.ahead
<1>1. Proper => Step
  <2> SUFFICES ASSUME Proper, mgr'.queue # NoQueue PROVE Step
    OBVIOUS
  <2> DEFINE q   == mgr'.queue
             new == q.running \ (IF mgr.queue = NoQueue THEN {} ELSE mgr.queue.running)
  <2>1. q.running \subseteq Keys
    <3>1. WellFormed(q, Keys)
      BY DEF Proper, ManagerIInv, Consistent, Typed, Sound
    <3> HIDE DEF q
    <3> QED
      BY <3>1 DEF WellFormed, IsSemaphore
  <2>2. \A k \in new : k \in Keys /\ Holds(mgr', k) /\ ~Holds(mgr, k)
    BY <2>1 DEF Holds
  <2>3. \A k \in new : /\ q.limit = 0 \/ Cardinality(q.running) <= q.limit
                       /\ \A j \in q.pending : <<j, k>> \notin q.ahead
    BY <2>2 DEF Proper, TakesInOrder
  <2> QED
    BY <2>3
<1> HIDE DEF Step
<1>2. [Proper]_managerVars => [Step]_managerVars
  BY <1>1
<1>3. ManagerSpec => [][Step]_managerVars
  BY EveryStep, <1>2, PTL
<1> QED
  BY <1>3 DEF SlotsGoInOrder, Step

(* A handoff that is done stays done until it is forgotten.                *)
THEOREM AlwaysHandsOffOnce == ManagerSpec => HandsOffOnce
<1> DEFINE Step ==
      \A o \in Live :
        LET a == mgr.admissions[o]
            b == mgr'.admissions[o]
        IN a.promotion /\ a.done /\ ~a.busy /\ b # NoAdmission
             => b.promotion /\ b.done /\ b.cands = a.cands
<1>1. ManagerIInv /\ Proper => Step
  <2> SUFFICES ASSUME ManagerIInv, Proper, NEW o \in Live,
                      mgr.admissions[o].promotion, mgr.admissions[o].done,
                      ~mgr.admissions[o].busy, mgr'.admissions[o] # NoAdmission
               PROVE  /\ mgr'.admissions[o].promotion /\ mgr'.admissions[o].done
                      /\ mgr'.admissions[o].cands = mgr.admissions[o].cands
    OBVIOUS
  <2>1. o \in Owners /\ Settled(mgr, o) /\ ~Busy(mgr, o)
    BY DEF Live, Settled, Busy
  <2>2. Settled(mgr', o)
    BY <2>1 DEF Proper, HandoffsStay
  <2>3. HandsOver(mgr.admissions[o]) /\ HandsOver(mgr'.admissions[o])
    BY <2>1, <2>2 DEF ManagerIInv, Proper, Consistent, Settled
  <2> QED
    BY <2>1, <2>2, <2>3 DEF Settled, HandsOver
<1> HIDE DEF Step
<1>2. ManagerIInv /\ [Proper]_managerVars => [Step]_managerVars
  BY <1>1
<1>3. ManagerSpec => [][Step]_managerVars
  BY Invariance, EveryStep, <1>2, PTL
<1> QED
  BY <1>3 DEF HandsOffOnce, Step
=============================================================================
