------------------------- MODULE PrioritySemaphore -------------------------
(***************************************************************************)
(* One prioritySemaphore under any sequence of the calls the queue manager *)
(* makes to it (pkg/queue/semaphore.go).  The manager's lock and the       *)
(* semaphore's own make every call one atomic step.                        *)
(***************************************************************************)
EXTENDS Semaphore

CONSTANTS Keys,     \* PipelineRun keys, "namespace/name"
          Limits,   \* concurrency limits a repository is given; 0 is none
          Refused, Ok

ASSUME SemaphoreAssumption ==
  /\ Limits \subseteq Nat
  /\ Limits # {}
  /\ IsFiniteSet(Keys)

VARIABLES sem,     \* the semaphore
          reply    \* what the last call returned: a key, Refused ("") or Ok

vars == <<sem, reply>>

Init ==
  /\ sem \in {newSemaphore(limit) : limit \in Limits}
  /\ reply = Ok

AddToQueue(k) ==
  /\ sem' = addToQueue(sem, <<k>>)
  /\ reply' = Ok

AcquireLatest ==
  /\ sem' = acquireLatest(sem)
  /\ reply' = IF sem'.pending = sem.pending
              THEN Refused ELSE CHOOSE k \in sem.pending \ sem'.pending : TRUE

Requeue(k) ==
  /\ sem' = requeue(sem, {k})
  /\ reply' = Ok

Release(k) ==
  /\ sem' = release(sem, {k})
  /\ reply' = Ok

RemoveFromQueue(k) ==
  /\ sem' = removeFromQueue(sem, {k})
  /\ reply' = Ok

Resize(limit) ==
  /\ limit # sem.limit
  /\ sem' = resize(sem, limit)
  /\ reply' = Ok

Next ==
  \/ AcquireLatest
  \/ \E k \in Keys : AddToQueue(k) \/ Requeue(k) \/ Release(k) \/ RemoveFromQueue(k)
  \/ \E limit \in Limits : Resize(limit)

Spec == Init /\ [][Next]_vars

----------------------------------------------------------------------------
(* Type invariant: the record has its shape, no key is both running and    *)
(* pending, and the order is a strict total order of the tracked keys.     *)
TypeOK == WellFormed(sem, Keys)

(* The weighted semaphore and the running map never drift apart, whatever  *)
(* resizes happened while keys were running: the permits held are the      *)
(* running keys the limit covers.  A permit too many blocks the repository *)
(* for good; one too few admits a run over the limit, and returning one    *)
(* that is not held makes sema.Weighted.Release panic (semaphore.go:158).  *)
PermitsMatchRunning == PermitsMatch(sem)

(* Any two keys keep their order for as long as both are in the queue:     *)
(* taking a slot, losing it to requeue and every resize leave it alone, so *)
(* a retry neither overtakes nor is overtaken (semaphore.go:129).          *)
OrderIsKept ==
  [][\A p \in sem.ahead :
        {p[1], p[2]} \subseteq Tracked(sem') => p \in sem'.ahead]_vars

(* The semaphore implements the slot pool: first come first served within  *)
(* the limit, refusing only when full.                                     *)
Pool == INSTANCE SlotPool WITH
          capacity <- sem.limit, waiters <- sem.pending,
          holders <- sem.running, before <- sem.ahead

ImplementsSlotPool == Pool!Spec
=============================================================================
