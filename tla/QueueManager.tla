---------------------------- MODULE QueueManager ----------------------------
(***************************************************************************)
(* The queue Manager for one Repository under any calls of its methods     *)
(* (pkg/queue/queue_manager.go, admission.go), each atomic under qm.lock,  *)
(* by workers that lease one owner's admission at a time.                  *)
(***************************************************************************)
EXTENDS Admissions

CONSTANTS Workers,   \* reconciler workers
          Limits,    \* concurrency limits the repository is given; 0 is none
          Lists,     \* execution orders a caller passes
          NoLease, Stale

IsLease(l) ==
  l \in [owner : Owners, cands : SUBSET Keys, attempts : SUBSET (Keys \X UIDs)]

ASSUME QueueManagerAssumption ==
  /\ Limits \subseteq Nat
  /\ Lists \subseteq Seq(Keys)
  /\ ~IsLease(NoLease) /\ ~IsLease(Stale) /\ NoLease # Stale

VARIABLES mgr,     \* the manager's record of the repository
          leases   \* the Admission each worker holds, or NoLease

managerVars == <<mgr, leases>>

ManagerInit ==
  /\ mgr = NewManager
  /\ leases = [w \in Workers |-> NoLease]

\* A lease points at the admission it was given for: once that admission is
\* deleted the lease is stale, even if the owner gets a new one.
StillCurrent(m, ls) ==
  [w \in Workers |->
     IF ls[w] \notin {NoLease, Stale} /\ m.admissions[ls[w].owner] = NoAdmission
     THEN Stale ELSE ls[w]]

----------------------------------------------------------------------------
(* AcquireAdmission, by what it returns *)

NothingToResume(owner, mode) ==
  /\ mode = Resume
  /\ mgr.admissions[owner] # NoAdmission => mgr.admissions[owner].promotion

MutantNeverBusy(owner) == FALSE

BeingProcessed(owner) ==
  mgr.admissions[owner] # NoAdmission /\ mgr.admissions[owner].busy

\* A second promotion of an owner that already left the queue.
AlreadyHandedOff(owner, mode) ==
  /\ mode = Promotion
  /\ mgr.admissions[owner] = NoAdmission
  /\ ~Queued(mgr, KeyOf(owner))

WrongMode(owner, mode) ==
  /\ mgr.admissions[owner] # NoAdmission
  /\ mgr.admissions[owner].promotion # (mode = Promotion)

\* nil, nil
AcquireNothing(owner, mode, limit) ==
  \/ /\ NothingToResume(owner, mode)
     /\ UNCHANGED managerVars
  \/ /\ AlreadyHandedOff(owner, mode)
     /\ mgr' = getSemaphore(mgr, limit)
     /\ UNCHANGED leases

\* "already being processed", "must be resumed before promotion"
AcquireRefused(owner, mode, limit) ==
  /\ ~NothingToResume(owner, mode)
  /\ \/ /\ BeingProcessed(owner)
        /\ UNCHANGED managerVars
     \/ /\ ~BeingProcessed(owner)
        /\ WrongMode(owner, mode)
        /\ mgr' = getSemaphore(mgr, limit)
        /\ UNCHANGED leases

Admissible(owner, mode) ==
  /\ ~NothingToResume(owner, mode)
  /\ ~BeingProcessed(owner)
  /\ ~AlreadyHandedOff(owner, mode)
  /\ ~WrongMode(owner, mode)

\* "owned by another admission", "waiting to resume"
AcquireBlocked(owner, list, mode, finishing, limit) ==
  /\ Admissible(owner, mode)
  /\ LET m == prepared(mgr, owner, list, mode, finishing, limit)
     IN /\ Waiting(m.admissions[owner])
        /\ mgr' = m
  /\ leases' = StillCurrent(mgr', leases)

AcquireWork(w, owner, list, mode, finishing, limit) ==
  /\ leases[w] = NoLease
  /\ Admissible(owner, mode)
  /\ LET m    == prepared(mgr, owner, list, mode, finishing, limit)
         self == m.admissions[owner]
     IN /\ ~Waiting(self)
        /\ mgr' = [m EXCEPT !.admissions[owner].busy = TRUE]
        /\ leases' = [StillCurrent(m, leases) EXCEPT
             ![w] = [owner |-> owner, cands |-> self.reserved,
                     attempts |-> {a \in self.attempts : a[1] \in self.reserved}]]

----------------------------------------------------------------------------
(* The other methods *)

FinishAdmission(w, succeeded, gone, attempts) ==
  /\ leases[w] \notin {NoLease, Stale}
  /\ LET owner == leases[w].owner
         live  == {k \in leases[w].cands : mgr.claims[k] = owner}
     IN mgr' = recorded(mgr, owner, live, succeeded, gone, attempts)
  /\ leases' = [StillCurrent(mgr', leases) EXCEPT ![w] = NoLease]

\* The admission the lease was given for is gone: nothing is recorded.
FinishStaleAdmission(w) ==
  /\ leases[w] = Stale
  /\ leases' = [leases EXCEPT ![w] = NoLease]
  /\ UNCHANGED mgr

Forgettable(owner) ==
  /\ mgr.admissions[owner] # NoAdmission
  /\ ~mgr.admissions[owner].busy
  /\ mgr.admissions[owner].cands = {}

ForgetAdmission(owner) ==
  /\ Forgettable(owner)
  /\ mgr' = [mgr EXCEPT !.admissions[owner] = NoAdmission]
  /\ leases' = StillCurrent(mgr', leases)

RemoveFromQueue(key) ==
  /\ mgr.queue # NoQueue
  /\ mgr' = removeKey(mgr, key)
  /\ leases' = StillCurrent(mgr', leases)

\* acquireUnowned, n times: nothing past a claimed head.
acquireUnowned(m, n) == [m EXCEPT !.queue = acquireBatch(@, Unclaimed(m), n)]

RemoveAndTakeItemFromQueue(key) ==
  /\ mgr.queue # NoQueue
  /\ mgr' = acquireUnowned(removeKey(mgr, key), 1)
  /\ leases' = StillCurrent(mgr', leases)

\* The first lines of InitQueues: the process starts, with no worker yet.
Restart ==
  /\ mgr' = NewManager
  /\ leases' = [w \in Workers |-> NoLease]

\* InitQueues alone calls the next two, before any worker runs
\* (queue_manager.go:227).
Rebuilding ==
  /\ \A owner \in Owners : mgr.admissions[owner] = NoAdmission
  /\ \A w \in Workers : leases[w] = NoLease

\* With no limit the keys are only listed: all that is pending may start.
AddListToRunningQueue(list, limit) ==
  /\ Rebuilding
  /\ mgr' = acquireUnowned(listed(getSemaphore(mgr, limit), list), limit)
  /\ UNCHANGED leases

AddToPendingQueue(list, limit) ==
  /\ Rebuilding
  /\ mgr' = listed(getSemaphore(mgr, limit), list)
  /\ UNCHANGED leases

\* Drops the queue, the admissions and the claims; workers keep stale leases.
RemoveRepository ==
  /\ mgr' = NewManager
  /\ leases' = StillCurrent(mgr', leases)

----------------------------------------------------------------------------
\* What a worker can report of each candidate of its lease: started, gone, a
\* start attempted for some UID, or no start attempted in this lease.
FinishAdmissionWith(w) ==
  /\ leases[w] \notin {NoLease, Stale}
  /\ \E outcome \in [leases[w].cands -> {"started", "gone", "attempted", "untried"}],
        uid \in UIDs :
       LET With(o) == {k \in leases[w].cands : outcome[k] = o}
       IN FinishAdmission(w, With("started"), With("gone"),
            leases[w].attempts \cup
              {<<k, uid>> : k \in {k \in With("attempted") :
                                    \A a \in leases[w].attempts : a[1] # k}})

\* Only an initial admission lists keys (queue_pipelineruns.go:53; the callers
\* at reconciler.go:203, 442 and 445 pass none).
AcquireAdmission ==
  \E owner \in Owners, mode \in Modes, limit \in Limits :
    \/ AcquireNothing(owner, mode, limit)
    \/ AcquireRefused(owner, mode, limit)
    \/ \E list \in IF mode = Initial THEN Lists ELSE {<<>>},
          finishing \in IF mode = Resume THEN BOOLEAN ELSE {FALSE} :
         \/ AcquireBlocked(owner, list, mode, finishing, limit)
         \/ \E w \in Workers : AcquireWork(w, owner, list, mode, finishing, limit)

ManagerNext ==
  \/ AcquireAdmission
  \/ \E w \in Workers : FinishAdmissionWith(w) \/ FinishStaleAdmission(w)
  \/ \E owner \in Owners : ForgetAdmission(owner)
  \/ \E key \in Keys : RemoveFromQueue(key) \/ RemoveAndTakeItemFromQueue(key)
  \/ \E list \in Lists, limit \in Limits :
       AddListToRunningQueue(list, limit) \/ AddToPendingQueue(list, limit)
  \/ RemoveRepository
  \/ Restart

ManagerSpec == ManagerInit /\ [][ManagerNext]_managerVars

----------------------------------------------------------------------------
(* Type invariant of the manager's maps and of the leases; the queue is a  *)
(* semaphore whose order is strict and total.                              *)
ManagerTypeOK ==
  /\ DOMAIN mgr = {"queue", "admissions", "claims"}
  /\ mgr.queue = NoQueue \/ WellFormed(mgr.queue, Keys)
  /\ DOMAIN mgr.admissions = Owners
  /\ \A o \in Owners : mgr.admissions[o] = NoAdmission \/ IsAdmission(mgr.admissions[o])
  /\ mgr.claims \in [Keys -> Owners \cup {NoOwner}]
  /\ DOMAIN leases = Workers
  /\ \A w \in Workers : leases[w] \in {NoLease, Stale} \/ IsLease(leases[w])

Live == {o \in Owners : mgr.admissions[o] # NoAdmission}

Leased(o) == {w \in Workers : leases[w] \notin {NoLease, Stale} /\ leases[w].owner = o}

(* The permits of the weighted semaphore match the running keys after any  *)
(* mix of the manager's methods and limit changes (semaphore.go:138, 158). *)
PermitsMatchRunning == mgr.queue # NoQueue => PermitsMatch(mgr.queue)

(* The claims map and the candidate lists of the admissions say the same:  *)
(* a key is claimed by an owner exactly when it is a candidate of that     *)
(* owner's admission.  A claim without its candidate, or one of an         *)
(* admission that was deleted, blocks the head of the queue for ever       *)
(* (admission.go:70, 160).                                                 *)
ClaimsAreCandidates ==
  \A k \in Keys, o \in Owners :
    mgr.claims[k] = o <=> o \in Live /\ k \in mgr.admissions[o].cands

(* A candidate has a slot exactly when its admission says so and waits in  *)
(* the heap otherwise, and a candidate a start was attempted for has one:  *)
(* its write may still commit (admission.go:30).                           *)
CandidatesHoldTheirSlots ==
  \A o \in Live :
    LET a == mgr.admissions[o]
    IN /\ mgr.queue # NoQueue
       /\ a.reserved = a.cands \cap mgr.queue.running
       /\ a.cands \ a.reserved \subseteq mgr.queue.pending
       /\ \A t \in a.attempts : t[1] \in a.reserved

(* An admission is busy exactly while one worker holds its lease; the      *)
(* leases of deleted admissions never make two workers start the same      *)
(* batch (admission.go:105, 194).                                          *)
OneWorkerPerAdmission ==
  \A o \in Owners :
    Cardinality(Leased(o)) = IF o \in Live /\ mgr.admissions[o].busy THEN 1 ELSE 0

(* While a worker tries to start its batch, a candidate nobody removed     *)
(* keeps its slot, whatever the other workers call: so a start is never    *)
(* accounted for twice or not at all, and the errors "missing queue" and   *)
(* "cannot restore queue candidate" of FinishAdmission (admission.go:200,  *)
(* 219) are never returned.                                                *)
LeasedCandidatesRun ==
  \A w \in Workers :
    leases[w] \notin {NoLease, Stale} =>
      \A k \in leases[w].cands :
        mgr.claims[k] = leases[w].owner =>
          mgr.queue # NoQueue /\ k \in mgr.queue.running

(* Nothing is kept for an owner whose batch is over: an idle admission     *)
(* without candidates is a handoff, is about to become one, or has not     *)
(* had its batch yet (admission.go:81, 228).                               *)
NoFinishedBatchIsKept ==
  \A o \in Live :
    LET a == mgr.admissions[o]
    IN ~a.busy /\ a.cands = {} /\ a.done => a.promotion \/ a.releasedOwner

(* Any two keys keep their order for as long as both are in the queue.     *)
OrderIsKept ==
  [][mgr.queue # NoQueue /\ mgr'.queue # NoQueue =>
       \A p \in mgr.queue.ahead :
         {p[1], p[2]} \subseteq Tracked(mgr'.queue) => p \in mgr'.queue.ahead]_managerVars

(* A key takes a slot only when the limit leaves room for it, and then no  *)
(* key that was added before it is left waiting: a promotion, a retry and  *)
(* a new batch all go past neither the limit nor a claimed head.           *)
SlotsGoInOrder ==
  [][mgr'.queue # NoQueue =>
       LET q   == mgr'.queue
           new == q.running \ (IF mgr.queue = NoQueue THEN {} ELSE mgr.queue.running)
       IN /\ new = {} \/ q.limit = 0 \/ Cardinality(q.running) <= q.limit
          /\ \A k \in new, j \in q.pending : <<j, k>> \notin q.ahead]_managerVars

(* A handoff that is done stays done until it is forgotten, so replaying   *)
(* the terminal write starts no second run (reconciler.go:437).            *)
HandsOffOnce ==
  [][\A o \in Live :
       LET a == mgr.admissions[o]
           b == mgr'.admissions[o]
       IN a.promotion /\ a.done /\ ~a.busy /\ b # NoAdmission
            => b.promotion /\ b.done /\ b.cands = a.cands]_managerVars

(* The three accounts of a slot agree between any two calls: the permits   *)
(* of the semaphore, its running keys, and the candidates of the           *)
(* admissions, of which none is kept when it has nothing left to do.       *)
SlotsAreAccounted ==
  ManagerTypeOK /\ PermitsMatchRunning /\ CandidatesHoldTheirSlots /\ NoFinishedBatchIsKept
=============================================================================
