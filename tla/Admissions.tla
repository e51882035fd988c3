----------------------------- MODULE Admissions -----------------------------
(***************************************************************************)
(* The state of the queue Manager for one Repository and the operations    *)
(* its methods are made of, pkg/queue/queue_manager.go and admission.go,   *)
(* as operators on a record:                                               *)
(*   queue       the repository's semaphore, or NoQueue                    *)
(*   admissions  the unfinished work each owner has, or NoAdmission        *)
(*   claims      the owner whose admission a key is a candidate of         *)
(* The manager keeps a record per Repository behind one lock and no        *)
(* operation touches two of them, so one is enough.                        *)
(*                                                                         *)
(* An owner is a PipelineRun: its key and its UID.  An admission holds its *)
(* candidates as sets: all of them, the ones holding a slot, and the start *)
(* attempts made (candidate and UID the attempt was for).  The slice order *)
(* of candidates is the heap order they were taken in and requeue keeps.   *)
(* Operators named Mutant... are as in Semaphore.                          *)
(***************************************************************************)
EXTENDS Semaphore

CONSTANTS Keys, UIDs, NoQueue, NoAdmission, NoOwner

Owners == Keys \X UIDs

KeyOf(owner) == owner[1]

Resume == "resume"
Initial == "initial"
Promotion == "promotion"
Modes == {Initial, Resume, Promotion}

NewManager ==
  [queue |-> NoQueue,
   admissions |-> [o \in Owners |-> NoAdmission],
   claims |-> [k \in Keys |-> NoOwner]]

\* The absence of an admission, a queue or an owner is none of them.
IsAdmission(a) ==
  a \in [promotion : BOOLEAN, busy : BOOLEAN, done : BOOLEAN, releasedOwner : BOOLEAN,
        cands : SUBSET Keys, reserved : SUBSET Keys, attempts : SUBSET (Keys \X UIDs)]

ASSUME AdmissionsAssumption ==
  /\ IsFiniteSet(Keys)
  /\ NoOwner \notin Owners
  /\ ~IsSemaphore(NoQueue, Keys)
  /\ ~IsAdmission(NoAdmission)

newAdmission(promotion) ==
  [promotion |-> promotion, busy |-> FALSE, done |-> FALSE, releasedOwner |-> FALSE,
   cands |-> {}, reserved |-> {}, attempts |-> {}]

----------------------------------------------------------------------------
(* Queue upkeep *)

\* getSemaphore: create the semaphore, or resize it to the current limit.
getSemaphore(m, limit) ==
  [m EXCEPT !.queue = IF @ = NoQueue THEN newSemaphore(limit)
                      ELSE IF @.limit # limit THEN resize(@, limit) ELSE @]

Queued(m, key) == m.queue # NoQueue /\ key \in Tracked(m.queue)

Unclaimed(m) == {k \in Keys : m.claims[k] = NoOwner}

\* forgetCandidate for the keys of set, all candidates of one owner.
Without(admission, set) ==
  [admission EXCEPT !.cands = @ \ set, !.reserved = @ \ set,
                    !.attempts = {a \in @ : a[1] \notin set}]

MutantKeepsCandidate(m, key) == [m EXCEPT !.claims[key] = NoOwner]

forgetCandidate(m, key) ==
  IF m.claims[key] = NoOwner THEN m ELSE
  LET owner == m.claims[key]
      left  == Without(m.admissions[owner], {key})
      drop  == ~left.promotion /\ ~left.busy /\ ~left.releasedOwner /\ left.cands = {}
  IN [m EXCEPT !.claims[key] = NoOwner,
               !.admissions[owner] = IF drop THEN NoAdmission ELSE left]

MutantRemovesFromQueueOnly(m, key) ==
  [m EXCEPT !.queue = removeFromQueue(release(@, {key}), {key})]

\* removeFromQueue of the manager: the key leaves its claimant, whose batch
\* then counts as done, and the queue.
removeKey(m, key) ==
  LET owner  == m.claims[key]
      marked == IF owner = NoOwner THEN m ELSE [m EXCEPT !.admissions[owner].done = TRUE]
  IN [forgetCandidate(marked, key) EXCEPT
        !.queue = removeFromQueue(release(@, {key}), {key})]

----------------------------------------------------------------------------
(* The steps of AcquireAdmission, in the order it makes them *)

\* A promotion gives up its owner's place when it first registers.
registered(m, owner, mode) ==
  IF m.admissions[owner] # NoAdmission THEN m
  ELSE [(IF mode = Promotion THEN removeKey(m, KeyOf(owner)) ELSE m) EXCEPT
          !.admissions[owner] = newAdmission(mode = Promotion)]

\* A finishing owner resuming its batch gives up its own place.
ownerReleased(m, owner, mode, finishing) ==
  IF ~(mode = Resume /\ finishing /\ Queued(m, KeyOf(owner))) THEN m ELSE
  LET freed == removeKey([m EXCEPT !.admissions[owner].releasedOwner = TRUE], KeyOf(owner))
  IN [freed EXCEPT !.admissions[owner].done = @ \/ freed.admissions[owner].cands = {}]

listed(m, list) == [m EXCEPT !.queue = addToQueue(@, list)]

\* Candidates put back by requeue take a slot again as they reach the head.
reservedAgain(m, owner) ==
  LET waiting == m.admissions[owner].cands \ m.admissions[owner].reserved
      size    == Cardinality(waiting)
  IN [m EXCEPT !.queue = acquireBatch(@, waiting, size),
               !.admissions[owner].reserved = @ \cup Batch(m.queue, waiting, size)]

MutantFillsAgain(m, owner) ==
  LET batch == Batch(m.queue, Unclaimed(m), 1)
  IN IF m.admissions[owner].cands # {} THEN m
     ELSE [m EXCEPT !.queue = acquireBatch(@, Unclaimed(m), 1),
                    !.claims = [k \in Keys |-> IF k \in batch THEN owner ELSE @[k]],
                    !.admissions[owner].cands = batch,
                    !.admissions[owner].reserved = batch,
                    !.admissions[owner].done = batch = {}]

\* An admission without candidates takes a batch, once: as many unclaimed
\* keys as the limit allows, a promotion one.  It is done when there is none,
\* and blocked, not done, when the head is claimed by another admission.
filled(m, owner) ==
  LET self  == m.admissions[owner]
      size  == IF self.promotion THEN 1
               ELSE IF m.queue.limit = 0 THEN Cardinality(m.queue.pending) ELSE m.queue.limit
      batch == Batch(m.queue, Unclaimed(m), size)
  IN IF self.cands # {} \/ self.done THEN m
     ELSE [m EXCEPT !.queue = acquireBatch(@, Unclaimed(m), size),
                    !.claims = [k \in Keys |-> IF k \in batch THEN owner ELSE @[k]],
                    !.admissions[owner].cands = batch,
                    !.admissions[owner].reserved = batch,
                    !.admissions[owner].done =
                       batch = {} /\ nextPending(m.queue) \subseteq Unclaimed(m)]

prepared(m, owner, list, mode, finishing, limit) ==
  filled(reservedAgain(listed(ownerReleased(registered(getSemaphore(m, limit),
           owner, mode), owner, mode, finishing), list), owner), owner)

\* The errors after the preparation: the next key belongs to another
\* admission, or none of the candidates has its slot back yet.
Waiting(admission) ==
  admission.reserved = {} /\ (admission.cands # {} \/ ~admission.done)

----------------------------------------------------------------------------
(* The results of a batch, as FinishAdmission records them *)

MutantRequeuesAttempted(m, owner, live, succeeded, gone, attempts) ==
  LET again == live \ (succeeded \cup gone)
  IN [m EXCEPT !.queue = requeue(@, again),
               !.admissions[owner].busy = FALSE,
               !.admissions[owner].attempts = {a \in attempts : a[1] \in again}]

\* live: the leased candidates the owner still claims.  The ones neither
\* started nor gone are retried; without an attempt they lose their slot.
recorded(m, owner, live, succeeded, gone, attempts) ==
  LET self    == m.admissions[owner]
      over    == live \cap (succeeded \cup gone)
      again   == live \ over
      unsent  == {k \in again : \A a \in attempts : a[1] # k} \cap m.queue.running
      left    == Without(self, over)
      updated == [left EXCEPT
                    !.busy = FALSE,
                    !.done = @ \/ live \cap succeeded # {},
                    !.reserved = @ \ unsent,
                    !.attempts = {a \in @ : a[1] \notin again}
                                   \cup {a \in attempts : a[1] \in again}]
      over2   == ~updated.promotion /\ updated.cands = {}
  IN [m EXCEPT
        !.queue = removeFromQueue(release(requeue(@, unsent), live \cap gone), live \cap gone),
        !.claims = [k \in Keys |-> IF k \in over THEN NoOwner ELSE @[k]],
        !.admissions[owner] =
           IF over2 /\ updated.releasedOwner
           THEN [updated EXCEPT !.promotion = TRUE, !.done = FALSE]
           ELSE IF over2 /\ updated.done THEN NoAdmission ELSE updated]
=============================================================================
