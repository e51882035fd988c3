------------------------------ MODULE Watcher ------------------------------
(***************************************************************************)
(* The watcher of one Repository: the reconcilers of its PipelineRuns      *)
(* (pkg/reconciler) over the queue manager and the cluster.                *)
(*                                                                         *)
(* A run is a record of the cluster:                                       *)
(*   uid       identity; a run deleted and made again has another one      *)
(*   spec      spec.status: Pending, None (may run) or Cancelled           *)
(*   state     the state annotation: queued, started or completed (which   *)
(*             stands for failed too: every test takes both alike)         *)
(*   done      Tekton finished it                                          *)
(*   deleting  it has a deletion timestamp; the finalizer keeps it         *)
(*                                                                         *)
(* A write of a start is conditional on the resource version read before   *)
(* it, and commits at any time or never: "inFlight" is the set of runs     *)
(* whose present version has such a write outstanding.  Every other write  *)
(* to the run makes it void.                                               *)
(*                                                                         *)
(* Reads of the cache return what is in the cluster: a reconcile of an     *)
(* older version ends at once, for the event that brings the newer one.    *)
(***************************************************************************)
EXTENDS QueueManager

CONSTANTS Order,          \* the execution order, the same for all the runs
          Inherited,      \* whether the limit comes from the global Repository
          NoRun, NoKey, NoRepository,
          MaxFailures,    \* bound: failed calls and lost answers
          MaxCrashes,     \* bound: deaths of the watcher's process
          MaxChanges,     \* bound: changes of the Repository
          Successors,     \* what may follow a death: "restart", "standby"
          Cancellations,  \* keys whose run a user may cancel or delete
          Replacements,   \* keys whose run may be made again
          Removals        \* {NoRepository} when the Repository may be deleted

Pending == "Pending"
None == ""
Cancelled == "Cancelled"
StateQueued == "queued"
StateStarted == "started"
StateCompleted == "completed"

IsRun(run) ==
  run \in [uid : UIDs, spec : {Pending, None, Cancelled},
          state : {StateQueued, StateStarted, StateCompleted},
          done : BOOLEAN, deleting : BOOLEAN]

\* What is left of a list.
Filtered(list, set) == SelectSeq(list, LAMBDA k : k \in set)

\* The work queue runs one reconcile of a key at a time: a key is a worker.
ASSUME WatcherAssumption ==
  /\ Workers = Keys
  /\ {<<>>, Order} \subseteq Lists
  /\ \A list \in Lists, set \in SUBSET Keys : Filtered(list, set) \in Lists
  /\ ~IsRun(NoRun)
  /\ NoRepository \notin Nat
  /\ Removals \subseteq {NoRepository}

\* SelectSeq keeps the elements that pass its test, and the order names every run.
ASSUME FilterAssumption ==
  \A set \in SUBSET Keys :
    /\ Filtered(Order, set) \in Seq(set)
    /\ \A k \in set : \E i \in DOMAIN Filtered(Order, set) : Filtered(Order, set)[i] = k

VARIABLES runs,           \* the runs in the cluster, or NoRun
          inFlight,       \* runs with an outstanding start write
          workqueue,      \* keys in the work queue
          work,           \* the reconcile of each key
          repository,     \* the Repository: its concurrency limit, or NoRepository
          phase,          \* "up", or the step InitQueues is at
          failures, crashes, changes,
          past            \* UIDs each key has had; none comes again

boundVars == <<failures, crashes, changes, past>>
vars == <<mgr, leases, runs, inFlight, workqueue, work, repository, phase, failures, crashes,
          changes, past>>

\* The states runs are created in with a limit (pipelineascode.go:330, 404).
newRun(uid) ==
  [uid |-> uid, spec |-> Pending, state |-> StateQueued, done |-> FALSE, deleting |-> FALSE]

Finishing(run) == run.deleting \/ run.done \/ run.spec = Cancelled

noLongerStartable(run) == Finishing(run) \/ run.state = StateCompleted

startConfirmed(run) == run.spec # Pending /\ run.state = StateStarted

Idle ==
  [pc |-> "idle", mode |-> Resume, ending |-> FALSE, run |-> NoRun, list |-> <<>>,
   todo |-> {}, trying |-> NoKey, started |-> {}, gone |-> {}, attempts |-> {},
   seen |-> {}, failed |-> FALSE, empty |-> FALSE, limit |-> 0]

Init ==
  /\ ManagerInit
  /\ \E uid \in UIDs : /\ runs = [k \in Keys |-> newRun(uid)]
                       /\ past = [k \in Keys |-> {uid}]
  /\ inFlight = {}
  /\ workqueue = Keys
  /\ work = [k \in Keys |-> Idle]
  /\ repository \in Limits
  /\ phase = "up"
  /\ failures = 0
  /\ crashes = 0
  /\ changes = 0

----------------------------------------------------------------------------
(* Writes to the cluster: the run's version changes, and its event puts it *)
(* in the work queue.                                                      *)

MutantKeepsStartInFlight(k, run) ==
  /\ runs' = [runs EXCEPT ![k] = run]
  /\ workqueue' = workqueue \cup {k}
  /\ UNCHANGED inFlight

write(k, run) ==
  /\ runs' = [runs EXCEPT ![k] = run]
  /\ inFlight' = inFlight \ {k}
  /\ workqueue' = workqueue \cup {k}

startWrite(k) ==
  write(k, [runs[k] EXCEPT !.state = StateStarted,
                           !.spec = IF @ = Pending THEN None ELSE @])

mayFail ==
  /\ failures < MaxFailures
  /\ failures' = failures + 1

----------------------------------------------------------------------------
(* The steps of a reconcile, but for the ones of a batch                   *)

At(k, pc) == phase = "up" /\ work[k].pc = pc

Owner(k) == <<k, work[k].run.uid>>

goto(k, pc, mode, ending) ==
  work' = [work EXCEPT ![k] = [Idle EXCEPT !.pc = pc, !.mode = mode, !.ending = ending,
                                           !.run = work[k].run, !.limit = work[k].limit]]

end(k) == work' = [work EXCEPT ![k] = Idle]

\* An error: the work queue takes the key back.
endWithError(k) == end(k) /\ workqueue' = workqueue \cup {k}

HasPlace(run) == run.state # StateCompleted

\* reconcileKind first resumes the owner's batch; finalizeKind goes straight to
\* the handoff of a run that still has a place.  The Repository read here is
\* used until it is read again.
Begin(k) ==
  /\ At(k, "idle")
  /\ k \in workqueue
  /\ repository # NoRepository \/ runs[k] = NoRun
  /\ workqueue' = workqueue \ {k}
  /\ IF runs[k] = NoRun THEN UNCHANGED work
     ELSE work' = [work EXCEPT ![k] =
            [Idle EXCEPT !.pc = IF runs[k].deleting /\ ~HasPlace(runs[k])
                                THEN "forget" ELSE "acquire",
                         !.ending = runs[k].deleting,
                         !.run = runs[k],
                         !.limit = repository]]
  /\ UNCHANGED <<managerVars, runs, inFlight, repository, phase, boundVars>>

\* Without the Repository its queue is dropped.  A run that still has a place
\* is an error, retried; a deleted one only loses its finalizer.
BeginWithoutRepository(k) ==
  /\ At(k, "idle")
  /\ k \in workqueue
  /\ repository = NoRepository
  /\ runs[k] # NoRun
  /\ IF runs[k].deleting /\ ~HasPlace(runs[k]) THEN UNCHANGED managerVars
                                              ELSE RemoveRepository
  /\ IF runs[k].deleting
     THEN /\ work' = [work EXCEPT ![k] = [Idle EXCEPT !.pc = "forget", !.run = runs[k]]]
          /\ workqueue' = workqueue \ {k}
     ELSE /\ workqueue' = IF HasPlace(runs[k]) THEN workqueue ELSE workqueue \ {k}
          /\ UNCHANGED work
  /\ UNCHANGED <<runs, inFlight, repository, phase, boundVars>>

MutantHandsNothingOff(k) ==
  IF work[k].ending
  THEN goto(k, IF work[k].run.deleting THEN "forget" ELSE "write", Promotion, TRUE)
  ELSE IF work[k].mode = Initial THEN end(k)
  ELSE IF work[k].run.state = StateCompleted THEN goto(k, "forget", Resume, FALSE)
  ELSE IF work[k].run.state = StateQueued /\ work[k].run.spec = Pending
       THEN goto(k, "list", Initial, FALSE)
  ELSE IF work[k].run.done \/ work[k].run.spec = Cancelled
       THEN goto(k, "report", Resume, TRUE)
  ELSE end(k)

\* What follows an admission that succeeded, on the run read at the beginning.
proceed(k) ==
  LET run == work[k].run
  IN CASE work[k].mode = Resume /\ work[k].ending -> goto(k, "acquire", Promotion, TRUE)
       [] work[k].mode = Promotion ->
            goto(k, IF run.deleting THEN "forget" ELSE "write", Promotion, TRUE)
       [] work[k].mode = Initial -> end(k)
       [] OTHER ->
            IF run.state = StateCompleted THEN goto(k, "forget", Resume, FALSE)
            ELSE IF run.state = StateQueued /\ run.spec = Pending
                 THEN goto(k, "list", Initial, FALSE)
            ELSE IF run.done \/ run.spec = Cancelled
                 THEN goto(k, "report", Resume, TRUE)
            ELSE end(k)

\* FilterPipelineRunByState reads the runs; the manager is called later.
ListRuns(k) ==
  /\ At(k, "list")
  /\ repository # NoRepository
  /\ LET queued == {j \in Keys : runs[j] # NoRun /\ runs[j].state = StateQueued
                                 /\ runs[j].spec = Pending}
     IN work' = [work EXCEPT ![k].pc = "acquire",
                             ![k].limit = repository,
                             ![k].list = Filtered(Order, queued)]
  /\ UNCHANGED <<managerVars, runs, inFlight, workqueue, repository, phase, boundVars>>

ListWithoutRepository(k) ==
  /\ At(k, "list")
  /\ repository = NoRepository
  /\ RemoveRepository
  /\ end(k)
  /\ UNCHANGED <<runs, inFlight, workqueue, repository, phase, boundVars>>

\* The final status is posted, whatever the provider answers.
Report(k) ==
  /\ At(k, "report")
  /\ repository # NoRepository
  /\ work' = [work EXCEPT ![k].pc = "acquire", ![k].ending = TRUE, ![k].limit = repository]
  /\ UNCHANGED <<managerVars, runs, inFlight, workqueue, repository, phase, boundVars>>

\* The terminal write is conditional on nothing and goes to the run's name.
TerminalWrite(k) ==
  /\ At(k, "write")
  /\ write(k, [runs[k] EXCEPT !.state = StateCompleted])
  /\ goto(k, "forget", Promotion, TRUE)
  /\ UNCHANGED <<managerVars, repository, phase, boundVars>>

\* It is done but its answer is lost.
TerminalWriteUnanswered(k) ==
  /\ At(k, "write")
  /\ mayFail
  /\ write(k, [runs[k] EXCEPT !.state = StateCompleted])
  /\ end(k)
  /\ UNCHANGED <<managerVars, repository, phase, crashes, changes, past>>

\* The end of a run: the owner is forgotten; a deleted one has its finalizer
\* removed and is gone.
ForgetOwner(k) ==
  /\ At(k, "forget")
  /\ IF Forgettable(Owner(k)) THEN ForgetAdmission(Owner(k))
                                 ELSE UNCHANGED managerVars
  /\ IF work[k].run.deleting
     THEN write(k, NoRun)
     ELSE UNCHANGED <<runs, inFlight, workqueue>>
  /\ end(k)
  /\ UNCHANGED <<repository, phase, boundVars>>

ReportWithoutRepository(k) ==
  /\ At(k, "report")
  /\ repository = NoRepository
  /\ endWithError(k)
  /\ UNCHANGED <<managerVars, runs, inFlight, repository, phase, boundVars>>

\* A read, the provider or the terminal write fails.
Fail(k) ==
  /\ At(k, "list") \/ At(k, "report") \/ At(k, "write")
  /\ mayFail
  /\ endWithError(k)
  /\ UNCHANGED <<managerVars, runs, inFlight, repository, phase, crashes, changes, past>>

----------------------------------------------------------------------------
(* processQueueAdmission                                                   *)

Acquire(k) ==
  /\ At(k, "acquire")
  /\ LET mode      == work[k].mode
         finishing == Finishing(work[k].run)
         limit     == work[k].limit
     IN \/ /\ AcquireNothing(Owner(k), mode, limit)
           /\ proceed(k)
           /\ UNCHANGED workqueue
        \/ /\ \/ AcquireRefused(Owner(k), mode, limit)
              \/ AcquireBlocked(Owner(k), work[k].list, mode, finishing, limit)
           /\ endWithError(k)
        \/ /\ AcquireWork(k, Owner(k), work[k].list, mode, finishing, limit)
           /\ work' = [work EXCEPT
                ![k].pc = "batch", ![k].started = {}, ![k].gone = {},
                ![k].empty = leases'[k].cands = {},
                ![k].todo = leases'[k].cands \ work[k].seen,
                ![k].failed = leases'[k].cands \cap work[k].seen # {},
                ![k].seen = @ \cup leases'[k].cands,
                ![k].attempts = leases'[k].attempts]
           /\ UNCHANGED workqueue
  /\ UNCHANGED <<runs, inFlight, repository, phase, boundVars>>

\* A candidate is over: with outcome "started", "gone" or, by default, retry.
result(k, c, outcome, failed) ==
  [work[k] EXCEPT !.pc = "batch", !.todo = @ \ {c}, !.trying = NoKey,
                  !.started = IF outcome = "started" THEN @ \cup {c} ELSE @,
                  !.gone = IF outcome = "gone" THEN @ \cup {c} ELSE @,
                  !.failed = @ \/ failed]

Attempted(k, c) == {a \in work[k].attempts : a[1] = c}

\* The read before the write, and the write it makes conditional.  The batch
\* is in queue order in the code; here, in any.
StartCandidate(k, c) ==
  /\ At(k, "batch")
  /\ c \in work[k].todo
  /\ IF \/ runs[c] = NoRun
        \/ \E a \in Attempted(k, c) : a[2] # runs[c].uid
     THEN /\ work' = [work EXCEPT ![k] = result(k, c, "gone", FALSE)]
          /\ UNCHANGED inFlight
     ELSE LET tried == [work[k] EXCEPT !.attempts = @ \cup {<<c, runs[c].uid>>}]
          IN IF noLongerStartable(runs[c])
             THEN /\ work' = [work EXCEPT ![k] = result(k, c, "gone", FALSE)]
                  /\ UNCHANGED inFlight
             ELSE /\ work' = [work EXCEPT ![k] = [tried EXCEPT !.pc = "answer", !.trying = c]]
                  /\ inFlight' = inFlight \cup {c}
  /\ UNCHANGED <<managerVars, runs, workqueue, repository, phase, boundVars>>

\* The read of a candidate fails; nothing is attempted.
CandidateUnread(k, c) ==
  /\ At(k, "batch")
  /\ c \in work[k].todo
  /\ mayFail
  /\ work' = [work EXCEPT ![k] = result(k, c, "retry", TRUE)]
  /\ UNCHANGED <<managerVars, runs, inFlight, workqueue, repository, phase, crashes, changes, past>>

\* The candidate has started; the provider client may fail after that.
confirmed(k, c) ==
  \/ /\ work' = [work EXCEPT ![k] = result(k, c, "started", FALSE)]
     /\ UNCHANGED failures
  \/ /\ mayFail
     /\ work' = [work EXCEPT ![k] = result(k, c, "started", work[k].mode # Promotion)]

\* The write commits and its answer arrives.
StartAnswered(k) ==
  /\ At(k, "answer")
  /\ work[k].trying \in inFlight
  /\ startWrite(work[k].trying)
  /\ confirmed(k, work[k].trying)
  /\ UNCHANGED <<managerVars, repository, phase, crashes, changes, past>>

\* A conflict, as the run was written since; or the answer is lost, and the
\* write stays outstanding.
StartUnanswered(k) ==
  /\ At(k, "answer")
  /\ \/ work[k].trying \notin inFlight /\ UNCHANGED failures
     \/ work[k].trying \in inFlight /\ mayFail
  /\ work' = [work EXCEPT ![k].pc = "readback"]
  /\ UNCHANGED <<managerVars, runs, inFlight, workqueue, repository, phase, crashes, changes, past>>

MutantUnconfirmedIsGone(k) ==
  /\ At(k, "readback")
  /\ LET c == work[k].trying
     IN \/ /\ runs[c] # NoRun => ~startConfirmed(runs[c])
           /\ work' = [work EXCEPT ![k] = result(k, c, "gone", FALSE)]
           /\ UNCHANGED failures
        \/ /\ IF runs[c] = NoRun THEN FALSE ELSE startConfirmed(runs[c])
           /\ confirmed(k, c)
  /\ UNCHANGED <<managerVars, runs, inFlight, workqueue, repository, phase, crashes, changes, past>>

\* Whether the unanswered write was applied, or can no longer be; if neither, or
\* if this read fails too, it may still commit.
Readback(k) ==
  /\ At(k, "readback")
  /\ LET c      == work[k].trying
         run    == runs[c]
         sentTo == (CHOOSE a \in Attempted(k, c) : TRUE)[2]
         gone   == IF run = NoRun THEN TRUE ELSE run.uid # sentTo \/ noLongerStartable(run)
     IN \/ /\ gone
           /\ work' = [work EXCEPT ![k] = result(k, c, "gone", FALSE)]
           /\ UNCHANGED failures
        \/ ~gone /\ startConfirmed(run) /\ confirmed(k, c)
        \/ /\ work' = [work EXCEPT ![k] = result(k, c, "retry", TRUE)]
           /\ UNCHANGED failures
  /\ UNCHANGED <<managerVars, runs, inFlight, workqueue, repository, phase, crashes, changes, past>>

\* The batch is over: an error ends the reconcile, a start ends the admission,
\* and with neither the next candidates are asked for.
FinishBatch(k) ==
  /\ At(k, "batch")
  /\ work[k].todo = {}
  /\ \/ FinishAdmission(k, work[k].started, work[k].gone, work[k].attempts)
     \/ FinishStaleAdmission(k)
  /\ LET after      == mgr'.admissions[Owner(k)]
         unfinished == IF leases[k] = Stale \/ after = NoAdmission THEN FALSE
                       ELSE after.cands # {}
     IN IF work[k].failed \/ unfinished THEN endWithError(k)
        ELSE /\ IF work[k].started # {} \/ work[k].empty THEN proceed(k)
                ELSE work' = [work EXCEPT
                       ![k].pc = "acquire",
                       ![k].list = Filtered(@, Keys \ work[k].gone)]
             /\ UNCHANGED workqueue
  /\ UNCHANGED <<runs, inFlight, repository, phase, boundVars>>

----------------------------------------------------------------------------
(* The cluster: the API server, Tekton and the users                       *)

Commit(c) ==
  /\ c \in inFlight
  /\ \A k \in Keys : work[k].pc = "answer" => work[k].trying # c
  /\ startWrite(c)
  /\ UNCHANGED <<managerVars, work, repository, phase, boundVars>>

Drop(c) ==
  /\ c \in inFlight
  /\ \A k \in Keys : work[k].pc = "answer" => work[k].trying # c
  /\ inFlight' = inFlight \ {c}
  /\ UNCHANGED <<managerVars, runs, workqueue, work, repository, phase, boundVars>>

\* Tekton ends a run it may run, or that was cancelled.
TektonFinishes(c) ==
  /\ runs[c] # NoRun
  /\ runs[c].spec # Pending
  /\ ~runs[c].done
  /\ write(c, [runs[c] EXCEPT !.done = TRUE])
  /\ UNCHANGED <<managerVars, work, repository, phase, boundVars>>

Cancel(c) ==
  /\ c \in Cancellations
  /\ runs[c] # NoRun
  /\ ~Finishing(runs[c])
  /\ write(c, [runs[c] EXCEPT !.spec = Cancelled])
  /\ UNCHANGED <<managerVars, work, repository, phase, boundVars>>

Delete(c) ==
  /\ c \in Cancellations
  /\ runs[c] # NoRun
  /\ ~runs[c].deleting
  /\ write(c, [runs[c] EXCEPT !.deleting = TRUE])
  /\ UNCHANGED <<managerVars, work, repository, phase, boundVars>>

Recreate(c, uid) ==
  /\ c \in Replacements
  /\ runs[c] = NoRun
  /\ uid \notin past[c]
  /\ write(c, newRun(uid))
  /\ past' = [past EXCEPT ![c] = @ \cup {uid}]
  /\ UNCHANGED <<managerVars, work, repository, phase, failures, crashes, changes>>

\* The Repository changes, and enqueueQueuedPipelineRuns wakes its queued runs.
ChangeRepository(l) ==
  /\ changes < MaxChanges
  /\ changes' = changes + 1
  /\ l # repository
  /\ repository' = l
  /\ workqueue' = workqueue \cup {k \in Keys : runs[k] # NoRun /\ runs[k].state = StateQueued}
  /\ UNCHANGED <<managerVars, runs, inFlight, work, phase, failures, crashes, past>>

----------------------------------------------------------------------------
(* Crash and InitQueues                                                    *)

InState(state, specs) ==
  Filtered(Order, {k \in Keys : runs[k] # NoRun /\ runs[k].state = state
                                 /\ runs[k].spec \in specs})

\* Only a limit of its own makes InitQueues look at a Repository.
Initialised == ~Inherited /\ repository \notin {0, NoRepository}

Crash ==
  /\ "restart" \in Successors
  /\ crashes < MaxCrashes
  /\ crashes' = crashes + 1
  /\ Restart
  /\ work' = [k \in Keys |-> Idle]
  /\ phase' = "started"
  /\ workqueue' = {}
  /\ UNCHANGED <<runs, inFlight, repository, failures, changes, past>>

MutantCountsNoStarted ==
  /\ phase = "started"
  /\ inFlight = {}
  /\ phase' = "queued"
  /\ UNCHANGED <<managerVars, runs, inFlight, workqueue, work, repository, boundVars>>

\* Assumed: the requests of a dead process end before its successor lists.
RebuildStarted ==
  /\ phase = "started"
  /\ inFlight = {}
  /\ phase' = "queued"
  /\ IF ~Initialised \/ InState(StateStarted, {Pending, None, Cancelled}) = <<>>
     THEN UNCHANGED managerVars
     ELSE AddListToRunningQueue(InState(StateStarted, {Pending, None, Cancelled}), repository)
  /\ UNCHANGED <<runs, inFlight, workqueue, work, repository, boundVars>>

\* Then the workers start, and the informer brings every run.
RebuildQueued ==
  /\ phase = "queued"
  /\ phase' = "up"
  /\ IF ~Initialised \/ InState(StateQueued, {Pending}) = <<>>
     THEN UNCHANGED managerVars
     ELSE AddToPendingQueue(InState(StateQueued, {Pending}), repository)
  /\ workqueue' = {k \in Keys : runs[k] # NoRun}
  /\ UNCHANGED <<runs, inFlight, work, repository, boundVars>>

\* A standby ran InitQueues when it was started, here before any of the runs;
\* as the leader it is only given every key.
TakeOver ==
  /\ "standby" \in Successors
  /\ crashes < MaxCrashes
  /\ crashes' = crashes + 1
  /\ Restart
  /\ work' = [k \in Keys |-> Idle]
  /\ workqueue' = {k \in Keys : runs[k] # NoRun}
  /\ UNCHANGED <<runs, inFlight, repository, phase, failures, changes, past>>

----------------------------------------------------------------------------
Reconcile(k) ==
  \/ Begin(k) \/ ListRuns(k) \/ Report(k) \/ TerminalWrite(k) \/ ForgetOwner(k)
  \/ BeginWithoutRepository(k) \/ ListWithoutRepository(k) \/ ReportWithoutRepository(k)
  \/ Acquire(k) \/ FinishBatch(k)
  \/ StartAnswered(k) \/ StartUnanswered(k) \/ Readback(k)
  \/ \E c \in Keys : StartCandidate(k, c)

Next ==
  \/ \E k \in Keys : Reconcile(k) \/ Fail(k) \/ TerminalWriteUnanswered(k)
  \/ \E k, c \in Keys : CandidateUnread(k, c)
  \/ \E c \in Keys : Commit(c) \/ Drop(c) \/ TektonFinishes(c) \/ Cancel(c) \/ Delete(c)
  \/ \E c \in Keys, uid \in UIDs : Recreate(c, uid)
  \/ \E l \in Limits \cup Removals : ChangeRepository(l)
  \/ Crash \/ RebuildStarted \/ RebuildQueued \/ TakeOver

\* What enables Reconcile(k): a worker of a key waits for nothing but the end
\* of InitQueues.
Ready(k) ==
  /\ phase = "up"
  /\ work[k].pc = "idle" => k \in workqueue

\* Workers run (weak fairness of Reconcile, with its ENABLED written out), the
\* API server answers or drops each write, and Tekton ends what it runs.
\* Failures, users and crashes owe nothing.
Fairness ==
  /\ \A k \in Keys : <>[]Ready(k) => []<><<Reconcile(k)>>_vars
  /\ \A c \in Keys : WF_vars(Commit(c) \/ Drop(c)) /\ WF_vars(TektonFinishes(c))
  /\ WF_vars(RebuildStarted) /\ WF_vars(RebuildQueued)

Spec == Init /\ [][Next]_vars

FairSpec == Spec /\ Fairness

----------------------------------------------------------------------------
(* Type invariant of the cluster and of the reconciles.                    *)
TypeOK ==
  /\ ManagerTypeOK
  /\ \A k \in Keys : runs[k] = NoRun \/ IsRun(runs[k])
  /\ inFlight \subseteq {k \in Keys : runs[k] # NoRun}
  /\ workqueue \subseteq Keys
  /\ \A k \in Keys : work[k] = Idle <=> work[k].pc = "idle"
  /\ repository \in Limits \cup {NoRepository}
  /\ \A k \in Keys : past[k] \subseteq UIDs /\ (runs[k] = NoRun \/ runs[k].uid \in past[k])

Active(k) == runs[k] # NoRun /\ runs[k].state = StateStarted /\ ~Finishing(runs[k])

(* With a limit that does not change, the runs that are started and not    *)
(* told to stop are never more than it: not when the answer of a start is  *)
(* lost and it commits later, not when runs are cancelled or deleted       *)
(* while others are being started, and not after a restart.                *)
RunsWithinLimit ==
  repository \notin {0, NoRepository} =>
    Cardinality({k \in Keys : Active(k)}) <= repository

(* A start that may still commit has its slot, whatever became of the      *)
(* worker that sent it (admission.go:30).                                  *)
OutstandingStartHasSlot ==
  phase = "up" => \A c \in inFlight : mgr.queue # NoQueue /\ c \in mgr.queue.running

(* A slot that no admission is starting a run in belongs to a run that is  *)
(* not over: a list of queued runs read too early or a replayed handoff    *)
(* leaks none (queue_pipelineruns.go:49, concurrency.md:111).              *)
SlotsBelongToRuns ==
  phase = "up" /\ mgr.queue # NoQueue =>
    \A k \in mgr.queue.running :
      mgr.claims[k] = NoOwner => runs[k] # NoRun /\ HasPlace(runs[k])

(* A run is only ever started from the queue: a delayed start never        *)
(* revives one that was cancelled, deleted, finished or replaced since     *)
(* (reconciler.go:589).                                                    *)
NeverRevived ==
  [][\A k \in Keys :
       runs'[k] # NoRun /\ runs'[k].state = StateStarted /\ runs'[k] # runs[k] =>
         /\ runs[k] # NoRun
         /\ runs[k].state = StateQueued => ~Finishing(runs[k])
         /\ runs[k].state # StateCompleted]_vars

statusOf(run) ==
  IF run = NoRun \/ ~HasPlace(run) THEN "over"
  ELSE IF Finishing(run) THEN "stopping"
  ELSE IF run.state = StateStarted THEN "running"
  ELSE "waiting"

Promise == INSTANCE RunQueue WITH
  limit <- IF repository = NoRepository THEN 0 ELSE repository,
  status <- [k \in Keys |-> statusOf(runs[k])]

(* All the watcher does to the runs is what RunQueue promises: each starts *)
(* once, when there is room, not after it was told to stop, and is over    *)
(* for good when it has left.                                              *)
ImplementsRunQueue == Promise!Spec

(* A queued run is eventually started, over or gone: no answer that is     *)
(* lost, owner that fails or candidate that disappears leaves it waiting.  *)
QueuedRunsLeaveTheQueue ==
  \A k \in Keys :
    (runs[k] # NoRun /\ runs[k].state = StateQueued) ~>
      (runs[k] = NoRun \/ runs[k].state # StateQueued)

Over(k) == runs[k] = NoRun \/ runs[k].state = StateCompleted

(* When no run is left to do, the manager eventually keeps nothing: every  *)
(* slot, place, claim and admission has been given back.                   *)
QueueDrains ==
  <>[](\A k \in Keys : Over(k)) =>
    <>[](/\ mgr.queue # NoQueue => Tracked(mgr.queue) = {}
         /\ Live = {})

(* What the manager holds is the cluster's: the runs that are started are  *)
(* within the limit, and a slot nobody is working on is the slot of a run. *)
QueueFollowsTheRuns == TypeOK /\ RunsWithinLimit /\ SlotsBelongToRuns
=============================================================================
