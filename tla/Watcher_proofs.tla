---------------------------- MODULE Watcher_proofs ----------------------------
(***************************************************************************)
(* Proofs about the watcher.  WatcherInv joins the manager's invariant to  *)
(* one of the cluster, and holds whoever deletes what: Repositories that   *)
(* go and come, runs made again, processes that die.                       *)
(***************************************************************************)
EXTENDS Watcher, QueueManager_proofs

Run == [uid : UIDs, spec : {Pending, None, Cancelled},
        state : {StateQueued, StateStarted, StateCompleted},
        done : BOOLEAN, deleting : BOOLEAN]

Work ==
  [pc : {"idle", "acquire", "list", "report", "write", "forget",
         "batch", "answer", "readback"},
   mode : Modes, ending : BOOLEAN, run : Run \cup {NoRun}, list : Lists,
   todo : SUBSET Keys, trying : Keys \cup {NoKey}, started : SUBSET Keys,
   gone : SUBSET Keys, attempts : SUBSET (Keys \X UIDs), seen : SUBSET Keys,
   failed : BOOLEAN, empty : BOOLEAN, limit : Limits \cup {0}]

\* A worker that holds a lease.
InBatch(k) == work[k].pc \in {"batch", "answer", "readback"}

\* The present version of the run can be written by a start.
Startable(c) == runs[c] # NoRun /\ ~noLongerStartable(runs[c])

\* What a reconcile that goes on knows of its run.
Knows(x, run) ==
  /\ run # NoRun /\ x.run # NoRun /\ x.run.uid = run.uid
  /\ Finishing(x.run) => Finishing(run)
  /\ x.ending \/ x.mode = Promotion \/ x.pc \in {"report", "write"} => Finishing(x.run)
  /\ x.pc \in {"answer", "readback"} => x.trying \in Keys

\* The cluster: a start is only outstanding for a run that can still start, and
\* a worker's run is there, and is not less finished than when it was read.
ClusterInv ==
  /\ runs \in [Keys -> Run \cup {NoRun}]
  /\ work \in [Keys -> Work]
  /\ repository \in Limits \cup {NoRepository}
  /\ phase \in {"up", "started", "queued"}
  /\ inFlight \in SUBSET Keys
  /\ \A c \in inFlight : Startable(c)
  /\ \A k \in Keys : work[k].pc # "idle" => phase = "up" /\ Knows(work[k], runs[k])
  /\ phase = "queued" => inFlight = {}

----------------------------------------------------------------------------
(* The records of a run and of a reconcile, and the changes made to them.  *)
LEMMA NoRunIsNone == NoRun \notin Run
BY WatcherAssumption DEF IsRun, Run

LEMMA RunChanges ==
  ASSUME NEW run \in Run
  PROVE  /\ [run EXCEPT !.done = TRUE] \in Run
         /\ [run EXCEPT !.deleting = TRUE] \in Run
         /\ [run EXCEPT !.spec = Cancelled] \in Run
         /\ [run EXCEPT !.state = StateCompleted] \in Run
         /\ [run EXCEPT !.state = StateStarted,
                        !.spec = IF @ = Pending THEN None ELSE @] \in Run
BY DEF Run

LEMMA IdleIsWork ==
  Idle \in Work /\ Idle.pc = "idle" /\ Idle.attempts = {} /\ Idle.gone = {} /\ Idle.todo = {}
<1>1. 0 \in Limits \cup {0} /\ <<>> \in Lists
  BY WatcherAssumption
<1> QED
  BY <1>1 DEF Idle, Work, Modes, Resume

Sent(w, pc, mode, ending) ==
  [Idle EXCEPT !.pc = pc, !.mode = mode, !.ending = ending, !.run = w.run, !.limit = w.limit]

LEMMA GotoIsWork ==
  ASSUME NEW w \in Work,
         NEW pc \in {"acquire", "list", "report", "write", "forget"},
         NEW mode \in Modes, NEW ending \in BOOLEAN
  PROVE  LET x == Sent(w, pc, mode, ending)
         IN  /\ x \in Work
             /\ x.pc = pc /\ x.mode = mode /\ x.ending = ending /\ x.run = w.run
             /\ x.attempts = {} /\ x.gone = {}
<1>1. w.run \in Run \cup {NoRun} /\ w.limit \in Limits \cup {0}
  BY DEF Work
<1> QED
  BY <1>1, IdleIsWork DEF Work, Sent

(* One worker's record and some runs change: what the others know of their *)
(* runs stays true when no run is replaced or becomes less finished.       *)
Carries(j) ==
  runs[j] # NoRun =>
    runs'[j] # NoRun /\ runs'[j].uid = runs[j].uid /\ (Finishing(runs[j]) => Finishing(runs'[j]))

\* Nothing but the reconcile of k changes in work.
OnlyWorkOf(k) == work' \in [Keys -> Work] /\ \A j \in Keys \ {k} : work'[j] = work[j]

LEMMA ClusterStep ==
  ASSUME ClusterInv,
         NEW k \in Keys, OnlyWorkOf(k),
         work'[k].pc # "idle" => phase = "up" /\ Knows(work'[k], runs'[k]),
         runs' \in [Keys -> Run \cup {NoRun}],
         \A j \in Keys \ {k} : Carries(j),
         inFlight' \in SUBSET Keys, \A c \in inFlight' : Startable(c)',
         phase = "queued" => inFlight' \subseteq inFlight,
         phase' = phase, repository' \in Limits \cup {NoRepository}
  PROVE  ClusterInv'
<1>1. ASSUME NEW j \in Keys, work'[j].pc # "idle"
      PROVE  phase' = "up" /\ Knows(work'[j], runs'[j])
  <2>1. CASE j = k
    BY <1>1, <2>1
  <2>2. CASE j # k
    <3>1. work'[j] = work[j]
      BY <2>2 DEF OnlyWorkOf
    <3>2. phase = "up" /\ Knows(work[j], runs[j])
      BY <1>1, <3>1 DEF ClusterInv
    <3>3. Carries(j)
      BY <2>2
    <3>4. Knows(work[j], runs'[j])
      BY <3>2, <3>3 DEF Knows, Carries
    <3> QED
      BY <3>1, <3>2, <3>4
  <2> QED
    BY <2>1, <2>2
<1>2. phase' = "queued" => inFlight' = {}
  BY DEF ClusterInv
<1> QED
  BY <1>1, <1>2 DEF ClusterInv, OnlyWorkOf

(* A reconcile goes on, or ends, without a lease.                          *)
Outside(x) == x.pc \notin {"batch", "answer", "readback"}

MovesOn(k) ==
  /\ OnlyWorkOf(k)
  /\ Outside(work'[k])
  /\ work'[k].attempts \subseteq work[k].attempts /\ work'[k].gone \subseteq work[k].gone
  /\ work'[k].pc # "idle" => phase = "up" /\ Knows(work'[k], runs[k])

LEMMA EndMovesOn ==
  ASSUME ClusterInv, NEW k \in Keys, end(k)
  PROVE  MovesOn(k)
BY IdleIsWork DEF ClusterInv, end, MovesOn, Outside, OnlyWorkOf

LEMMA StayingMovesOn ==
  ASSUME ClusterInv, NEW k \in Keys, Outside(work[k]), UNCHANGED work
  PROVE  MovesOn(k)
BY DEF ClusterInv, MovesOn, OnlyWorkOf

LEMMA GotoMovesOn ==
  ASSUME ClusterInv, NEW k \in Keys, phase = "up", Knows(work[k], runs[k]),
         NEW pc \in {"acquire", "list", "report", "write", "forget"},
         NEW mode \in Modes, NEW ending \in BOOLEAN,
         ending \/ mode = Promotion \/ pc \in {"report", "write"} => Finishing(work[k].run),
         goto(k, pc, mode, ending)
  PROVE  MovesOn(k)
<1> DEFINE x == Sent(work[k], pc, mode, ending)
<1>1. work \in [Keys -> Work]
  BY DEF ClusterInv
<1>2. /\ x \in Work /\ x.pc = pc /\ x.mode = mode /\ x.ending = ending
      /\ x.run = work[k].run /\ x.attempts = {} /\ x.gone = {}
  <2> DEFINE w == work[k]
  <2>1. w \in Work
    BY <1>1
  <2> HIDE DEF w
  <2>2. LET y == Sent(w, pc, mode, ending)
        IN  /\ y \in Work
            /\ y.pc = pc /\ y.mode = mode /\ y.ending = ending /\ y.run = w.run
            /\ y.attempts = {} /\ y.gone = {}
    BY <2>1, GotoIsWork, SMTT(30)
  <2> QED
    BY <2>2 DEF w
<1>3. work' = [work EXCEPT ![k] = x]
  BY DEF goto, Sent
<1> HIDE DEF x
<1>4. work' \in [Keys -> Work] /\ work'[k] = x /\ \A j \in Keys \ {k} : work'[j] = work[j]
  BY <1>1, <1>2, <1>3
<1>5. Knows(x, runs[k])
  <2>1. x.ending \/ x.mode = Promotion \/ x.pc \in {"report", "write"} => Finishing(x.run)
    BY <1>2
  <2> QED
    BY <1>2, <2>1 DEF Knows
<1>6. Outside(x)
  BY <1>2 DEF Outside
<1> QED
  BY <1>2, <1>4, <1>5, <1>6 DEF MovesOn, OnlyWorkOf

LEMMA ProceedMovesOn ==
  ASSUME ClusterInv, NEW k \in Keys, work[k].pc # "idle", proceed(k)
  PROVE  MovesOn(k)
<1> DEFINE w == work[k]
<1>1. w \in Work /\ phase = "up" /\ Knows(w, runs[k])
  BY DEF ClusterInv
<1>2. /\ w.ending \/ w.mode = Promotion => Finishing(w.run)
      /\ w.run.done \/ w.run.spec = Cancelled => Finishing(w.run)
  BY <1>1 DEF Knows, Finishing
<1>3. Resume \in Modes /\ Initial \in Modes /\ Promotion \in Modes
      /\ Resume # Promotion /\ Initial # Promotion
  BY DEF Modes, Resume, Initial, Promotion
<1>4. \/ goto(k, "acquire", Promotion, TRUE) /\ Finishing(w.run)
      \/ goto(k, "forget", Promotion, TRUE) /\ Finishing(w.run)
      \/ goto(k, "write", Promotion, TRUE) /\ Finishing(w.run)
      \/ goto(k, "report", Resume, TRUE) /\ Finishing(w.run)
      \/ goto(k, "forget", Resume, FALSE)
      \/ goto(k, "list", Initial, FALSE)
      \/ end(k)
  BY <1>2 DEF proceed
<1> QED
  BY <1>1, <1>3, <1>4, EndMovesOn, GotoMovesOn

(* Such a step leaves the cluster's invariant when the runs it writes are  *)
(* not replaced and not less finished.                                     *)
LEMMA MovesOnOK ==
  ASSUME ClusterInv, NEW k \in Keys, MovesOn(k),
         runs' \in [Keys -> Run \cup {NoRun}],
         work'[k].pc = "idle" \/ Carries(k),
         \A j \in Keys \ {k} : Carries(j),
         inFlight' \subseteq inFlight,
         \A c \in inFlight' : runs'[c] = runs[c],
         phase' = phase, repository' \in Limits \cup {NoRepository}
  PROVE  ClusterInv'
<1>1. work'[k].pc # "idle" => phase = "up" /\ Knows(work'[k], runs'[k])
  BY DEF MovesOn, Carries, Knows
<1>2. inFlight' \in SUBSET Keys
  BY DEF ClusterInv
<1>3. ASSUME NEW c \in inFlight' PROVE Startable(c)'
  <2>1. Startable(c) /\ runs'[c] = runs[c]
    BY DEF ClusterInv
  <2> QED
    BY <2>1 DEF Startable
<1> QED
  BY <1>1, <1>2, <1>3, ClusterStep DEF MovesOn

LEMMA MovesOnSameRuns ==
  ASSUME ClusterInv, NEW k \in Keys, MovesOn(k),
         UNCHANGED <<runs, inFlight, phase>>, repository' \in Limits \cup {NoRepository}
  PROVE  ClusterInv'
<1>1. /\ runs' \in [Keys -> Run \cup {NoRun}]
      /\ \A j \in Keys : Carries(j)
  BY DEF ClusterInv, Carries
<1> QED
  BY <1>1, MovesOnOK

(* A write to one run.                                                     *)
LEMMA WriteChanges ==
  ASSUME ClusterInv, NEW k \in Keys, NEW run \in Run \cup {NoRun}, write(k, run)
  PROVE  /\ runs' \in [Keys -> Run \cup {NoRun}]
         /\ runs'[k] = run
         /\ \A j \in Keys \ {k} : runs'[j] = runs[j] /\ Carries(j)
         /\ inFlight' = inFlight \ {k}
         /\ \A c \in inFlight' : runs'[c] = runs[c]
<1>1. runs \in [Keys -> Run \cup {NoRun}] /\ inFlight \in SUBSET Keys
  BY DEF ClusterInv
<1>2. runs' = [runs EXCEPT ![k] = run] /\ inFlight' = inFlight \ {k}
  BY DEF write
<1>3. /\ runs' \in [Keys -> Run \cup {NoRun}] /\ runs'[k] = run
      /\ \A j \in Keys \ {k} : runs'[j] = runs[j]
  BY <1>1, <1>2
<1>4. \A j \in Keys \ {k} : Carries(j)
  BY <1>3 DEF Carries
<1> QED
  BY <1>1, <1>2, <1>3, <1>4

WatcherInv == ManagerIInv /\ ClusterInv

\* What is shown of every step of the watcher.
Orderly == Proper /\ ClusterInv'

----------------------------------------------------------------------------
(* The steps of a reconcile outside of a batch.                            *)
LEMMA Unmanaged ==
  ASSUME ManagerIInv, UNCHANGED managerVars
  PROVE  Proper
BY StutterOK DEF managerVars

LEMMA BeginMovesOn ==
  ASSUME ClusterInv, NEW k \in Keys, Begin(k)
  PROVE  MovesOn(k)
<1>1. work[k].pc = "idle" /\ phase = "up"
  BY DEF Begin, At
<1>2. CASE runs[k] = NoRun
  BY <1>1, <1>2, StayingMovesOn DEF Begin, Outside
<1>3. CASE runs[k] # NoRun
  <2> DEFINE x == [Idle EXCEPT !.pc = IF runs[k].deleting /\ ~HasPlace(runs[k])
                                      THEN "forget" ELSE "acquire",
                               !.ending = runs[k].deleting,
                               !.run = runs[k],
                               !.limit = repository]
  <2>1. work' = [work EXCEPT ![k] = x]
    BY <1>3 DEF Begin
  <2>2. runs[k] \in Run /\ repository \in Limits
    BY <1>3 DEF ClusterInv, Begin
  <2>3. runs[k].deleting \in BOOLEAN
    BY <2>2 DEF Run
  <2>4. /\ x \in Work /\ x.pc \in {"forget", "acquire"} /\ x.mode = Resume
        /\ x.ending = runs[k].deleting /\ x.run = runs[k]
        /\ x.attempts = {} /\ x.gone = {}
    <3>1. Idle \in Work /\ Idle.mode = Resume /\ Idle.attempts = {} /\ Idle.gone = {}
      BY IdleIsWork DEF Idle
    <3> QED
      BY <2>2, <2>3, <3>1 DEF Work
  <2> HIDE DEF x
  <2>5. work' \in [Keys -> Work] /\ work'[k] = x /\ \A j \in Keys \ {k} : work'[j] = work[j]
    BY <2>1, <2>4 DEF ClusterInv
  <2>6. x.ending => Finishing(x.run)
    BY <2>4 DEF Finishing
  <2>7. Knows(x, runs[k])
    BY <1>3, <2>4, <2>6 DEF Knows, Resume, Promotion
  <2>8. Outside(x)
    BY <2>4 DEF Outside
  <2> QED
    BY <1>1, <2>4, <2>5, <2>7, <2>8 DEF MovesOn, OnlyWorkOf
<1> QED
  BY <1>2, <1>3

LEMMA BeginWithoutMovesOn ==
  ASSUME ClusterInv, NEW k \in Keys, BeginWithoutRepository(k)
  PROVE  MovesOn(k)
<1>1. work[k].pc = "idle" /\ phase = "up" /\ runs[k] # NoRun
  BY DEF BeginWithoutRepository, At
<1>2. CASE ~runs[k].deleting
  BY <1>1, <1>2, StayingMovesOn DEF BeginWithoutRepository, Outside
<1>3. CASE runs[k].deleting
  <2> DEFINE x == [Idle EXCEPT !.pc = "forget", !.run = runs[k]]
  <2>1. work' = [work EXCEPT ![k] = x]
    BY <1>3 DEF BeginWithoutRepository
  <2>2. runs[k] \in Run
    BY <1>1 DEF ClusterInv
  <2>3. /\ x \in Work /\ x.pc = "forget" /\ x.mode = Resume /\ x.ending = FALSE
        /\ x.run = runs[k] /\ x.attempts = {} /\ x.gone = {}
    <3>1. Idle \in Work /\ Idle.mode = Resume /\ Idle.ending = FALSE
          /\ Idle.attempts = {} /\ Idle.gone = {}
      BY IdleIsWork DEF Idle
    <3> QED
      BY <2>2, <3>1 DEF Work
  <2> HIDE DEF x
  <2>4. work' \in [Keys -> Work] /\ work'[k] = x /\ \A j \in Keys \ {k} : work'[j] = work[j]
    BY <2>1, <2>3 DEF ClusterInv
  <2>5. Knows(x, runs[k]) /\ Outside(x)
    BY <1>1, <2>3 DEF Knows, Outside, Resume, Promotion
  <2> QED
    BY <1>1, <2>3, <2>4, <2>5 DEF MovesOn, OnlyWorkOf
<1> QED
  BY <1>2, <1>3

LEMMA ReadsMoveOn ==
  ASSUME ClusterInv, NEW k \in Keys, ListRuns(k) \/ Report(k)
  PROVE  MovesOn(k)
<1> DEFINE queued == {j \in Keys : runs[j] # NoRun /\ runs[j].state = StateQueued
                                   /\ runs[j].spec = Pending}
           l == [work[k] EXCEPT !.pc = "acquire", !.limit = repository,
                                !.list = Filtered(Order, queued)]
           r == [work[k] EXCEPT !.pc = "acquire", !.ending = TRUE, !.limit = repository]
<1>1. work[k] \in Work /\ work \in [Keys -> Work] /\ repository \in Limits
  BY DEF ClusterInv, ListRuns, Report
<1>2. work[k].pc \in {"list", "report"} /\ phase = "up" /\ Knows(work[k], runs[k])
  BY DEF ClusterInv, ListRuns, Report, At
<1>3. Filtered(Order, queued) \in Lists
  BY WatcherAssumption
<1>4. /\ l \in Work /\ r \in Work /\ l.pc = "acquire" /\ r.pc = "acquire"
      /\ l.run = work[k].run /\ r.run = work[k].run
      /\ l.mode = work[k].mode /\ r.mode = work[k].mode /\ l.ending = work[k].ending
      /\ l.attempts = work[k].attempts /\ r.attempts = work[k].attempts
      /\ l.gone = work[k].gone /\ r.gone = work[k].gone
  <2> HIDE DEF queued
  <2> QED
    BY <1>1, <1>3 DEF Work
<1>5. CASE ListRuns(k)
  <2>1. work' = [work EXCEPT ![k] = l]
    BY <1>5 DEF ListRuns
  <2> HIDE DEF l
  <2>2. work' \in [Keys -> Work] /\ work'[k] = l /\ \A j \in Keys \ {k} : work'[j] = work[j]
    BY <1>1, <1>4, <2>1
  <2>3. l.ending \/ l.mode = Promotion \/ l.pc \in {"report", "write"} => Finishing(l.run)
    BY <1>2, <1>4 DEF Knows
  <2>4. Knows(l, runs[k]) /\ Outside(l)
    BY <1>2, <1>4, <2>3 DEF Knows, Outside
  <2> QED
    BY <1>2, <1>4, <2>2, <2>4 DEF MovesOn, OnlyWorkOf
<1>6. CASE Report(k)
  <2>1. work' = [work EXCEPT ![k] = r] /\ Finishing(work[k].run)
    BY <1>2, <1>6 DEF Report, Knows, At
  <2> HIDE DEF r
  <2>2. work' \in [Keys -> Work] /\ work'[k] = r /\ \A j \in Keys \ {k} : work'[j] = work[j]
    BY <1>1, <1>4, <2>1
  <2>3. Knows(r, runs[k]) /\ Outside(r)
    BY <1>2, <1>4, <2>1 DEF Knows, Outside
  <2> QED
    BY <1>2, <1>4, <2>2, <2>3 DEF MovesOn, OnlyWorkOf
<1> QED
  BY <1>5, <1>6

(* What a step outside of a batch shows when it leaves the runs alone.     *)
LEMMA StepsOn ==
  ASSUME WatcherInv, NEW k \in Keys, MovesOn(k), Proper,
         UNCHANGED <<runs, inFlight, repository, phase>>
  PROVE  Orderly
<1>1. ClusterInv /\ repository' \in Limits \cup {NoRepository}
  BY DEF WatcherInv, ClusterInv
<1> QED
  BY <1>1, MovesOnSameRuns DEF Orderly

LEMMA BeginStep ==
  ASSUME WatcherInv, NEW k \in Keys, Begin(k)
  PROVE  Orderly
<1>1. UNCHANGED managerVars /\ UNCHANGED <<runs, inFlight, repository, phase>>
  BY DEF Begin
<1> QED
  BY <1>1, BeginMovesOn, Unmanaged, StepsOn DEF WatcherInv

LEMMA BeginWithoutRepositoryStep ==
  ASSUME WatcherInv, NEW k \in Keys, BeginWithoutRepository(k)
  PROVE  Orderly
<1>1. /\ UNCHANGED managerVars \/ RemoveRepository
      /\ UNCHANGED <<runs, inFlight, repository, phase>>
  BY DEF BeginWithoutRepository
<1>2. Proper
  BY <1>1, Unmanaged, RemoveRepositoryStep DEF WatcherInv
<1> QED
  BY <1>1, <1>2, BeginWithoutMovesOn, StepsOn DEF WatcherInv

LEMMA ReadStep ==
  ASSUME WatcherInv, NEW k \in Keys, ListRuns(k) \/ Report(k)
  PROVE  Orderly
<1>1. UNCHANGED managerVars /\ UNCHANGED <<runs, inFlight, repository, phase>>
  BY DEF ListRuns, Report
<1> QED
  BY <1>1, ReadsMoveOn, Unmanaged, StepsOn DEF WatcherInv

LEMMA ReadWithoutRepositoryStep ==
  ASSUME WatcherInv, NEW k \in Keys, ListWithoutRepository(k) \/ ReportWithoutRepository(k)
  PROVE  Orderly
<1>1. /\ UNCHANGED managerVars \/ RemoveRepository
      /\ end(k) /\ UNCHANGED <<runs, inFlight, repository, phase>>
  BY DEF ListWithoutRepository, ReportWithoutRepository, endWithError
<1>2. Proper
  BY <1>1, Unmanaged, RemoveRepositoryStep DEF WatcherInv
<1> QED
  BY <1>1, <1>2, EndMovesOn, StepsOn DEF WatcherInv

LEMMA FailStep ==
  ASSUME WatcherInv, NEW k \in Keys, Fail(k)
  PROVE  Orderly
<1>1. UNCHANGED managerVars /\ end(k) /\ UNCHANGED <<runs, inFlight, repository, phase>>
  BY DEF Fail, endWithError
<1> QED
  BY <1>1, EndMovesOn, Unmanaged, StepsOn DEF WatcherInv

(* The terminal write: the run is no less finished by it.                  *)
LEMMA TerminalWriteStep ==
  ASSUME WatcherInv, NEW k \in Keys, TerminalWrite(k) \/ TerminalWriteUnanswered(k)
  PROVE  Orderly
<1> DEFINE run == [runs[k] EXCEPT !.state = StateCompleted]
<1>1. /\ UNCHANGED managerVars /\ write(k, run) /\ UNCHANGED <<repository, phase>>
      /\ At(k, "write")
      /\ goto(k, "forget", Promotion, TRUE) \/ end(k)
  BY DEF TerminalWrite, TerminalWriteUnanswered
<1>2. ClusterInv /\ phase = "up" /\ Knows(work[k], runs[k]) /\ work[k].pc # "idle"
  BY <1>1 DEF WatcherInv, ClusterInv, At
<1>3. runs[k] \in Run
  BY <1>2 DEF ClusterInv, Knows
<1>4. run \in Run /\ run.uid = runs[k].uid /\ (Finishing(runs[k]) => Finishing(run))
  BY <1>3, RunChanges DEF Finishing, Run
<1> HIDE DEF run
<1>5. /\ runs' \in [Keys -> Run \cup {NoRun}]
      /\ runs'[k] = run
      /\ \A j \in Keys \ {k} : runs'[j] = runs[j] /\ Carries(j)
      /\ inFlight' = inFlight \ {k}
      /\ \A c \in inFlight' : runs'[c] = runs[c]
  BY <1>1, <1>2, <1>4, WriteChanges
<1>6. Carries(k)
  BY <1>4, <1>5, NoRunIsNone DEF Carries
<1>7. MovesOn(k)
  <2>1. CASE end(k)
    BY <1>2, <2>1, EndMovesOn
  <2>2. CASE goto(k, "forget", Promotion, TRUE)
    <3>1. Promotion \in Modes /\ Finishing(work[k].run)
      BY <1>1, <1>2 DEF Modes, Knows, At
    <3> QED
      BY <1>2, <2>2, <3>1, GotoMovesOn
  <2> QED
    BY <1>1, <2>1, <2>2
<1>8. repository' \in Limits \cup {NoRepository}
  BY <1>1, <1>2 DEF ClusterInv
<1>9. ClusterInv'
  BY <1>1, <1>2, <1>5, <1>6, <1>7, <1>8, MovesOnOK
<1> QED
  BY <1>1, <1>9, Unmanaged DEF Orderly, WatcherInv

LEMMA ForgetOwnerStep ==
  ASSUME WatcherInv, NEW k \in Keys, ForgetOwner(k)
  PROVE  Orderly
<1>1. /\ At(k, "forget") /\ end(k) /\ UNCHANGED <<repository, phase>>
      /\ ForgetAdmission(Owner(k)) \/ UNCHANGED managerVars
      /\ write(k, NoRun) \/ UNCHANGED <<runs, inFlight>>
  BY DEF ForgetOwner
<1>2. ClusterInv /\ Knows(work[k], runs[k])
  BY <1>1 DEF WatcherInv, ClusterInv, At
<1>3. Owner(k) \in Owners
  BY <1>2 DEF ClusterInv, Knows, Work, Run, Owner, Owners
<1>4. Proper
  BY <1>1, <1>3, Unmanaged, ForgetStep DEF WatcherInv
<1>5. MovesOn(k) /\ work'[k].pc = "idle"
  BY <1>1, <1>2, EndMovesOn, IdleIsWork DEF end, ClusterInv
<1>6. repository' \in Limits \cup {NoRepository}
  BY <1>1, <1>2 DEF ClusterInv
<1>7. CASE write(k, NoRun)
  <2>1. /\ runs' \in [Keys -> Run \cup {NoRun}]
        /\ \A j \in Keys \ {k} : runs'[j] = runs[j] /\ Carries(j)
        /\ inFlight' = inFlight \ {k}
        /\ \A c \in inFlight' : runs'[c] = runs[c]
    BY <1>2, <1>7, WriteChanges
  <2>2. ClusterInv'
    BY <1>1, <1>2, <1>5, <1>6, <2>1, MovesOnOK
  <2> QED
    BY <1>4, <2>2 DEF Orderly
<1>8. CASE UNCHANGED <<runs, inFlight>>
  <2>1. ClusterInv'
    BY <1>1, <1>2, <1>5, <1>6, <1>8, MovesOnSameRuns
  <2> QED
    BY <1>4, <2>1 DEF Orderly
<1> QED
  BY <1>1, <1>7, <1>8

----------------------------------------------------------------------------
(* The steps of a batch.  They change the reconcile of k only, and leave   *)
(* what it knows of its own run as it is.                                  *)
Batches(k) ==
  /\ OnlyWorkOf(k)
  /\ work'[k].run = work[k].run /\ work'[k].mode = work[k].mode
  /\ work'[k].ending = work[k].ending
  /\ work'[k].pc = "batch" \/ (/\ work'[k].pc \in {"answer", "readback"}
                               /\ work'[k].trying \in Keys)

LEMMA BatchesOK ==
  ASSUME ClusterInv, NEW k \in Keys, Batches(k), work[k].pc # "idle",
         runs' \in [Keys -> Run \cup {NoRun}], \A j \in Keys : Carries(j),
         inFlight' \in SUBSET Keys, \A c \in inFlight' : Startable(c)',
         phase' = phase, repository' \in Limits \cup {NoRepository}
  PROVE  ClusterInv'
<1>1. phase = "up" /\ Knows(work[k], runs[k]) /\ Carries(k)
  BY DEF ClusterInv
<1>2. Knows(work'[k], runs'[k])
  <2>1. /\ runs'[k] # NoRun /\ work'[k].run # NoRun /\ work'[k].run.uid = runs'[k].uid
        /\ Finishing(work'[k].run) => Finishing(runs'[k])
    BY <1>1 DEF Knows, Carries, Batches
  <2>2. work'[k].ending \/ work'[k].mode = Promotion \/ work'[k].pc \in {"report", "write"}
          => Finishing(work'[k].run)
    BY <1>1 DEF Knows, Batches
  <2>3. work'[k].pc \in {"answer", "readback"} => work'[k].trying \in Keys
    BY DEF Batches
  <2> QED
    BY <2>1, <2>2, <2>3 DEF Knows
<1>3. OnlyWorkOf(k) /\ phase # "queued"
  BY <1>1 DEF Batches
<1> QED
  BY <1>1, <1>2, <1>3, ClusterStep

LEMMA BatchesSameRuns ==
  ASSUME WatcherInv, NEW k \in Keys, Batches(k), work[k].pc # "idle", Proper,
         UNCHANGED <<runs, repository, phase>>,
         \A c \in inFlight' : c \in inFlight \/ (c \in Keys /\ Startable(c))
  PROVE  Orderly
<1>1. ClusterInv
  BY DEF WatcherInv
<1>2. /\ runs' \in [Keys -> Run \cup {NoRun}] /\ \A j \in Keys : Carries(j)
      /\ repository' \in Limits \cup {NoRepository}
  BY <1>1 DEF ClusterInv, Carries
<1>3. inFlight' \in SUBSET Keys /\ \A c \in inFlight' : Startable(c)'
  BY <1>1 DEF ClusterInv, Startable
<1> QED
  BY <1>1, <1>2, <1>3, BatchesOK DEF Orderly

(* A reconcile's call of AcquireAdmission is one of the manager's.         *)
LEMMA Callable ==
  ASSUME ClusterInv, NEW k \in Keys, work[k].pc # "idle"
  PROVE  /\ k \in Workers /\ Owner(k) \in Owners
         /\ work[k] \in Work /\ work[k].mode \in Modes
         /\ work[k].list \in Seq(Keys) /\ work[k].limit \in Nat
         /\ work[k].attempts \in SUBSET (Keys \X UIDs)
<1>1. k \in Workers
  BY WatcherAssumption
<1>2. work[k] \in Work /\ Knows(work[k], runs[k])
  BY DEF ClusterInv
<1>3. Owner(k) \in Owners
  BY <1>2 DEF Knows, Work, Run, Owner, Owners
<1>4. work[k].mode \in Modes /\ work[k].attempts \in SUBSET (Keys \X UIDs)
  BY <1>2 DEF Work
<1>5. work[k].list \in Seq(Keys) /\ work[k].limit \in Nat
  <2>1. work[k].list \in Lists /\ work[k].limit \in Limits \cup {0}
    BY <1>2 DEF Work
  <2>2. Lists \subseteq Seq(Keys)
    BY QueueManagerAssumption
  <2>3. work[k].list \in Seq(Keys)
    BY <2>1, <2>2, Zenon
  <2>4. Limits \subseteq Nat
    BY QueueManagerAssumption
  <2>5. work[k].limit \in Nat
    <3>1. 0 \in Nat
      OBVIOUS
    <3> QED
      BY <2>1, <2>4, <3>1, Zenon
  <2> QED
    BY <2>3, <2>5
<1> QED
  BY <1>1, <1>2, <1>3, <1>4, <1>5, Zenon

\* The reconcile takes the candidates of its new lease.
TakesBatch(k) ==
  work' = [work EXCEPT
        ![k].pc = "batch", ![k].started = {}, ![k].gone = {},
        ![k].empty = leases'[k].cands = {},
        ![k].todo = leases'[k].cands \ work[k].seen,
        ![k].failed = leases'[k].cands \cap work[k].seen # {},
        ![k].seen = @ \cup leases'[k].cands,
        ![k].attempts = leases'[k].attempts]

LEMMA AcquireStarts ==
  ASSUME WatcherInv, NEW k \in Keys, At(k, "acquire"),
         AcquireWork(k, Owner(k), work[k].list, work[k].mode, Finishing(work[k].run),
                     work[k].limit),
         TakesBatch(k)
  PROVE  /\ Proper /\ Batches(k) /\ leases'[k] \in Lease
         /\ work'[k].pc = "batch" /\ work'[k].gone = {}
         /\ work'[k].todo \subseteq leases'[k].cands
         /\ work'[k].attempts = leases'[k].attempts
<1> DEFINE l == leases'[k]
           w == work[k]
           x == [w EXCEPT !.pc = "batch", !.started = {}, !.gone = {},
                          !.empty = l.cands = {}, !.todo = l.cands \ w.seen,
                          !.failed = l.cands \cap w.seen # {},
                          !.seen = @ \cup l.cands, !.attempts = l.attempts]
<1>1. ManagerIInv /\ ClusterInv /\ w.pc # "idle"
  BY DEF WatcherInv, At
<1>2. /\ k \in Workers /\ Owner(k) \in Owners
      /\ w.list \in Seq(Keys) /\ w.limit \in Nat
  BY <1>1, Callable
<1>3. Proper /\ Working(leases', k)
  BY <1>1, <1>2, AcquireWorkStep
<1>4. l \in Lease
  BY <1>2, <1>3 DEF Proper, ManagerIInv, LeasesMatch, Working
<1>5. work \in [Keys -> Work] /\ w \in Work
  BY <1>1 DEF ClusterInv
<1>6. work' = [work EXCEPT ![k] = x]
  BY DEF TakesBatch
<1> HIDE DEF w, l
<1>7. l.cands \in SUBSET Keys /\ l.attempts \in SUBSET (Keys \X UIDs)
  BY <1>4 DEF Lease
<1>8. /\ x \in Work /\ x.pc = "batch" /\ x.gone = {} /\ x.todo = l.cands \ w.seen
      /\ x.attempts = l.attempts /\ x.run = w.run /\ x.mode = w.mode /\ x.ending = w.ending
  <2> DEFINE todo == l.cands \ w.seen
             seen == w.seen \cup l.cands
             met == l.cands \cap w.seen # {}
             none == l.cands = {}
  <2>1. todo \in SUBSET Keys /\ seen \in SUBSET Keys /\ met \in BOOLEAN /\ none \in BOOLEAN
    BY <1>5, <1>7 DEF Work
  <2>2. x = [w EXCEPT !.pc = "batch", !.started = {}, !.gone = {}, !.empty = none,
                      !.todo = todo, !.failed = met, !.seen = seen,
                      !.attempts = l.attempts]
    OBVIOUS
  <2> HIDE DEF x, todo, seen, met, none
  <2>3. x \in Work
    BY <1>5, <1>7, <2>1, <2>2 DEF Work
  <2>4. /\ x.pc = "batch" /\ x.gone = {} /\ x.todo = todo /\ x.attempts = l.attempts
        /\ x.run = w.run /\ x.mode = w.mode /\ x.ending = w.ending
    BY <1>5, <2>2 DEF Work
  <2> QED
    BY <2>3, <2>4 DEF todo
<1> HIDE DEF x
<1>9. work' \in [Keys -> Work] /\ work'[k] = x /\ \A j \in Keys \ {k} : work'[j] = work[j]
  BY <1>5, <1>6, <1>8
<1> QED
  BY <1>3, <1>4, <1>8, <1>9 DEF w, l, Batches, OnlyWorkOf

LEMMA AcquireOnceStep ==
  ASSUME WatcherInv, NEW k \in Keys, Acquire(k)
  PROVE  Orderly
<1>1. /\ ManagerIInv /\ ClusterInv /\ work[k].pc # "idle" /\ At(k, "acquire")
      /\ UNCHANGED <<runs, inFlight, repository, phase>>
  BY DEF WatcherInv, Acquire, At
<1>2. /\ k \in Workers /\ Owner(k) \in Owners
      /\ work[k].list \in Seq(Keys) /\ work[k].limit \in Nat
  BY <1>1, Callable
<1>3. CASE AcquireNothing(Owner(k), work[k].mode, work[k].limit) /\ proceed(k)
  BY <1>1, <1>2, <1>3, AcquireNothingStep, ProceedMovesOn, StepsOn
<1>4. CASE AcquireRefused(Owner(k), work[k].mode, work[k].limit) /\ end(k)
  BY <1>1, <1>2, <1>4, AcquireNothingStep, EndMovesOn, StepsOn
<1>5. CASE /\ AcquireBlocked(Owner(k), work[k].list, work[k].mode, Finishing(work[k].run),
                             work[k].limit)
           /\ end(k)
  BY <1>1, <1>2, <1>5, AcquireBlockedStep, EndMovesOn, StepsOn
<1>6. CASE /\ AcquireWork(k, Owner(k), work[k].list, work[k].mode, Finishing(work[k].run),
                          work[k].limit)
           /\ TakesBatch(k)
  <2>1. Proper /\ Batches(k)
    BY <1>1, <1>6, AcquireStarts
  <2>2. UNCHANGED <<runs, repository, phase>> /\ inFlight' = inFlight
    BY <1>1
  <2>3. \A c \in inFlight' : c \in inFlight \/ (c \in Keys /\ Startable(c))
    BY <2>2
  <2> QED
    BY <1>1, <2>1, <2>2, <2>3, BatchesSameRuns
<1>7. \/ AcquireNothing(Owner(k), work[k].mode, work[k].limit) /\ proceed(k)
      \/ AcquireRefused(Owner(k), work[k].mode, work[k].limit) /\ end(k)
      \/ /\ AcquireBlocked(Owner(k), work[k].list, work[k].mode, Finishing(work[k].run),
                            work[k].limit)
         /\ end(k)
      \/ /\ AcquireWork(k, Owner(k), work[k].list, work[k].mode, Finishing(work[k].run),
                         work[k].limit)
         /\ TakesBatch(k)
  BY Zenon DEF Acquire, endWithError, TakesBatch
<1> QED
  BY <1>3, <1>4, <1>5, <1>6, <1>7

(* The end of one candidate.                                               *)
Ends(k, c, outcome) ==
  /\ Batches(k) /\ work'[k].pc = "batch"
  /\ work'[k].attempts = work[k].attempts /\ work'[k].todo = work[k].todo \ {c}
  /\ work'[k].gone = IF outcome = "gone" THEN work[k].gone \cup {c} ELSE work[k].gone

LEMMA ResultBatches ==
  ASSUME ClusterInv, NEW k \in Keys, NEW c \in Keys, NEW outcome, NEW failed \in BOOLEAN,
         work' = [work EXCEPT ![k] = result(k, c, outcome, failed)]
  PROVE  Ends(k, c, outcome)
<1> DEFINE x == result(k, c, outcome, failed)
<1>1. work \in [Keys -> Work] /\ work[k] \in Work
  BY DEF ClusterInv
<1>3. /\ x \in Work /\ x.pc = "batch"
      /\ x.mode = work[k].mode /\ x.ending = work[k].ending /\ x.run = work[k].run
      /\ x.attempts = work[k].attempts /\ x.todo = work[k].todo \ {c}
      /\ x.gone = IF outcome = "gone" THEN work[k].gone \cup {c} ELSE work[k].gone
  BY <1>1 DEF result, Work
<1> HIDE DEF x
<1>4. work' = [work EXCEPT ![k] = x]
  BY DEF x
<1>5. work' \in [Keys -> Work] /\ work'[k] = x /\ \A j \in Keys \ {k} : work'[j] = work[j]
  BY <1>1, <1>3, <1>4
<1> QED
  BY <1>3, <1>5 DEF Ends, Batches, OnlyWorkOf

LEMMA StartCandidateStep ==
  ASSUME WatcherInv, NEW k \in Keys, NEW c \in Keys, StartCandidate(k, c)
  PROVE  Orderly /\ Batches(k)
<1>1. /\ ClusterInv /\ work[k].pc # "idle" /\ Proper
      /\ UNCHANGED <<runs, repository, phase>>
  BY Unmanaged DEF WatcherInv, StartCandidate, At
<1>2. \/ work' = [work EXCEPT ![k] = result(k, c, "gone", FALSE)] /\ inFlight' = inFlight
      \/ /\ runs[c] # NoRun /\ ~noLongerStartable(runs[c])
         /\ work' = [work EXCEPT ![k] =
              [[work[k] EXCEPT !.attempts = @ \cup {<<c, runs[c].uid>>}] EXCEPT
                 !.pc = "answer", !.trying = c]]
         /\ inFlight' = inFlight \cup {c}
  BY DEF StartCandidate
<1>3. CASE work' = [work EXCEPT ![k] = result(k, c, "gone", FALSE)] /\ inFlight' = inFlight
  <2>1. Batches(k)
    BY <1>1, <1>3, ResultBatches DEF Ends
  <2> QED
    BY <1>1, <1>3, <2>1, BatchesSameRuns
<1>4. CASE /\ runs[c] # NoRun /\ ~noLongerStartable(runs[c])
           /\ work' = [work EXCEPT ![k] =
                [[work[k] EXCEPT !.attempts = @ \cup {<<c, runs[c].uid>>}] EXCEPT
                   !.pc = "answer", !.trying = c]]
           /\ inFlight' = inFlight \cup {c}
  <2> DEFINE w == work[k]
             attempts == w.attempts \cup {<<c, runs[c].uid>>}
             x == [[w EXCEPT !.attempts = attempts] EXCEPT !.pc = "answer", !.trying = c]
  <2>1. work \in [Keys -> Work] /\ w \in Work
    BY <1>1 DEF ClusterInv
  <2>2. work' = [work EXCEPT ![k] = x]
    BY <1>4
  <2>3. runs[c].uid \in UIDs
    BY <1>1, <1>4 DEF ClusterInv, Run
  <2>4. attempts \in SUBSET (Keys \X UIDs)
    BY <2>1, <2>3 DEF Work
  <2> HIDE DEF w, attempts
  <2>5. /\ x \in Work /\ x.pc = "answer" /\ x.run = w.run /\ x.mode = w.mode
        /\ x.ending = w.ending /\ x.trying = c
    BY <2>1, <2>4 DEF Work
  <2> HIDE DEF x
  <2>6. work' \in [Keys -> Work] /\ work'[k] = x /\ \A j \in Keys \ {k} : work'[j] = work[j]
    BY <2>1, <2>2, <2>5
  <2>7. Batches(k)
    BY <2>5, <2>6 DEF w, Batches, OnlyWorkOf
  <2>8. \A d \in inFlight' : d \in inFlight \/ (d \in Keys /\ Startable(d))
    BY <1>4 DEF Startable
  <2> QED
    BY <1>1, <2>7, <2>8, BatchesSameRuns
<1> QED
  BY <1>2, <1>3, <1>4

LEMMA CandidateUnreadStep ==
  ASSUME WatcherInv, NEW k \in Keys, NEW c \in Keys, CandidateUnread(k, c)
  PROVE  Orderly
<1>1. /\ ClusterInv /\ work[k].pc # "idle" /\ Proper
      /\ UNCHANGED <<runs, inFlight, repository, phase>>
      /\ work' = [work EXCEPT ![k] = result(k, c, "retry", TRUE)]
  BY Unmanaged DEF WatcherInv, CandidateUnread, At
<1>2. Ends(k, c, "retry")
  BY <1>1, ResultBatches
<1>3. Batches(k)
  BY <1>2 DEF Ends
<1> QED
  BY <1>1, <1>3, BatchesSameRuns

(* A start that commits is of a run that may start.                        *)
LEMMA StartWriteChanges ==
  ASSUME ClusterInv, NEW c \in inFlight, startWrite(c)
  PROVE  /\ Startable(c)
         /\ runs' \in [Keys -> Run \cup {NoRun}]
         /\ runs'[c] = [runs[c] EXCEPT !.state = StateStarted,
                                       !.spec = IF @ = Pending THEN None ELSE @]
         /\ \A j \in Keys \ {c} : runs'[j] = runs[j]
         /\ \A j \in Keys : Carries(j)
         /\ inFlight' = inFlight \ {c} /\ inFlight' \in SUBSET Keys
         /\ \A d \in inFlight' : Startable(d)'
<1> DEFINE run == [runs[c] EXCEPT !.state = StateStarted,
                                  !.spec = IF @ = Pending THEN None ELSE @]
<1>1. c \in Keys /\ Startable(c) /\ write(c, run)
  BY DEF ClusterInv, startWrite
<1>2. runs[c] \in Run
  BY <1>1 DEF ClusterInv, Startable
<1>3. run \in Run /\ run.uid = runs[c].uid
  BY <1>2, RunChanges DEF Run
<1> HIDE DEF run
<1>4. /\ runs' \in [Keys -> Run \cup {NoRun}]
      /\ runs'[c] = run
      /\ \A j \in Keys \ {c} : runs'[j] = runs[j] /\ Carries(j)
      /\ inFlight' = inFlight \ {c}
      /\ \A d \in inFlight' : runs'[d] = runs[d]
  BY <1>1, <1>3, WriteChanges
<1>5. Carries(c)
  BY <1>1, <1>3, <1>4, NoRunIsNone DEF Carries, Startable, noLongerStartable
<1>6. inFlight' \in SUBSET Keys
  BY <1>4 DEF ClusterInv
<1>7. ASSUME NEW d \in inFlight' PROVE Startable(d)'
  <2>1. Startable(d) /\ runs'[d] = runs[d]
    BY <1>4 DEF ClusterInv
  <2> QED
    BY <2>1 DEF Startable
<1> QED
  BY <1>1, <1>4, <1>5, <1>6, <1>7 DEF run

LEMMA ConfirmedBatches ==
  ASSUME ClusterInv, NEW k \in Keys, NEW c \in Keys, confirmed(k, c)
  PROVE  Ends(k, c, "started")
<1>1. PICK failed \in BOOLEAN :
        work' = [work EXCEPT ![k] = result(k, c, "started", failed)]
  BY DEF confirmed
<1> QED
  BY <1>1, ResultBatches

LEMMA StartAnsweredStep ==
  ASSUME WatcherInv, NEW k \in Keys, StartAnswered(k)
  PROVE  Orderly /\ Batches(k)
<1>1. /\ ClusterInv /\ work[k].pc # "idle" /\ Proper
      /\ work[k].trying \in inFlight /\ startWrite(work[k].trying)
      /\ confirmed(k, work[k].trying) /\ UNCHANGED <<repository, phase>>
  BY Unmanaged DEF WatcherInv, StartAnswered, At
<1>2. work[k].trying \in Keys
  BY <1>1 DEF ClusterInv
<1>3. Batches(k)
  BY <1>1, <1>2, ConfirmedBatches DEF Ends
<1>4. /\ runs' \in [Keys -> Run \cup {NoRun}] /\ \A j \in Keys : Carries(j)
      /\ inFlight' \in SUBSET Keys /\ \A d \in inFlight' : Startable(d)'
  BY <1>1, StartWriteChanges
<1>5. repository' \in Limits \cup {NoRepository} /\ phase' = phase
  BY <1>1 DEF ClusterInv
<1>6. ClusterInv'
  BY <1>1, <1>3, <1>4, <1>5, BatchesOK
<1> QED
  BY <1>1, <1>3, <1>6 DEF Orderly

LEMMA StartUnansweredStep ==
  ASSUME WatcherInv, NEW k \in Keys, StartUnanswered(k)
  PROVE  Orderly /\ Batches(k)
<1> DEFINE x == [work[k] EXCEPT !.pc = "readback"]
<1>1. /\ ClusterInv /\ work[k].pc = "answer" /\ Proper
      /\ UNCHANGED <<runs, inFlight, repository, phase>>
      /\ work' = [work EXCEPT ![k] = x]
  BY Unmanaged DEF WatcherInv, StartUnanswered, At
<1>2. work \in [Keys -> Work] /\ work[k] \in Work /\ work[k].trying \in Keys
  BY <1>1 DEF ClusterInv, Knows
<1>3. /\ x \in Work /\ x.pc = "readback" /\ x.run = work[k].run /\ x.mode = work[k].mode
      /\ x.ending = work[k].ending /\ x.trying = work[k].trying
  BY <1>2 DEF Work
<1> HIDE DEF x
<1>4. work' \in [Keys -> Work] /\ work'[k] = x /\ \A j \in Keys \ {k} : work'[j] = work[j]
  BY <1>1, <1>2, <1>3
<1>5. Batches(k)
  BY <1>2, <1>3, <1>4 DEF Batches, OnlyWorkOf
<1> QED
  BY <1>1, <1>5, BatchesSameRuns

LEMMA ReadbackStep ==
  ASSUME WatcherInv, NEW k \in Keys, Readback(k)
  PROVE  Orderly /\ Batches(k)
<1> DEFINE c == work[k].trying
<1>1. /\ ClusterInv /\ work[k].pc = "readback" /\ Proper
      /\ UNCHANGED <<runs, inFlight, repository, phase>>
      /\ \/ work' = [work EXCEPT ![k] = result(k, c, "gone", FALSE)]
         \/ confirmed(k, c)
         \/ work' = [work EXCEPT ![k] = result(k, c, "retry", TRUE)]
  BY Unmanaged DEF WatcherInv, Readback, At
<1>2. c \in Keys
  BY <1>1 DEF ClusterInv, Knows
<1> HIDE DEF c
<1>3. \E outcome : Ends(k, c, outcome)
  <2>1. CASE work' = [work EXCEPT ![k] = result(k, c, "gone", FALSE)]
    <3>1. Ends(k, c, "gone")
      BY <1>1, <1>2, <2>1, ResultBatches
    <3> QED
      BY <3>1
  <2>2. CASE confirmed(k, c)
    BY <1>1, <1>2, <2>2, ConfirmedBatches
  <2>3. CASE work' = [work EXCEPT ![k] = result(k, c, "retry", TRUE)]
    <3>1. Ends(k, c, "retry")
      BY <1>1, <1>2, <2>3, ResultBatches
    <3> QED
      BY <3>1
  <2> QED
    BY <1>1, <2>1, <2>2, <2>3
<1>4. Batches(k)
  BY <1>3 DEF Ends
<1> QED
  BY <1>1, <1>4, BatchesSameRuns

LEMMA FinishBatchMovesOn ==
  ASSUME ClusterInv, NEW k \in Keys, FinishBatch(k)
  PROVE  MovesOn(k)
<1> DEFINE x == [work[k] EXCEPT !.pc = "acquire", !.list = Filtered(@, Keys \ work[k].gone)]
<1>1. /\ work[k].pc = "batch"
      /\ end(k) \/ proceed(k) \/ work' = [work EXCEPT ![k] = x]
  BY DEF FinishBatch, At, endWithError
<1>2. CASE end(k)
  BY <1>2, EndMovesOn
<1>3. CASE proceed(k)
  BY <1>1, <1>3, ProceedMovesOn
<1>4. CASE work' = [work EXCEPT ![k] = x]
  <2> DEFINE w == work[k]
  <2>1. /\ work \in [Keys -> Work] /\ w \in Work /\ phase = "up" /\ Knows(w, runs[k])
    BY <1>1 DEF ClusterInv
  <2>2. Filtered(w.list, Keys \ w.gone) \in Lists
    BY <2>1, WatcherAssumption DEF Work
  <2>3. /\ x \in Work /\ x.pc = "acquire" /\ x.run = w.run /\ x.mode = w.mode
        /\ x.ending = w.ending /\ x.attempts = w.attempts /\ x.gone = w.gone
    BY <2>1, <2>2 DEF Work
  <2> HIDE DEF x
  <2>4. work' \in [Keys -> Work] /\ work'[k] = x /\ \A j \in Keys \ {k} : work'[j] = work[j]
    BY <1>4, <2>1, <2>3
  <2>5. Knows(x, runs[k]) /\ Outside(x)
    BY <2>1, <2>3 DEF Knows, Outside
  <2> QED
    BY <2>1, <2>3, <2>4, <2>5 DEF MovesOn, OnlyWorkOf
<1> QED
  BY <1>1, <1>2, <1>3, <1>4

LEMMA FinishBatchStep ==
  ASSUME WatcherInv, NEW k \in Keys, FinishBatch(k)
  PROVE  Orderly
<1>1. /\ ManagerIInv /\ ClusterInv /\ work[k].pc # "idle"
      /\ UNCHANGED <<runs, inFlight, repository, phase>>
      /\ \/ FinishAdmission(k, work[k].started, work[k].gone, work[k].attempts)
         \/ FinishStaleAdmission(k)
  BY DEF WatcherInv, FinishBatch, At
<1>2. k \in Workers /\ work[k].attempts \in SUBSET (Keys \X UIDs)
  BY <1>1, Callable
<1>3. Proper
  <2>1. CASE FinishAdmission(k, work[k].started, work[k].gone, work[k].attempts)
    <3>1. Working(leases, k)
      BY <2>1 DEF FinishAdmission, Working
    <3> QED
      BY <1>1, <1>2, <2>1, <3>1, FinishAdmissionStep
  <2>2. CASE FinishStaleAdmission(k)
    BY <1>1, <1>2, <2>2, FinishStaleStep
  <2> QED
    BY <1>1, <2>1, <2>2
<1> QED
  BY <1>1, <1>3, FinishBatchMovesOn, StepsOn

----------------------------------------------------------------------------
(* The steps of the cluster.                                               *)
LEMMA ClusterMoves ==
  ASSUME WatcherInv, UNCHANGED managerVars, UNCHANGED <<work, phase>>,
         runs' \in [Keys -> Run \cup {NoRun}], \A j \in Keys : Carries(j),
         inFlight' \subseteq inFlight, \A c \in inFlight' : runs'[c] = runs[c],
         repository' \in Limits \cup {NoRepository}
  PROVE  Orderly
<1>1. ClusterInv
  BY DEF WatcherInv
<1>2. ASSUME NEW j \in Keys, work'[j].pc # "idle"
      PROVE  phase' = "up" /\ Knows(work'[j], runs'[j])
  <2>1. phase = "up" /\ Knows(work[j], runs[j]) /\ Carries(j)
    BY <1>1, <1>2 DEF ClusterInv
  <2>2. Knows(work[j], runs'[j])
    BY <2>1 DEF Knows, Carries
  <2> QED
    BY <2>1, <2>2
<1>3. ASSUME NEW c \in inFlight' PROVE Startable(c)'
  <2>1. Startable(c) /\ runs'[c] = runs[c]
    BY <1>1 DEF ClusterInv
  <2> QED
    BY <2>1 DEF Startable
<1>4. ClusterInv'
  BY <1>1, <1>2, <1>3 DEF ClusterInv
<1> QED
  BY <1>4, Unmanaged DEF Orderly, WatcherInv

LEMMA WriteMoves ==
  ASSUME WatcherInv, UNCHANGED managerVars, UNCHANGED <<work, phase, repository>>,
         NEW c \in Keys, NEW run \in Run, write(c, run),
         runs[c] # NoRun => run.uid = runs[c].uid /\ (Finishing(runs[c]) => Finishing(run))
  PROVE  Orderly
<1>1. ClusterInv
  BY DEF WatcherInv
<1>2. /\ runs' \in [Keys -> Run \cup {NoRun}] /\ runs'[c] = run
      /\ \A j \in Keys \ {c} : Carries(j)
      /\ inFlight' \subseteq inFlight /\ \A d \in inFlight' : runs'[d] = runs[d]
  BY <1>1, WriteChanges
<1>3. Carries(c)
  BY <1>2, NoRunIsNone DEF Carries
<1>4. repository' \in Limits \cup {NoRepository}
  BY <1>1 DEF ClusterInv
<1> QED
  BY <1>2, <1>3, <1>4, ClusterMoves

LEMMA UserAndTektonStep ==
  ASSUME WatcherInv, NEW c \in Keys, TektonFinishes(c) \/ Cancel(c) \/ Delete(c)
  PROVE  Orderly
<1>1. /\ runs[c] # NoRun /\ UNCHANGED managerVars /\ UNCHANGED <<work, phase, repository>>
      /\ \/ write(c, [runs[c] EXCEPT !.done = TRUE])
         \/ write(c, [runs[c] EXCEPT !.spec = Cancelled])
         \/ write(c, [runs[c] EXCEPT !.deleting = TRUE])
  BY DEF TektonFinishes, Cancel, Delete
<1>2. runs[c] \in Run
  BY <1>1 DEF WatcherInv, ClusterInv
<1>3. PICK run \in Run : write(c, run) /\ run.uid = runs[c].uid /\ Finishing(run)
  <2>1. CASE write(c, [runs[c] EXCEPT !.done = TRUE])
    <3> DEFINE run == [runs[c] EXCEPT !.done = TRUE]
    <3>1. run \in Run /\ run.uid = runs[c].uid /\ run.done
      BY <1>2, RunChanges DEF Run
    <3> QED
      BY <2>1, <3>1 DEF Finishing
  <2>2. CASE write(c, [runs[c] EXCEPT !.spec = Cancelled])
    <3> DEFINE run == [runs[c] EXCEPT !.spec = Cancelled]
    <3>1. run \in Run /\ run.uid = runs[c].uid /\ run.spec = Cancelled
      BY <1>2, RunChanges DEF Run
    <3> QED
      BY <2>2, <3>1 DEF Finishing
  <2>3. CASE write(c, [runs[c] EXCEPT !.deleting = TRUE])
    <3> DEFINE run == [runs[c] EXCEPT !.deleting = TRUE]
    <3>1. run \in Run /\ run.uid = runs[c].uid /\ run.deleting
      BY <1>2, RunChanges DEF Run
    <3> QED
      BY <2>3, <3>1 DEF Finishing
  <2> QED
    BY <1>1, <2>1, <2>2, <2>3
<1> QED
  BY <1>1, <1>3, WriteMoves

LEMMA RecreateStep ==
  ASSUME WatcherInv, NEW c \in Keys, NEW uid \in UIDs, Recreate(c, uid)
  PROVE  Orderly
<1>1. /\ runs[c] = NoRun /\ UNCHANGED managerVars /\ UNCHANGED <<work, phase, repository>>
      /\ write(c, newRun(uid))
  BY DEF Recreate
<1>2. newRun(uid) \in Run
  BY DEF newRun, Run
<1> QED
  BY <1>1, <1>2, WriteMoves

LEMMA CommitStep ==
  ASSUME WatcherInv, NEW c \in Keys, Commit(c)
  PROVE  Orderly
<1>1. /\ c \in inFlight /\ startWrite(c)
      /\ UNCHANGED managerVars /\ UNCHANGED <<work, phase, repository>>
  BY DEF Commit
<1>2. ClusterInv
  BY DEF WatcherInv
<1>3. /\ runs' \in [Keys -> Run \cup {NoRun}] /\ \A j \in Keys : Carries(j)
      /\ \A j \in Keys \ {c} : runs'[j] = runs[j]
      /\ inFlight' = inFlight \ {c} /\ inFlight' \in SUBSET Keys
  BY <1>1, <1>2, StartWriteChanges
<1>4. repository' \in Limits \cup {NoRepository}
  BY <1>1, <1>2 DEF ClusterInv
<1>5. inFlight' \subseteq inFlight /\ \A d \in inFlight' : runs'[d] = runs[d]
  BY <1>3
<1> QED
  BY <1>1, <1>3, <1>4, <1>5, ClusterMoves

LEMMA DropStep ==
  ASSUME WatcherInv, NEW c \in Keys, Drop(c)
  PROVE  Orderly
<1>1. /\ inFlight' = inFlight \ {c} /\ runs' = runs
      /\ UNCHANGED managerVars /\ UNCHANGED <<work, phase, repository>>
  BY DEF Drop
<1>2. ClusterInv
  BY DEF WatcherInv
<1>3. /\ runs' \in [Keys -> Run \cup {NoRun}] /\ \A j \in Keys : Carries(j)
      /\ inFlight' \subseteq inFlight /\ repository' \in Limits \cup {NoRepository}
  BY <1>1, <1>2 DEF ClusterInv, Carries
<1> QED
  BY <1>1, <1>3, ClusterMoves

LEMMA ChangeRepositoryStep ==
  ASSUME WatcherInv, NEW l \in Limits \cup Removals, ChangeRepository(l)
  PROVE  Orderly
<1>1. /\ repository' = l /\ runs' = runs /\ inFlight' = inFlight
      /\ UNCHANGED managerVars /\ UNCHANGED <<work, phase>>
  BY DEF ChangeRepository
<1>2. ClusterInv
  BY DEF WatcherInv
<1>3. /\ runs' \in [Keys -> Run \cup {NoRun}] /\ \A j \in Keys : Carries(j)
      /\ inFlight' \subseteq inFlight
  BY <1>1, <1>2 DEF ClusterInv, Carries
<1>4. repository' \in Limits \cup {NoRepository}
  BY <1>1, WatcherAssumption
<1> QED
  BY <1>1, <1>3, <1>4, ClusterMoves

----------------------------------------------------------------------------
(* Crash and recovery: no reconcile outlives its process.                  *)
LEMMA CrashStep ==
  ASSUME WatcherInv, Crash \/ TakeOver
  PROVE  Orderly
<1>1. /\ Restart /\ work' = [k \in Keys |-> Idle] /\ phase' \in {"started", phase}
      /\ UNCHANGED <<runs, inFlight, repository>>
  BY DEF Crash, TakeOver
<1>2. Proper
  BY <1>1, RestartStep
<1>3. /\ runs \in [Keys -> Run \cup {NoRun}] /\ repository \in Limits \cup {NoRepository}
      /\ phase \in {"up", "started", "queued"} /\ inFlight \in SUBSET Keys
      /\ \A c \in inFlight : Startable(c)
      /\ phase = "queued" => inFlight = {}
  BY DEF WatcherInv, ClusterInv
<1>4. work' \in [Keys -> Work] /\ \A k \in Keys : work'[k].pc = "idle"
  BY <1>1, IdleIsWork
<1>5. \A c \in inFlight' : Startable(c)'
  BY <1>1, <1>3 DEF Startable
<1>6. ClusterInv'
  BY <1>1, <1>3, <1>4, <1>5 DEF ClusterInv
<1> QED
  BY <1>2, <1>6 DEF Orderly

LEMMA RebuildStep ==
  ASSUME WatcherInv, RebuildStarted \/ RebuildQueued
  PROVE  Orderly
<1>1. /\ ManagerIInv /\ ClusterInv
      /\ UNCHANGED <<runs, inFlight, work, repository>>
      /\ phase # "up" /\ phase' \in {"up", "queued"} /\ inFlight = {}
  BY DEF WatcherInv, ClusterInv, RebuildStarted, RebuildQueued
<1>2. Proper
  <2>1. CASE UNCHANGED managerVars
    BY <1>1, <2>1, Unmanaged
  <2>2. ASSUME ~UNCHANGED managerVars
        PROVE  \E list \in Lists :
                 /\ repository \in Limits
                 /\ AddListToRunningQueue(list, repository) \/ AddToPendingQueue(list, repository)
    <3>1. repository \in Limits
      BY <1>1, <2>2 DEF ClusterInv, RebuildStarted, RebuildQueued, Initialised
    <3>2. \A state, specs : InState(state, specs) \in Lists
      <4> SUFFICES ASSUME NEW state, NEW specs PROVE InState(state, specs) \in Lists
        OBVIOUS
      <4> DEFINE set == {k \in Keys : runs[k] # NoRun /\ runs[k].state = state
                                      /\ runs[k].spec \in specs}
      <4>1. set \in SUBSET Keys /\ InState(state, specs) = Filtered(Order, set)
        BY DEF InState
      <4> HIDE DEF set
      <4> QED
        BY <4>1, WatcherAssumption
    <3>3. \/ AddListToRunningQueue(InState(StateStarted, {Pending, None, Cancelled}), repository)
          \/ AddToPendingQueue(InState(StateQueued, {Pending}), repository)
      BY <2>2, Zenon DEF RebuildStarted, RebuildQueued
    <3>4. /\ InState(StateStarted, {Pending, None, Cancelled}) \in Lists
          /\ InState(StateQueued, {Pending}) \in Lists
      BY <3>2
    <3> QED
      BY <3>1, <3>3, <3>4, Zenon
  <2>3. CASE ~UNCHANGED managerVars
    <3>1. PICK list \in Lists :
            /\ repository \in Limits
            /\ AddListToRunningQueue(list, repository) \/ AddToPendingQueue(list, repository)
      BY <2>2, <2>3
    <3>2. Lists \subseteq Seq(Keys)
      BY QueueManagerAssumption
    <3>3. list \in Seq(Keys)
      BY <3>2, Zenon
    <3>4. Limits \subseteq Nat
      BY QueueManagerAssumption
    <3>5. repository \in Nat
      BY <3>1, <3>4
    <3> QED
      BY <1>1, <3>1, <3>3, <3>5, ListingStep
  <2> QED
    BY <2>1, <2>3
<1>3. ClusterInv'
  <2>1. /\ runs' \in [Keys -> Run \cup {NoRun}] /\ work' \in [Keys -> Work]
        /\ repository' \in Limits \cup {NoRepository}
        /\ phase' \in {"up", "started", "queued"} /\ inFlight' = {}
    BY <1>1 DEF ClusterInv
  <2>2. \A k \in Keys : work'[k].pc = "idle"
    BY <1>1 DEF ClusterInv
  <2> QED
    BY <2>1, <2>2 DEF ClusterInv
<1> QED
  BY <1>2, <1>3 DEF Orderly

LEMMA InitWatcherInv == Init => WatcherInv
<1> SUFFICES ASSUME Init PROVE WatcherInv
  OBVIOUS
<1>1. ManagerIInv
  BY ManagerInitIInv DEF Init
<1>2. PICK uid \in UIDs : runs = [k \in Keys |-> newRun(uid)]
  BY DEF Init
<1>3. newRun(uid) \in Run
  BY DEF newRun, Run
<1>4. runs \in [Keys -> Run \cup {NoRun}]
  BY <1>2, <1>3
<1>5. work \in [Keys -> Work] /\ \A k \in Keys : work[k].pc = "idle"
  BY IdleIsWork DEF Init
<1>6. /\ repository \in Limits \cup {NoRepository} /\ phase = "up" /\ inFlight = {}
  BY DEF Init
<1>7. ClusterInv
  BY <1>4, <1>5, <1>6 DEF ClusterInv
<1> QED
  BY <1>1, <1>7 DEF WatcherInv

LEMMA NextOrderly ==
  ASSUME WatcherInv, Next
  PROVE  Orderly
<1>1. ASSUME NEW k \in Keys, Reconcile(k)
      PROVE  Orderly
  <2>1. ASSUME NEW c \in Keys, StartCandidate(k, c)
        PROVE  Orderly
    BY <2>1, StartCandidateStep
  <2> QED
    BY <1>1, <2>1, BeginStep, ReadStep, TerminalWriteStep, ForgetOwnerStep,
       BeginWithoutRepositoryStep, ReadWithoutRepositoryStep, AcquireOnceStep,
       FinishBatchStep, StartAnsweredStep, StartUnansweredStep, ReadbackStep
       DEF Reconcile
<1>2. ASSUME NEW k \in Keys, Fail(k) \/ TerminalWriteUnanswered(k)
      PROVE  Orderly
  BY <1>2, FailStep, TerminalWriteStep
<1>3. ASSUME NEW k \in Keys, NEW c \in Keys, CandidateUnread(k, c)
      PROVE  Orderly
  BY <1>3, CandidateUnreadStep
<1>4. ASSUME NEW c \in Keys,
             Commit(c) \/ Drop(c) \/ TektonFinishes(c) \/ Cancel(c) \/ Delete(c)
      PROVE  Orderly
  BY <1>4, CommitStep, DropStep, UserAndTektonStep
<1>5. ASSUME NEW c \in Keys, NEW uid \in UIDs, Recreate(c, uid)
      PROVE  Orderly
  BY <1>5, RecreateStep
<1>6. ASSUME NEW l \in Limits \cup Removals, ChangeRepository(l)
      PROVE  Orderly
  BY <1>6, ChangeRepositoryStep
<1>7. CASE Crash \/ RebuildStarted \/ RebuildQueued \/ TakeOver
  BY <1>7, CrashStep, RebuildStep
<1> QED
  BY <1>1, <1>2, <1>3, <1>4, <1>5, <1>6, <1>7 DEF Next

LEMMA StutterOrderly ==
  ASSUME WatcherInv, UNCHANGED vars
  PROVE  Orderly
<1>1. /\ UNCHANGED managerVars
      /\ UNCHANGED <<runs, inFlight, work, phase, repository>>
  BY DEF vars, managerVars
<1>2. Proper
  BY <1>1, Unmanaged DEF WatcherInv
<1>3. ClusterInv'
  BY <1>1 DEF WatcherInv, ClusterInv, Startable
<1> QED
  BY <1>2, <1>3 DEF Orderly

LEMMA WatcherInvariance == Spec => []WatcherInv
<1>1. WatcherInv /\ [Next]_vars => WatcherInv'
  BY NextOrderly, StutterOrderly DEF Orderly, Proper, WatcherInv
<1> QED
  BY InitWatcherInv, <1>1, PTL DEF Spec

----------------------------------------------------------------------------
(* The reconcilers use the manager as its proofs suppose: between any two  *)
(* of their steps its slots, claims, candidates and leases agree, with     *)
(* crashes, a Repository that goes and comes, and runs made again.         *)
THEOREM ManagerStaysConsistent ==
  Spec => [](/\ SlotsAreAccounted /\ ClaimsAreCandidates
             /\ LeasedCandidatesRun /\ OneWorkerPerAdmission)
<1>1. WatcherInv => /\ SlotsAreAccounted /\ ClaimsAreCandidates
                    /\ LeasedCandidatesRun /\ OneWorkerPerAdmission
  BY AccountsAgree, LeasesAgree DEF WatcherInv
<1> QED
  BY WatcherInvariance, <1>1, PTL

(* What NeverRevived says of one run.                                      *)
NotRevived(k) ==
  runs'[k] # NoRun /\ runs'[k].state = StateStarted /\ runs'[k] # runs[k] =>
    /\ runs[k] # NoRun
    /\ runs[k].state = StateQueued => ~Finishing(runs[k])
    /\ runs[k].state # StateCompleted

LEMMA WriteRevivesNone ==
  ASSUME ClusterInv, NEW c \in Keys, NEW run \in Run \cup {NoRun}, write(c, run),
         \/ run = NoRun \/ run.state # StateStarted
         \/ runs[c] # NoRun /\ runs[c].state = StateStarted
         \/ Startable(c)
  PROVE  \A k \in Keys : NotRevived(k)
<1>1. runs'[c] = run /\ \A j \in Keys \ {c} : runs'[j] = runs[j]
  BY WriteChanges
<1>2. NotRevived(c)
  <2>1. CASE run = NoRun \/ run.state # StateStarted
    BY <1>1, <2>1 DEF NotRevived
  <2>2. CASE runs[c] # NoRun /\ runs[c].state = StateStarted
    BY <2>2 DEF NotRevived, StateStarted, StateQueued, StateCompleted
  <2>3. CASE Startable(c)
    BY <2>3 DEF NotRevived, Startable, noLongerStartable
  <2> QED
    BY <2>1, <2>2, <2>3
<1> QED
  BY <1>1, <1>2 DEF NotRevived

LEMMA StartRevivesNone ==
  ASSUME ClusterInv, NEW c \in inFlight, startWrite(c)
  PROVE  \A k \in Keys : NotRevived(k)
<1>1. Startable(c) /\ \A j \in Keys \ {c} : runs'[j] = runs[j]
  BY StartWriteChanges
<1>2. \A k \in Keys : k # c => NotRevived(k)
  BY <1>1 DEF NotRevived
<1>3. NotRevived(c)
  BY <1>1 DEF NotRevived, Startable, noLongerStartable
<1> QED
  BY <1>2, <1>3

LEMMA NextRevivesNone ==
  ASSUME ClusterInv, Next
  PROVE  \A k \in Keys : NotRevived(k)
<1>1. \/ UNCHANGED runs
      \/ \E c \in inFlight : startWrite(c)
      \/ \E c \in Keys :
           \/ work[c].pc = "write" /\ write(c, [runs[c] EXCEPT !.state = StateCompleted])
           \/ write(c, NoRun)
           \/ runs[c] # NoRun /\ write(c, [runs[c] EXCEPT !.done = TRUE])
           \/ runs[c] # NoRun /\ ~Finishing(runs[c])
                              /\ write(c, [runs[c] EXCEPT !.spec = Cancelled])
           \/ runs[c] # NoRun /\ write(c, [runs[c] EXCEPT !.deleting = TRUE])
           \/ \E uid \in UIDs : write(c, newRun(uid))
  <2>1. ASSUME NEW k \in Keys,
               \/ Begin(k) \/ ListRuns(k) \/ Report(k)
               \/ BeginWithoutRepository(k) \/ ListWithoutRepository(k)
               \/ ReportWithoutRepository(k)
               \/ Acquire(k) \/ FinishBatch(k) \/ StartUnanswered(k) \/ Readback(k)
               \/ Fail(k)
        PROVE  UNCHANGED runs
    BY <2>1, Zenon DEF Begin, ListRuns, Report, BeginWithoutRepository, ListWithoutRepository,
       ReportWithoutRepository, Acquire, FinishBatch, StartUnanswered, Readback, Fail
  <2>2. ASSUME NEW k \in Keys, NEW c \in Keys, StartCandidate(k, c) \/ CandidateUnread(k, c)
        PROVE  UNCHANGED runs
    BY <2>2 DEF StartCandidate, CandidateUnread
  <2>3. ASSUME Crash \/ RebuildStarted \/ RebuildQueued \/ TakeOver
        PROVE  UNCHANGED runs
    BY <2>3 DEF Crash, RebuildStarted, RebuildQueued, TakeOver
  <2>4. ASSUME NEW l, ChangeRepository(l) PROVE UNCHANGED runs
    BY <2>4 DEF ChangeRepository
  <2>5. ASSUME NEW c \in Keys, Drop(c) PROVE UNCHANGED runs
    BY <2>5 DEF Drop
  <2>6. ASSUME NEW k \in Keys, StartAnswered(k) \/ Commit(k)
        PROVE  \E c \in inFlight : startWrite(c)
    BY <2>6 DEF StartAnswered, Commit
  <2>7. ASSUME NEW c \in Keys, TerminalWrite(c) \/ TerminalWriteUnanswered(c)
        PROVE  work[c].pc = "write" /\ write(c, [runs[c] EXCEPT !.state = StateCompleted])
    BY <2>7 DEF TerminalWrite, TerminalWriteUnanswered, At
  <2>8. ASSUME NEW c \in Keys, ForgetOwner(c)
        PROVE  write(c, NoRun) \/ UNCHANGED runs
    BY <2>8 DEF ForgetOwner
  <2>9. ASSUME NEW c \in Keys, TektonFinishes(c) \/ Cancel(c) \/ Delete(c)
        PROVE  \/ runs[c] # NoRun /\ write(c, [runs[c] EXCEPT !.done = TRUE])
               \/ runs[c] # NoRun /\ ~Finishing(runs[c])
                                  /\ write(c, [runs[c] EXCEPT !.spec = Cancelled])
               \/ runs[c] # NoRun /\ write(c, [runs[c] EXCEPT !.deleting = TRUE])
    BY <2>9, Zenon DEF TektonFinishes, Cancel, Delete
  <2>10. ASSUME NEW c \in Keys, NEW uid \in UIDs, Recreate(c, uid)
         PROVE  write(c, newRun(uid))
    BY <2>10 DEF Recreate
  <2> QED
    BY <2>1, <2>2, <2>3, <2>4, <2>5, <2>6, <2>7, <2>8, <2>9, <2>10, Zenon DEF Next, Reconcile
<1>2. CASE UNCHANGED runs
  BY <1>2 DEF NotRevived
<1>3. ASSUME NEW c \in inFlight, startWrite(c)
      PROVE  \A k \in Keys : NotRevived(k)
  BY <1>3, StartRevivesNone
<1>4. ASSUME NEW c \in Keys, work[c].pc = "write",
             write(c, [runs[c] EXCEPT !.state = StateCompleted])
      PROVE  \A k \in Keys : NotRevived(k)
  <2> DEFINE run == [runs[c] EXCEPT !.state = StateCompleted]
  <2>1. runs[c] \in Run
    BY <1>4 DEF ClusterInv, Knows
  <2>2. run \in Run /\ run.state # StateStarted
    BY <2>1, RunChanges DEF Run, StateStarted, StateCompleted
  <2> HIDE DEF run
  <2> QED
    BY <1>4, <2>2, WriteRevivesNone DEF run
<1>5. ASSUME NEW c \in Keys, write(c, NoRun)
      PROVE  \A k \in Keys : NotRevived(k)
  BY <1>5, WriteRevivesNone
<1>6. ASSUME NEW c \in Keys, runs[c] # NoRun, NEW run \in Run, write(c, run),
             run.state = runs[c].state
      PROVE  \A k \in Keys : NotRevived(k)
  BY <1>6, WriteRevivesNone
<1>7. ASSUME NEW c \in Keys, runs[c] # NoRun,
             \/ write(c, [runs[c] EXCEPT !.done = TRUE])
             \/ write(c, [runs[c] EXCEPT !.spec = Cancelled])
             \/ write(c, [runs[c] EXCEPT !.deleting = TRUE])
      PROVE  \A k \in Keys : NotRevived(k)
  <2>1. runs[c] \in Run
    BY <1>7 DEF ClusterInv
  <2>2. /\ [runs[c] EXCEPT !.done = TRUE] \in Run
        /\ [runs[c] EXCEPT !.spec = Cancelled] \in Run
        /\ [runs[c] EXCEPT !.deleting = TRUE] \in Run
    BY <2>1, RunChanges
  <2>3. /\ [runs[c] EXCEPT !.done = TRUE].state = runs[c].state
        /\ [runs[c] EXCEPT !.spec = Cancelled].state = runs[c].state
        /\ [runs[c] EXCEPT !.deleting = TRUE].state = runs[c].state
    BY <2>1 DEF Run
  <2> QED
    BY <1>6, <1>7, <2>2, <2>3
<1>8. ASSUME NEW c \in Keys, NEW uid \in UIDs, write(c, newRun(uid))
      PROVE  \A k \in Keys : NotRevived(k)
  <2>1. newRun(uid) \in Run /\ newRun(uid).state # StateStarted
    BY DEF newRun, Run, StateStarted, StateQueued
  <2> QED
    BY <1>8, <2>1, WriteRevivesNone
<1> QED
  BY <1>1, <1>2, <1>3, <1>4, <1>5, <1>7, <1>8, Zenon

(* A run is only ever started from the queue: a start that was sent before *)
(* the run was cancelled, deleted, finished or replaced never revives it,  *)
(* for any number of runs, failures and crashes.                           *)
THEOREM NeverAnyRevived == Spec => NeverRevived
<1> DEFINE Step == \A k \in Keys : NotRevived(k)
<1>1. WatcherInv /\ [Next]_vars => [Step]_vars
  BY NextRevivesNone DEF WatcherInv
<1> HIDE DEF Step
<1>2. Spec => [][Step]_vars
  BY WatcherInvariance, <1>1, PTL DEF Spec
<1> QED
  BY <1>2 DEF NeverRevived, Step, NotRevived

----------------------------------------------------------------------------
(* Types, for the parts of them that are not in WatcherInv.                *)
RestInv ==
  /\ workqueue \subseteq Keys
  /\ \A k \in Keys : work[k].pc = "idle" => work[k] = Idle
  /\ past \in [Keys -> SUBSET UIDs]
  /\ \A k \in Keys : runs[k] = NoRun \/ runs[k].uid \in past[k]

\* One reconcile changes, and is nothing but idle when it is over.
Rests(k) == OnlyWorkOf(k) /\ (work'[k].pc = "idle" => work'[k] = Idle)

\* No run is made or replaced.
SameIdentities ==
  /\ \A c \in Keys : runs'[c] = NoRun \/ (runs[c] # NoRun /\ runs'[c].uid = runs[c].uid)
  /\ past' = past

LEMMA RestStep ==
  ASSUME ClusterInv, RestInv, SameIdentities,
         work' = work \/ (\E k \in Keys : Rests(k)) \/ work' = [k \in Keys |-> Idle],
         workqueue' \subseteq workqueue \cup Keys
  PROVE  RestInv'
<1>1. \A k \in Keys : work'[k].pc = "idle" => work'[k] = Idle
  <2>1. CASE work' = work \/ work' = [k \in Keys |-> Idle]
    BY <2>1 DEF RestInv
  <2>2. ASSUME NEW k \in Keys, Rests(k)
        PROVE  \A j \in Keys : work'[j].pc = "idle" => work'[j] = Idle
    BY <2>2 DEF RestInv, Rests, OnlyWorkOf
  <2> QED
    BY <2>1, <2>2
<1>2. past' \in [Keys -> SUBSET UIDs]
      /\ \A k \in Keys : runs'[k] = NoRun \/ runs'[k].uid \in past'[k]
  BY DEF RestInv, SameIdentities
<1> QED
  BY <1>1, <1>2 DEF RestInv

LEMMA EndRests ==
  ASSUME ClusterInv, NEW k \in Keys, end(k)
  PROVE  Rests(k)
BY IdleIsWork DEF ClusterInv, end, Rests, OnlyWorkOf

LEMMA GotoRests ==
  ASSUME ClusterInv, NEW k \in Keys,
         NEW pc \in {"acquire", "list", "report", "write", "forget"},
         NEW mode \in Modes, NEW ending \in BOOLEAN, goto(k, pc, mode, ending)
  PROVE  Rests(k)
<1> DEFINE w == work[k]
           x == Sent(w, pc, mode, ending)
<1>1. w \in Work
  BY DEF ClusterInv
<1>2. work' = [work EXCEPT ![k] = x]
  BY DEF goto, Sent
<1> HIDE DEF w
<1>3. x \in Work /\ x.pc = pc
  BY <1>1, GotoIsWork
<1> HIDE DEF x
<1> QED
  BY <1>2, <1>3 DEF ClusterInv, Rests, OnlyWorkOf

LEMMA ProceedRests ==
  ASSUME ClusterInv, NEW k \in Keys, proceed(k)
  PROVE  Rests(k)
<1>1. Resume \in Modes /\ Initial \in Modes /\ Promotion \in Modes
  BY DEF Modes, Resume, Initial, Promotion
<1>2. \/ goto(k, "acquire", Promotion, TRUE)
      \/ goto(k, "forget", Promotion, TRUE)
      \/ goto(k, "write", Promotion, TRUE)
      \/ goto(k, "report", Resume, TRUE)
      \/ goto(k, "forget", Resume, FALSE)
      \/ goto(k, "list", Initial, FALSE)
      \/ end(k)
  BY DEF proceed
<1> QED
  BY <1>1, <1>2, EndRests, GotoRests

LEMMA BatchRests ==
  ASSUME NEW k \in Keys, Batches(k)
  PROVE  Rests(k)
BY DEF Batches, Rests

LEMMA WriteKeepsIdentities ==
  ASSUME ClusterInv, NEW c \in Keys, NEW run \in Run \cup {NoRun}, write(c, run), past' = past,
         run # NoRun => runs[c] # NoRun /\ run.uid = runs[c].uid
  PROVE  SameIdentities /\ workqueue' \subseteq workqueue \cup Keys
<1>1. runs'[c] = run /\ \A j \in Keys \ {c} : runs'[j] = runs[j]
  BY WriteChanges
<1> QED
  BY <1>1 DEF SameIdentities, write

LEMMA SameRunsSameIdentities ==
  ASSUME UNCHANGED <<runs, past>>
  PROVE  SameIdentities
BY DEF SameIdentities

LEMMA BeginRests ==
  ASSUME ClusterInv, NEW k \in Keys, Begin(k) \/ BeginWithoutRepository(k)
  PROVE  \/ work' = work
         \/ Rests(k)
<1>1. OnlyWorkOf(k) /\ work \in [Keys -> Work]
  BY BeginMovesOn, BeginWithoutMovesOn DEF MovesOn, ClusterInv
<1>2. CASE Begin(k) /\ runs[k] # NoRun
  <2> DEFINE x == [Idle EXCEPT !.pc = IF runs[k].deleting /\ ~HasPlace(runs[k])
                                      THEN "forget" ELSE "acquire",
                               !.ending = runs[k].deleting,
                               !.run = runs[k],
                               !.limit = repository]
  <2>1. work' = [work EXCEPT ![k] = x]
    BY <1>2 DEF Begin
  <2>2. x.pc \in {"forget", "acquire"}
    BY DEF Idle
  <2> HIDE DEF x
  <2>3. work'[k].pc # "idle"
    BY <1>1, <2>1, <2>2
  <2> QED
    BY <1>1, <2>3 DEF Rests
<1>3. CASE BeginWithoutRepository(k) /\ runs[k].deleting
  <2> DEFINE x == [Idle EXCEPT !.pc = "forget", !.run = runs[k]]
  <2>1. work' = [work EXCEPT ![k] = x]
    BY <1>3 DEF BeginWithoutRepository
  <2>2. x.pc = "forget"
    BY DEF Idle
  <2> HIDE DEF x
  <2>3. work'[k].pc # "idle"
    BY <1>1, <2>1, <2>2
  <2> QED
    BY <1>1, <2>3 DEF Rests
<1>4. CASE Begin(k) /\ runs[k] = NoRun
  BY <1>4 DEF Begin
<1>5. CASE BeginWithoutRepository(k) /\ ~runs[k].deleting
  BY <1>5 DEF BeginWithoutRepository
<1> QED
  BY <1>2, <1>3, <1>4, <1>5

LEMMA ReadsRest ==
  ASSUME ClusterInv, NEW k \in Keys, ListRuns(k) \/ Report(k)
  PROVE  Rests(k)
<1> DEFINE queued == {j \in Keys : runs[j] # NoRun /\ runs[j].state = StateQueued
                                   /\ runs[j].spec = Pending}
           l == [work[k] EXCEPT !.pc = "acquire", !.limit = repository,
                                !.list = Filtered(Order, queued)]
           r == [work[k] EXCEPT !.pc = "acquire", !.ending = TRUE, !.limit = repository]
<1>1. work[k] \in Work /\ work \in [Keys -> Work] /\ OnlyWorkOf(k)
  BY ReadsMoveOn DEF ClusterInv, MovesOn
<1>2. l.pc = "acquire" /\ r.pc = "acquire"
  <2> HIDE DEF queued
  <2> QED
    BY <1>1 DEF Work
<1>3. work' = [work EXCEPT ![k] = l] \/ work' = [work EXCEPT ![k] = r]
  BY DEF ListRuns, Report
<1> HIDE DEF l, r
<1>4. work'[k].pc = "acquire"
  BY <1>1, <1>2, <1>3
<1> QED
  BY <1>1, <1>4 DEF Rests

LEMMA FinishBatchRests ==
  ASSUME ClusterInv, NEW k \in Keys, FinishBatch(k)
  PROVE  Rests(k)
<1> DEFINE x == [work[k] EXCEPT !.pc = "acquire", !.list = Filtered(@, Keys \ work[k].gone)]
<1>1. /\ work[k] \in Work /\ work \in [Keys -> Work] /\ OnlyWorkOf(k)
      /\ end(k) \/ proceed(k) \/ work' = [work EXCEPT ![k] = x]
  BY FinishBatchMovesOn DEF FinishBatch, endWithError, ClusterInv, MovesOn
<1>2. CASE work' = [work EXCEPT ![k] = x]
  <2>1. x.pc = "acquire"
    BY <1>1 DEF Work
  <2> HIDE DEF x
  <2>2. work'[k].pc = "acquire"
    BY <1>1, <1>2, <2>1
  <2> QED
    BY <1>1, <2>2 DEF Rests
<1> QED
  BY <1>1, <1>2, EndRests, ProceedRests

LEMMA AcquireRests ==
  ASSUME WatcherInv, NEW k \in Keys, Acquire(k)
  PROVE  Rests(k)
<1>1. At(k, "acquire") /\ ClusterInv
  BY DEF Acquire, WatcherInv
<1>2. \/ end(k) \/ proceed(k)
      \/ /\ AcquireWork(k, Owner(k), work[k].list, work[k].mode, Finishing(work[k].run),
                         work[k].limit)
         /\ TakesBatch(k)
  BY Zenon DEF Acquire, endWithError, TakesBatch
<1>3. CASE /\ AcquireWork(k, Owner(k), work[k].list, work[k].mode, Finishing(work[k].run),
                          work[k].limit)
           /\ TakesBatch(k)
  <2>1. Batches(k)
    BY <1>1, <1>3, AcquireStarts
  <2> QED
    BY <2>1, BatchRests
<1> QED
  BY <1>1, <1>2, <1>3, EndRests, ProceedRests

LEMMA BatchStepsRest ==
  ASSUME WatcherInv, NEW k \in Keys,
         \/ StartAnswered(k) \/ StartUnanswered(k) \/ Readback(k)
         \/ \E c \in Keys : StartCandidate(k, c) \/ CandidateUnread(k, c)
  PROVE  Rests(k)
<1>1. ClusterInv
  BY DEF WatcherInv
<1>2. ASSUME NEW c \in Keys, CandidateUnread(k, c)
      PROVE  Batches(k)
  <2>1. work' = [work EXCEPT ![k] = result(k, c, "retry", TRUE)]
    BY <1>2 DEF CandidateUnread
  <2> QED
    BY <1>1, <2>1, ResultBatches DEF Ends
<1>3. Batches(k)
  BY <1>2, StartAnsweredStep, StartUnansweredStep, ReadbackStep, StartCandidateStep
<1> QED
  BY <1>3, BatchRests

LEMMA StartWriteKeepsIdentities ==
  ASSUME ClusterInv, NEW c \in inFlight, startWrite(c), past' = past
  PROVE  SameIdentities /\ workqueue' \subseteq workqueue \cup Keys
<1>1. c \in Keys /\ Startable(c)
      /\ (\A j \in Keys \ {c} : runs'[j] = runs[j]) /\ \A j \in Keys : Carries(j)
  BY StartWriteChanges DEF ClusterInv
<1>2. ASSUME NEW j \in Keys
      PROVE  runs'[j] = NoRun \/ (runs[j] # NoRun /\ runs'[j].uid = runs[j].uid)
  BY <1>1 DEF Carries, Startable
<1>3. workqueue' \subseteq workqueue \cup Keys
  BY <1>1 DEF startWrite, write
<1> QED
  BY <1>2, <1>3 DEF SameIdentities

LEMMA RunKeepsIdentity ==
  ASSUME NEW run \in Run
  PROVE  /\ [run EXCEPT !.done = TRUE].uid = run.uid
         /\ [run EXCEPT !.deleting = TRUE].uid = run.uid
         /\ [run EXCEPT !.spec = Cancelled].uid = run.uid
         /\ [run EXCEPT !.state = StateCompleted].uid = run.uid
BY DEF Run

LEMMA ReconcileRests ==
  ASSUME WatcherInv, RestInv, NEW k \in Keys,
         \/ Reconcile(k) \/ Fail(k) \/ TerminalWriteUnanswered(k)
         \/ \E c \in Keys : CandidateUnread(k, c)
  PROVE  RestInv'
<1>1. ClusterInv
  BY DEF WatcherInv
<1>2. CASE \/ Begin(k) \/ BeginWithoutRepository(k) \/ ListRuns(k) \/ Report(k)
           \/ ListWithoutRepository(k) \/ ReportWithoutRepository(k) \/ Fail(k)
  <2>1. UNCHANGED <<runs, past>> /\ workqueue' \subseteq workqueue \cup Keys
    BY <1>2 DEF Begin, BeginWithoutRepository, ListRuns, Report, ListWithoutRepository,
                ReportWithoutRepository, Fail, endWithError, boundVars
  <2>2. end(k) \/ Begin(k) \/ BeginWithoutRepository(k) \/ ListRuns(k) \/ Report(k)
    BY <1>2 DEF ListWithoutRepository, ReportWithoutRepository, Fail, endWithError
  <2>3. work' = work \/ Rests(k)
    BY <1>1, <2>2, EndRests, BeginRests, ReadsRest
  <2> QED
    BY <1>1, <2>1, <2>3, SameRunsSameIdentities, RestStep
<1>3. CASE TerminalWrite(k) \/ TerminalWriteUnanswered(k)
  <2> DEFINE run == [runs[k] EXCEPT !.state = StateCompleted]
  <2>1. /\ At(k, "write") /\ write(k, run) /\ past' = past
        /\ end(k) \/ goto(k, "forget", Promotion, TRUE)
    BY <1>3 DEF TerminalWrite, TerminalWriteUnanswered, boundVars
  <2>2. runs[k] \in Run
    BY <1>1, <2>1 DEF ClusterInv, Knows, At
  <2>3. run \in Run /\ run.uid = runs[k].uid /\ runs[k] # NoRun
    BY <2>2, RunChanges, RunKeepsIdentity, NoRunIsNone
  <2> HIDE DEF run
  <2>4. SameIdentities /\ workqueue' \subseteq workqueue \cup Keys
    BY <1>1, <2>1, <2>3, WriteKeepsIdentities
  <2>5. Promotion \in Modes
    BY DEF Modes
  <2>6. Rests(k)
    BY <1>1, <2>1, <2>5, EndRests, GotoRests
  <2> QED
    BY <1>1, <2>4, <2>6, RestStep
<1>4. CASE ForgetOwner(k)
  <2>1. end(k) /\ past' = past /\ (write(k, NoRun) \/ UNCHANGED <<runs, inFlight, workqueue>>)
    BY <1>4 DEF ForgetOwner, boundVars
  <2>2. SameIdentities /\ workqueue' \subseteq workqueue \cup Keys
    BY <1>1, <2>1, WriteKeepsIdentities, SameRunsSameIdentities
  <2> QED
    BY <1>1, <2>1, <2>2, EndRests, RestStep
<1>5. CASE Acquire(k) \/ FinishBatch(k)
  <2>1. UNCHANGED <<runs, past>> /\ workqueue' \subseteq workqueue \cup Keys
    BY <1>5 DEF Acquire, FinishBatch, endWithError, boundVars
  <2>2. Rests(k)
    BY <1>1, <1>5, AcquireRests, FinishBatchRests
  <2> QED
    BY <1>1, <2>1, <2>2, SameRunsSameIdentities, RestStep
<1>6. CASE StartAnswered(k)
  <2>1. work[k].trying \in inFlight /\ startWrite(work[k].trying) /\ past' = past
    BY <1>6 DEF StartAnswered
  <2>2. SameIdentities /\ workqueue' \subseteq workqueue \cup Keys
    BY <1>1, <2>1, StartWriteKeepsIdentities
  <2> QED
    BY <1>1, <1>6, <2>2, BatchStepsRest, RestStep
<1>7. CASE \/ StartUnanswered(k) \/ Readback(k)
           \/ \E c \in Keys : StartCandidate(k, c) \/ CandidateUnread(k, c)
  <2>1. UNCHANGED <<runs, past, workqueue>>
    BY <1>7 DEF StartUnanswered, Readback, StartCandidate, CandidateUnread, boundVars
  <2>2. Rests(k)
    BY <1>7, BatchStepsRest
  <2> QED
    BY <1>1, <2>1, <2>2, SameRunsSameIdentities, RestStep
<1> QED
  BY <1>2, <1>3, <1>4, <1>5, <1>6, <1>7 DEF Reconcile

LEMMA ClusterRests ==
  ASSUME WatcherInv, RestInv, NEW c \in Keys,
         Commit(c) \/ Drop(c) \/ TektonFinishes(c) \/ Cancel(c) \/ Delete(c)
  PROVE  RestInv'
<1>1. ClusterInv /\ work' = work /\ past' = past
  BY DEF WatcherInv, Commit, Drop, TektonFinishes, Cancel, Delete, boundVars
<1>2. SameIdentities /\ workqueue' \subseteq workqueue \cup Keys
  <2>1. CASE Commit(c)
    BY <1>1, <2>1, StartWriteKeepsIdentities DEF Commit
  <2>2. CASE Drop(c)
    BY <1>1, <2>2, SameRunsSameIdentities DEF Drop
  <2>3. CASE TektonFinishes(c) \/ Cancel(c) \/ Delete(c)
    <3> DEFINE done == [runs[c] EXCEPT !.done = TRUE]
               cancelled == [runs[c] EXCEPT !.spec = Cancelled]
               deleting == [runs[c] EXCEPT !.deleting = TRUE]
    <3>1. runs[c] # NoRun /\ (write(c, done) \/ write(c, cancelled) \/ write(c, deleting))
      BY <2>3 DEF TektonFinishes, Cancel, Delete
    <3>2. runs[c] \in Run
      BY <1>1, <3>1 DEF ClusterInv
    <3>3. /\ done \in Run /\ done.uid = runs[c].uid
          /\ cancelled \in Run /\ cancelled.uid = runs[c].uid
          /\ deleting \in Run /\ deleting.uid = runs[c].uid
      BY <3>2, RunChanges, RunKeepsIdentity
    <3> HIDE DEF done, cancelled, deleting
    <3> QED
      BY <1>1, <3>1, <3>3, WriteKeepsIdentities
  <2> QED
    BY <2>1, <2>2, <2>3
<1> QED
  BY <1>1, <1>2, RestStep

LEMMA RecreateRests ==
  ASSUME WatcherInv, RestInv, NEW c \in Keys, NEW uid \in UIDs, Recreate(c, uid)
  PROVE  RestInv'
<1>1. /\ write(c, newRun(uid)) /\ work' = work /\ ClusterInv
      /\ past' = [past EXCEPT ![c] = @ \cup {uid}] /\ workqueue' = workqueue \cup {c}
  BY DEF Recreate, WatcherInv, write
<1>2. newRun(uid) \in Run /\ newRun(uid).uid = uid
  BY DEF newRun, Run
<1>3. runs'[c] = newRun(uid) /\ \A j \in Keys \ {c} : runs'[j] = runs[j]
  BY <1>1, <1>2, WriteChanges
<1>4. /\ past' \in [Keys -> SUBSET UIDs] /\ uid \in past'[c]
      /\ \A j \in Keys \ {c} : past'[j] = past[j]
  BY <1>1 DEF RestInv
<1>5. \A j \in Keys : runs'[j] = NoRun \/ runs'[j].uid \in past'[j]
  BY <1>2, <1>3, <1>4 DEF RestInv
<1> QED
  BY <1>1, <1>4, <1>5 DEF RestInv

LEMMA NextRests ==
  ASSUME WatcherInv, RestInv, Next
  PROVE  RestInv'
<1>1. ClusterInv
  BY DEF WatcherInv
<1>2. ASSUME NEW l \in Limits \cup Removals, ChangeRepository(l)
      PROVE  RestInv'
  <2>1. UNCHANGED <<runs, past>> /\ work' = work /\ workqueue' \subseteq workqueue \cup Keys
    BY <1>2 DEF ChangeRepository
  <2> QED
    BY <1>1, <2>1, SameRunsSameIdentities, RestStep
<1>3. CASE Crash \/ TakeOver
  <2>1. /\ UNCHANGED <<runs, past>> /\ work' = [k \in Keys |-> Idle]
        /\ workqueue' \subseteq workqueue \cup Keys
    BY <1>3 DEF Crash, TakeOver
  <2> QED
    BY <1>1, <2>1, SameRunsSameIdentities, RestStep
<1>4. CASE RebuildStarted \/ RebuildQueued
  <2>1. UNCHANGED <<runs, past>> /\ work' = work /\ workqueue' \subseteq workqueue \cup Keys
    BY <1>4 DEF RebuildStarted, RebuildQueued, boundVars
  <2> QED
    BY <1>1, <2>1, SameRunsSameIdentities, RestStep
<1> QED
  BY <1>2, <1>3, <1>4, ReconcileRests, ClusterRests, RecreateRests DEF Next

LEMMA InitRests == Init => RestInv
<1> SUFFICES ASSUME Init PROVE RestInv
  OBVIOUS
<1>1. PICK uid \in UIDs : runs = [k \in Keys |-> newRun(uid)] /\ past = [k \in Keys |-> {uid}]
  BY DEF Init
<1>2. workqueue = Keys /\ work = [k \in Keys |-> Idle]
  BY DEF Init
<1>3. newRun(uid).uid = uid
  BY DEF newRun
<1> QED
  BY <1>1, <1>2, <1>3 DEF RestInv

(* The cluster, the work queue and the reconciles are as they are typed; a *)
(* key with no reconcile keeps nothing of the last one, and no outstanding *)
(* start is of a run that is gone.                                         *)
THEOREM WatcherTyped == Spec => []TypeOK
<1>1. WatcherInv /\ RestInv /\ [Next]_vars => RestInv'
  <2>1. ASSUME RestInv, UNCHANGED vars PROVE RestInv'
    BY <2>1 DEF RestInv, vars
  <2> QED
    BY <2>1, NextRests
<1>2. ASSUME WatcherInv, RestInv
      PROVE  TypeOK
  <2>1. ManagerTypeOK
    BY <1>2, AccountsAgree DEF WatcherInv, SlotsAreAccounted
  <2>2. ClusterInv /\ workqueue \subseteq Keys
    BY <1>2 DEF WatcherInv, RestInv
  <2>3. \A k \in Keys : runs[k] = NoRun \/ IsRun(runs[k])
    BY <2>2 DEF ClusterInv, Run, IsRun
  <2>4. inFlight \subseteq {k \in Keys : runs[k] # NoRun}
    BY <2>2 DEF ClusterInv, Startable
  <2>5. \A k \in Keys : work[k] = Idle <=> work[k].pc = "idle"
    BY <1>2, IdleIsWork DEF RestInv
  <2>6. repository \in Limits \cup {NoRepository}
    BY <2>2 DEF ClusterInv
  <2>7. \A k \in Keys : past[k] \subseteq UIDs /\ (runs[k] = NoRun \/ runs[k].uid \in past[k])
    BY <1>2 DEF RestInv
  <2> QED
    BY <2>1, <2>2, <2>3, <2>4, <2>5, <2>6, <2>7 DEF TypeOK
<1>3. WatcherInv /\ RestInv => TypeOK
  BY <1>2
<1> QED
  BY WatcherInvariance, InitRests, <1>1, <1>3, PTL DEF Spec

(***************************************************************************)
(* The slots of the runs that are, or may become, started. What follows    *)
(* supposes what the runs that lose a slot lack: a Repository that stays,  *)
(* names that are not used again, and a process that is followed by one    *)
(* that rebuilds the queue.                                                *)
(***************************************************************************)
Undisturbed == Removals = {} /\ Replacements = {} /\ "standby" \notin Successors

Restarts == "restart" \in Successors

\* InitQueues makes the queue of a limited Repository again.
Rebuilds == MaxChanges = 0 /\ ~Inherited

\* The run has yet to be started.
Fresh(c) == Startable(c) /\ ~Active(c)

\* The started run is in the queue, and no run that has yet to be is before it.
Prior(c) ==
  /\ Queued(mgr, c)
  /\ \A n \in Keys : Queued(mgr, n) /\ Fresh(n) => <<c, n>> \in mgr.queue.ahead

\* After a restart a started run need not have a slot, but then it is the next
\* to get one.
Excused(c) == Restarts /\ (Rebuilds /\ repository # 0 => Prior(c))

\* The slot of the run must not be given away.
Engaged(c) == c \in inFlight \/ (Active(c) /\ ~Excused(c))

SameRun(t) == runs[t[1]] = NoRun \/ runs[t[1]].uid = t[2]

Tried(attempts, c) == \E t \in attempts : t[1] = c

\* The worker of a lease knows the attempts made in it, and its candidates are
\* claimed for it for as long as they may start.
WorkMatches(k) ==
  /\ InBatch(k) <=> leases[k] # NoLease
  /\ leases[k] # Stale
  /\ InBatch(k) =>
       /\ leases[k].owner = Owner(k)
       /\ work[k].todo \subseteq leases[k].cands
       /\ \A t \in work[k].attempts : t[1] \in leases[k].cands
       /\ work[k].pc # "batch" => /\ work[k].trying \in leases[k].cands
                                  /\ Tried(work[k].attempts, work[k].trying)
       /\ \A c \in leases[k].cands : mgr.claims[c] = Owner(k) \/ ~Startable(c)
  /\ \A t \in work[k].attempts : SameRun(t)
  /\ \A c \in work[k].gone : ~Startable(c)

\* An attempt for c is known to the admission that claims it, or to the worker
\* that works on it.
Remembered(c, o) ==
  IF Busy(mgr, o) THEN \E k \in Keys : InBatch(k) /\ Owner(k) = o /\ Tried(work[k].attempts, c)
                  ELSE Tried(Tries(mgr, o), c)

EngagedHolds ==
  \A c \in Keys :
    Engaged(c) => /\ Holds(mgr, c)
                  /\ \A o \in Owners : mgr.claims[c] = o => Remembered(c, o)

\* How far InitQueues has come.
RebuildInv ==
  /\ ~Restarts => phase = "up"
  /\ phase = "started" => mgr = NewManager
  /\ phase = "queued" =>
       \A c \in Keys :
         /\ Queued(mgr, c) => ~Fresh(c)
         /\ Rebuilds /\ repository # 0 /\ Active(c) => Queued(mgr, c)

SlotInv ==
  /\ repository # NoRepository
  /\ RebuildInv
  /\ \A k \in Keys : WorkMatches(k)
  /\ \A o \in Owners : \A t \in Tries(mgr, o) : SameRun(t)
  /\ phase = "up" => EngagedHolds

----------------------------------------------------------------------------
LEMMA EngagedMayStart ==
  ASSUME ClusterInv, NEW c \in Keys, Engaged(c)
  PROVE  Startable(c)
<1>1. CASE c \in inFlight
  BY <1>1 DEF ClusterInv
<1>2. CASE Active(c)
  BY <1>2 DEF Active, Startable, noLongerStartable, StateStarted, StateCompleted
<1> QED
  BY <1>1, <1>2 DEF Engaged

(* A worker in a batch holds the lease of its own owner, which is busy.    *)
LEMMA BatchIsLeased ==
  ASSUME WatcherInv, NEW k \in Keys, WorkMatches(k), InBatch(k)
  PROVE  /\ k \in Workers /\ Working(leases, k) /\ leases[k] \in Lease
         /\ leases[k].owner = Owner(k) /\ Owner(k) \in Owners /\ Busy(mgr, Owner(k))
         /\ leases[k].cands \in SUBSET Keys
         /\ work[k].attempts \in SUBSET (Keys \X UIDs)
         /\ work[k].pc # "idle"
<1>1. k \in Workers
  BY WatcherAssumption
<1>2. Working(leases, k) /\ leases[k].owner = Owner(k)
  BY DEF WorkMatches, Working
<1>3. leases[k] \in Lease /\ leases[k].owner \in Owners /\ leases[k].cands \in SUBSET Keys
  BY <1>1, <1>2, WorkingIsLease DEF WatcherInv, ManagerIInv, LeasesMatch, Working
<1>4. Busy(mgr, leases[k].owner)
  BY <1>1, <1>2 DEF WatcherInv, ManagerIInv, LeasesMatch
<1>5. work[k].attempts \in SUBSET (Keys \X UIDs) /\ work[k].pc # "idle"
  BY DEF WatcherInv, ClusterInv, Work, InBatch
<1> QED
  BY <1>1, <1>2, <1>3, <1>4, <1>5

LEMMA OwnerOfOne ==
  ASSUME NEW j, NEW k, Owner(j) = Owner(k)
  PROVE  j = k
BY DEF Owner

\* The runs of a step without Recreate: none is replaced, and none becomes
\* startable again or is started without an outstanding write.
Ages ==
  \A c \in Keys :
    /\ runs'[c] = NoRun \/ (runs[c] # NoRun /\ runs'[c].uid = runs[c].uid)
    /\ Startable(c)' => Startable(c)
    /\ Active(c)' => Active(c) \/ c \in inFlight
    /\ Active(c) /\ Startable(c)' => Active(c)'

LimitKept == repository' # NoRepository /\ (MaxChanges = 0 => repository' = repository)

\* A claim is only taken back from a run that may not start.
ClaimsStay ==
  \A c \in Keys, o \in Owners :
    mgr.claims[c] = o => mgr'.claims[c] = o \/ ~Startable(c)

LEMMA SameRunStays ==
  ASSUME Ages, NEW t \in Keys \X UIDs, SameRun(t)
  PROVE  SameRun(t)'
<1>1. t[1] \in Keys
  OBVIOUS
<1> QED
  BY <1>1 DEF Ages, SameRun

(* A worker whose reconcile and lease a step leaves alone.                 *)
LEMMA WorkerKept ==
  ASSUME WatcherInv, NEW k \in Keys, WorkMatches(k),
         work'[k] = work[k], leases'[k] = leases[k], Ages,
         InBatch(k) => \A c \in Keys : mgr.claims[c] = Owner(k) =>
                         mgr'.claims[c] = Owner(k) \/ ~Startable(c)
  PROVE  WorkMatches(k)'
<1>1. /\ InBatch(k)' <=> InBatch(k)
      /\ Owner(k)' = Owner(k)
  BY DEF InBatch, Owner
<1>2. work[k].attempts \in SUBSET (Keys \X UIDs) /\ work[k].gone \in SUBSET Keys
  BY DEF WatcherInv, ClusterInv, Work
<1>3. ASSUME NEW t \in work'[k].attempts PROVE SameRun(t)'
  BY <1>2, <1>3, SameRunStays DEF WorkMatches
<1>4. ASSUME NEW c \in work'[k].gone PROVE ~Startable(c)'
  BY <1>2, <1>4 DEF WorkMatches, Ages
<1>5. ASSUME InBatch(k), NEW c \in leases[k].cands
      PROVE  mgr'.claims[c] = Owner(k) \/ ~Startable(c)'
  <2>1. c \in Keys /\ Owner(k) \in Owners
    BY <1>5, BatchIsLeased
  <2>2. mgr.claims[c] = Owner(k) \/ ~Startable(c)
    BY <1>5 DEF WorkMatches
  <2> QED
    BY <1>5, <2>1, <2>2 DEF Ages
<1>6. InBatch(k) =>
        /\ leases'[k].owner = Owner(k)
        /\ work'[k].todo \subseteq leases'[k].cands
        /\ \A t \in work'[k].attempts : t[1] \in leases'[k].cands
        /\ work'[k].pc # "batch" => /\ work'[k].trying \in leases'[k].cands
                                    /\ Tried(work'[k].attempts, work'[k].trying)
  BY DEF WorkMatches
<1>7. /\ InBatch(k) <=> leases'[k] # NoLease
      /\ leases'[k] # Stale
  BY DEF WorkMatches
<1> QED
  BY <1>1, <1>3, <1>4, <1>5, <1>6, <1>7 DEF WorkMatches, Tried

----------------------------------------------------------------------------
(* The steps that take and end no lease, and start nothing.                *)
Quiet(k) ==
  \/ work'[k] = work[k]
  \/ /\ Outside(work[k]) /\ Outside(work'[k])
     /\ work'[k].attempts \subseteq work[k].attempts /\ work'[k].gone \subseteq work[k].gone

LEMMA TriesAreAttempts ==
  ASSUME NEW m, Consistent(m), NEW o \in Owners
  PROVE  Tries(m, o) \in SUBSET (Keys \X UIDs)
<1>1. m.admissions[o] \in Admission \cup {NoAdmission}
  BY DEF Consistent, Typed
<1> QED
  BY <1>1 DEF Tries, Admission

LEMMA StaysClaims ==
  ASSUME NEW keys, Stays(mgr, mgr', keys), \A c \in Keys : c \in keys => ~Startable(c)
  PROVE  ClaimsStay
BY OwnersAreSome DEF Stays, ClaimsStay

LEMMA QuietWorker ==
  ASSUME WatcherInv, NEW k \in Keys, WorkMatches(k), Quiet(k), leases'[k] = leases[k],
         Ages, ClaimsStay
  PROVE  WorkMatches(k)'
<1>1. CASE work'[k] = work[k]
  <2>1. InBatch(k) => Owner(k) \in Owners
    BY BatchIsLeased
  <2> QED
    BY <1>1, <2>1, WorkerKept DEF ClaimsStay
<1>2. CASE /\ Outside(work[k]) /\ Outside(work'[k])
           /\ work'[k].attempts \subseteq work[k].attempts /\ work'[k].gone \subseteq work[k].gone
  <2>1. ~InBatch(k) /\ ~InBatch(k)'
    BY <1>2 DEF Outside, InBatch
  <2>2. work[k].attempts \in SUBSET (Keys \X UIDs) /\ work[k].gone \in SUBSET Keys
    BY DEF WatcherInv, ClusterInv, Work
  <2>3. ASSUME NEW t \in work'[k].attempts PROVE SameRun(t)'
    BY <1>2, <2>2, <2>3, SameRunStays DEF WorkMatches
  <2>4. ASSUME NEW c \in work'[k].gone PROVE ~Startable(c)'
    BY <1>2, <2>2, <2>4 DEF WorkMatches, Ages
  <2>5. leases'[k] = NoLease /\ NoLease # Stale
    BY <2>1, LeaseIsSome DEF WorkMatches
  <2> QED
    BY <2>1, <2>3, <2>4, <2>5 DEF WorkMatches
<1> QED
  BY <1>1, <1>2 DEF Quiet

(* A started run keeps its place in the queue, which only keys that may    *)
(* not start leave, and nobody gets in front of it.                        *)
LEMMA PriorKept ==
  ASSUME Ages, NEW keys, InLine(mgr, mgr', keys), NEW c \in Keys, c \notin keys,
         Active(c), Prior(c), Startable(c)'
  PROVE  Prior(c)'
<1>1. mgr.queue # NoQueue /\ c \in Tracked(mgr.queue)
  BY DEF Prior, Queued
<1>2. mgr'.queue # NoQueue /\ KeepsPlaces(mgr.queue, mgr'.queue, keys)
  BY <1>1 DEF InLine
<1>3. Queued(mgr', c)
  BY <1>1, <1>2 DEF KeepsPlaces, Queued
<1>4. ASSUME NEW n \in Keys, Queued(mgr', n), Fresh(n)'
      PROVE  <<c, n>> \in mgr'.queue.ahead
  <2>1. Fresh(n)
    BY <1>4 DEF Fresh, Ages
  <2>2. n # c
    BY <2>1 DEF Fresh
  <2>3. n \in Tracked(mgr.queue) => <<c, n>> \in mgr.queue.ahead
    BY <1>1, <2>1 DEF Prior, Queued
  <2>4. n \in Tracked(mgr'.queue)
    BY <1>4 DEF Queued
  <2> QED
    BY <1>1, <1>2, <2>2, <2>3, <2>4 DEF KeepsPlaces
<1> QED
  BY <1>3, <1>4 DEF Prior

LEMMA EngagedBefore ==
  ASSUME ClusterInv, Ages, LimitKept, NEW keys, InLine(mgr, mgr', keys),
         \A c \in Keys : c \in keys => ~Startable(c), NEW c \in Keys, Engaged(c)'
  PROVE  Engaged(c) \/ c \in inFlight'
<1> SUFFICES ASSUME c \notin inFlight', c \notin inFlight PROVE Active(c) /\ ~Excused(c)
  BY DEF Engaged
<1>1. Active(c)' /\ ~Excused(c)'
  BY DEF Engaged
<1>2. Active(c) /\ Startable(c)'
  <2>1. Startable(c)'
    BY <1>1 DEF Active, Startable, noLongerStartable, StateStarted, StateCompleted
  <2> QED
    BY <1>1, <2>1 DEF Ages
<1>3. Startable(c)
  BY <1>2 DEF Ages
<1>4. Restarts /\ Prior(c) => Prior(c)'
  BY <1>2, <1>3, PriorKept
<1>5. Rebuilds => repository' = repository
  BY DEF Rebuilds, LimitKept
<1>6. Excused(c) => Excused(c)'
  BY <1>4, <1>5 DEF Excused
<1> QED
  BY <1>1, <1>2, <1>6

LEMMA RebuildKept ==
  ASSUME RebuildInv, Ages, LimitKept, phase' = phase, phase = "up" \/ mgr' = mgr,
         phase = "queued" => inFlight = {}
  PROVE  RebuildInv'
<1>1. CASE phase = "up"
  BY <1>1 DEF RebuildInv
<1>2. CASE phase # "up" /\ mgr' = mgr
  <2>1. ASSUME phase = "queued", NEW c \in Keys, Queued(mgr, c) PROVE ~Fresh(c)'
    BY <2>1 DEF RebuildInv, Fresh, Ages
  <2>2. ASSUME phase = "queued", NEW c \in Keys, Rebuilds, repository' # 0, Active(c)'
        PROVE  Queued(mgr, c)
    <3>1. Active(c) /\ repository # 0
      BY <2>2 DEF Ages, LimitKept, Rebuilds
    <3> QED
      BY <2>2, <3>1 DEF RebuildInv
  <2> QED
    BY <1>2, <2>1, <2>2 DEF RebuildInv, Queued
<1> QED
  BY <1>1, <1>2

LEMMA QuietStep ==
  ASSUME WatcherInv, SlotInv, leases' = leases, \A j \in Keys : Quiet(j), Ages,
         inFlight' \subseteq inFlight, \A o \in Owners : Busy(mgr, o) <=> Busy(mgr', o),
         NEW keys, Stays(mgr, mgr', keys), \A c \in Keys : c \in keys => ~Startable(c),
         phase' = phase, phase = "up" \/ mgr' = mgr, LimitKept
  PROVE  SlotInv'
<1>1. ClaimsStay
  BY StaysClaims
<1>2. ASSUME NEW k \in Keys PROVE WorkMatches(k)'
  BY <1>1, QuietWorker DEF SlotInv
<1>3. ASSUME NEW o \in Owners, NEW t \in Tries(mgr', o) PROVE SameRun(t)'
  <2>1. t \in Tries(mgr, o) /\ t \in Keys \X UIDs
    BY <1>3, TriesAreAttempts DEF Stays, WatcherInv, ManagerIInv
  <2> QED
    BY <2>1, SameRunStays DEF SlotInv
<1>4. ASSUME phase = "up", NEW c \in Keys, Engaged(c)'
      PROVE  /\ Holds(mgr', c)
             /\ \A o \in Owners : mgr'.claims[c] = o => Remembered(c, o)'
  <2>1. Engaged(c)
    BY <1>4, EngagedBefore DEF WatcherInv, Stays, Engaged
  <2>2. Startable(c) /\ c \notin keys
    BY <2>1, EngagedMayStart DEF WatcherInv
  <2>3. Holds(mgr, c) /\ \A o \in Owners : mgr.claims[c] = o => Remembered(c, o)
    BY <1>4, <2>1 DEF SlotInv, EngagedHolds
  <2>4. Holds(mgr', c) /\ mgr'.claims[c] = mgr.claims[c]
    BY <2>2, <2>3 DEF Stays
  <2>5. ASSUME NEW o \in Owners, mgr'.claims[c] = o
        PROVE  Remembered(c, o)'
    <3>1. Remembered(c, o)
      BY <2>3, <2>4, <2>5
    <3>2. CASE Busy(mgr, o)
      <4>1. PICK k \in Keys : InBatch(k) /\ Owner(k) = o /\ Tried(work[k].attempts, c)
        BY <3>1, <3>2 DEF Remembered
      <4>2. work'[k] = work[k]
        BY <4>1 DEF Quiet, InBatch, Outside
      <4>3. InBatch(k)' /\ Owner(k)' = o /\ Tried(work'[k].attempts, c)
        BY <4>1, <4>2 DEF InBatch, Owner
      <4>4. Busy(mgr', o)
        BY <3>2
      <4> QED
        BY <4>3, <4>4 DEF Remembered, Tried
    <3>3. CASE ~Busy(mgr, o)
      <4>1. PICK t \in Tries(mgr, o) : t[1] = c
        BY <3>1, <3>3 DEF Remembered, Tried
      <4>2. t \in Tries(mgr', o)
        BY <2>2, <4>1 DEF Stays
      <4>3. ~Busy(mgr', o)
        BY <3>3
      <4> QED
        BY <4>1, <4>2, <4>3 DEF Remembered, Tried
    <3> QED
      BY <3>2, <3>3
  <2> QED
    BY <2>4, <2>5
<1>5. phase' = "up" => EngagedHolds'
  BY <1>4 DEF EngagedHolds
<1>6. RebuildInv'
  BY RebuildKept DEF SlotInv, WatcherInv, ClusterInv
<1> QED
  BY <1>2, <1>3, <1>5, <1>6 DEF SlotInv, LimitKept

(* The ways a step is quiet: it moves one reconcile on outside of a batch, *)
(* or leaves the manager alone, or the runs, or writes to one run.         *)
LEMMA MovesQuietly ==
  ASSUME NEW k \in Keys, MovesOn(k), Outside(work[k])
  PROVE  \A j \in Keys : Quiet(j)
BY DEF MovesOn, OnlyWorkOf, Quiet

LEMMA SameWorkQuietly ==
  ASSUME UNCHANGED work
  PROVE  \A j \in Keys : Quiet(j)
BY DEF Quiet

LEMMA SameRunsAge ==
  ASSUME UNCHANGED runs
  PROVE  Ages
BY DEF Ages, Startable, Active

LEMMA WriteAges ==
  ASSUME ClusterInv, NEW c \in Keys, NEW run \in Run \cup {NoRun}, write(c, run),
         run # NoRun => runs[c] # NoRun /\ run.uid = runs[c].uid /\ noLongerStartable(run)
  PROVE  Ages
<1>1. runs'[c] = run /\ \A j \in Keys \ {c} : runs'[j] = runs[j]
  BY WriteChanges
<1>2. ASSUME NEW j \in Keys
      PROVE  /\ runs'[j] = NoRun \/ (runs[j] # NoRun /\ runs'[j].uid = runs[j].uid)
             /\ Startable(j)' => Startable(j)
             /\ Active(j)' => Active(j) \/ j \in inFlight
             /\ Active(j) /\ Startable(j)' => Active(j)'
  <2>1. CASE j # c
    BY <1>1, <2>1 DEF Startable, Active
  <2>2. CASE j = c
    <3>1. runs'[j] = run
      BY <1>1, <2>2
    <3>2. ~Startable(j)'
      BY <3>1, <2>2 DEF Startable
    <3>3. ~Active(j)'
      BY <3>1, <2>2 DEF Active, noLongerStartable, StateStarted, StateCompleted
    <3> QED
      BY <2>2, <3>1, <3>2, <3>3
  <2> QED
    BY <2>1, <2>2
<1> QED
  BY <1>2 DEF Ages

LEMMA StartWriteAges ==
  ASSUME ClusterInv, NEW c \in inFlight, startWrite(c)
  PROVE  Ages
<1>1. /\ Startable(c) /\ c \in Keys
      /\ runs'[c] = [runs[c] EXCEPT !.state = StateStarted,
                                    !.spec = IF @ = Pending THEN None ELSE @]
      /\ \A j \in Keys \ {c} : runs'[j] = runs[j]
      /\ \A j \in Keys : Carries(j)
  BY StartWriteChanges DEF ClusterInv
<1>2. ASSUME NEW j \in Keys
      PROVE  /\ runs'[j] = NoRun \/ (runs[j] # NoRun /\ runs'[j].uid = runs[j].uid)
             /\ Startable(j)' => Startable(j)
             /\ Active(j)' => Active(j) \/ j \in inFlight
             /\ Active(j) /\ Startable(j)' => Active(j)'
  <2>1. CASE j # c
    BY <1>1, <2>1 DEF Startable, Active
  <2>2. CASE j = c
    <3>1. runs'[j].state = StateStarted
      <4>1. runs[c] \in Run
        BY <1>1 DEF ClusterInv, Startable
      <4> QED
        BY <1>1, <2>2, <4>1 DEF Run
    <3>2. runs'[j] = NoRun \/ (runs[j] # NoRun /\ runs'[j].uid = runs[j].uid)
      BY <1>1, <2>2 DEF Carries, Startable
    <3>3. Startable(j)' => Active(j)'
      BY <3>1 DEF Startable, Active, noLongerStartable
    <3> QED
      BY <1>1, <2>2, <3>2, <3>3
  <2> QED
    BY <2>1, <2>2
<1> QED
  BY <1>2 DEF Ages

LEMMA UnmanagedStep ==
  ASSUME WatcherInv, SlotInv, UNCHANGED managerVars, \A j \in Keys : Quiet(j), Ages,
         inFlight' \subseteq inFlight, phase' = phase, LimitKept
  PROVE  SlotInv'
<1>1. /\ Stays(mgr, mgr', {}) /\ mgr' = mgr /\ leases' = leases
      /\ \A o \in Owners : Busy(mgr, o) <=> Busy(mgr', o)
  BY StaysReflexive DEF managerVars
<1> QED
  BY <1>1, QuietStep

(* A method of the manager that a reconcile calls outside of a batch.      *)
LEMMA MethodStep ==
  ASSUME WatcherInv, SlotInv, NEW k \in Keys, MovesOn(k), Outside(work[k]),
         KeepsBatches(mgr, mgr'), leases' = leases \/ leases' = StillCurrent(mgr', leases),
         NEW keys, Stays(mgr, mgr', keys), \A c \in Keys : c \in keys => ~Startable(c),
         Ages, inFlight' \subseteq inFlight, phase = "up", UNCHANGED <<phase, repository>>
  PROVE  SlotInv'
<1>1. leases' = leases
  BY LeasesKept DEF WatcherInv, ManagerIInv
<1>2. \A o \in Owners : Busy(mgr, o) <=> Busy(mgr', o)
  BY DEF KeepsBatches
<1>3. LimitKept
  BY DEF SlotInv, LimitKept
<1> QED
  BY <1>1, <1>2, <1>3, MovesQuietly, QuietStep

----------------------------------------------------------------------------
(* One lemma per action.                                                   *)
LEMMA BeginSlots ==
  ASSUME WatcherInv, SlotInv, NEW k \in Keys, Begin(k) \/ ListRuns(k) \/ Report(k) \/ Fail(k)
  PROVE  SlotInv'
<1>1. /\ UNCHANGED managerVars /\ UNCHANGED <<runs, inFlight, repository, phase>>
      /\ Outside(work[k])
  BY DEF Begin, ListRuns, Report, Fail, At, Outside
<1>2. MovesOn(k)
  BY BeginMovesOn, ReadsMoveOn, EndMovesOn DEF WatcherInv, Fail, endWithError
<1>3. LimitKept
  BY <1>1 DEF SlotInv, LimitKept
<1> QED
  BY <1>1, <1>2, <1>3, MovesQuietly, SameRunsAge, UnmanagedStep

LEMMA TerminalWriteSlots ==
  ASSUME WatcherInv, SlotInv, NEW k \in Keys, TerminalWrite(k) \/ TerminalWriteUnanswered(k)
  PROVE  SlotInv'
<1> DEFINE run == [runs[k] EXCEPT !.state = StateCompleted]
<1>1. /\ UNCHANGED managerVars /\ write(k, run) /\ UNCHANGED <<repository, phase>>
      /\ At(k, "write") /\ Outside(work[k])
      /\ goto(k, "forget", Promotion, TRUE) \/ end(k)
  BY DEF TerminalWrite, TerminalWriteUnanswered, At, Outside
<1>2. ClusterInv /\ phase = "up" /\ Knows(work[k], runs[k])
  BY <1>1 DEF WatcherInv, ClusterInv, At
<1>3. runs[k] \in Run /\ runs[k] # NoRun
  BY <1>2 DEF ClusterInv, Knows
<1>4. run \in Run /\ run.uid = runs[k].uid /\ noLongerStartable(run)
  BY <1>3, RunChanges DEF noLongerStartable, Run
<1> HIDE DEF run
<1>5. Ages
  BY <1>1, <1>2, <1>3, <1>4, WriteAges
<1>6. MovesOn(k)
  <2>1. Promotion \in Modes /\ Finishing(work[k].run)
    BY <1>1, <1>2 DEF Modes, Knows, At
  <2> QED
    BY <1>1, <1>2, <2>1, EndMovesOn, GotoMovesOn
<1>7. inFlight' \subseteq inFlight /\ LimitKept
  BY <1>1 DEF write, SlotInv, LimitKept
<1> QED
  BY <1>1, <1>5, <1>6, <1>7, MovesQuietly, UnmanagedStep

LEMMA ForgetOwnerSlots ==
  ASSUME WatcherInv, SlotInv, NEW k \in Keys, ForgetOwner(k)
  PROVE  SlotInv'
<1>1. /\ At(k, "forget") /\ Outside(work[k]) /\ end(k) /\ UNCHANGED <<repository, phase>>
      /\ phase = "up"
      /\ ForgetAdmission(Owner(k)) \/ UNCHANGED managerVars
      /\ write(k, NoRun) \/ UNCHANGED <<runs, inFlight>>
  BY DEF ForgetOwner, At, Outside
<1>2. ManagerIInv /\ ClusterInv /\ work[k].pc # "idle"
  BY <1>1 DEF WatcherInv, At
<1>3. MovesOn(k) /\ Owner(k) \in Owners
  BY <1>1, <1>2, EndMovesOn, Callable
<1>4. inFlight' \subseteq inFlight
  BY <1>1 DEF write
<1>5. Ages
  BY <1>1, <1>2, WriteAges, SameRunsAge
<1>6. CASE UNCHANGED managerVars
  <2>1. LimitKept
    BY <1>1 DEF SlotInv, LimitKept
  <2> QED
    BY <1>1, <1>3, <1>4, <1>5, <1>6, <2>1, MovesQuietly, UnmanagedStep
<1>7. CASE ForgetAdmission(Owner(k))
  <2> DEFINE o == Owner(k)
  <2>1. /\ Consistent(mgr) /\ o \in Owners
        /\ mgr.admissions[o] # NoAdmission /\ ~mgr.admissions[o].busy
        /\ mgr.admissions[o].cands = {}
        /\ mgr' = [mgr EXCEPT !.admissions[o] = NoAdmission]
        /\ leases' = StillCurrent(mgr', leases)
    BY <1>2, <1>3, <1>7 DEF ForgetAdmission, Forgettable, ManagerIInv
  <2> HIDE DEF o
  <2>2. KeepsBatches(mgr, mgr')
    BY <2>1, ForgottenOK
  <2>3. Stays(mgr, mgr', {})
    BY <2>1, ForgottenStays
  <2> QED
    BY <1>1, <1>3, <1>4, <1>5, <2>1, <2>2, <2>3, MethodStep
<1> QED
  BY <1>1, <1>6, <1>7

LEMMA UserAndTektonWrites ==
  ASSUME WatcherInv, NEW c \in Keys, TektonFinishes(c) \/ Cancel(c) \/ Delete(c)
  PROVE  /\ UNCHANGED managerVars /\ UNCHANGED <<work, phase, repository>>
         /\ Ages /\ inFlight' \subseteq inFlight
         /\ \A d \in Keys : Over(d)' <=> Over(d)
<1>1. /\ runs[c] # NoRun /\ UNCHANGED managerVars /\ UNCHANGED <<work, phase, repository>>
      /\ \/ write(c, [runs[c] EXCEPT !.done = TRUE])
         \/ write(c, [runs[c] EXCEPT !.spec = Cancelled])
         \/ write(c, [runs[c] EXCEPT !.deleting = TRUE])
  BY DEF TektonFinishes, Cancel, Delete
<1>2. ClusterInv /\ runs[c] \in Run
  BY <1>1 DEF WatcherInv, ClusterInv
<1>3. PICK run \in Run : /\ write(c, run) /\ Finishing(run)
                         /\ run.uid = runs[c].uid /\ run.state = runs[c].state
  <2>1. CASE write(c, [runs[c] EXCEPT !.done = TRUE])
    <3> DEFINE run == [runs[c] EXCEPT !.done = TRUE]
    <3>1. run \in Run /\ run.uid = runs[c].uid /\ run.state = runs[c].state /\ run.done
      BY <1>2, RunChanges DEF Run
    <3> QED
      BY <2>1, <3>1 DEF Finishing
  <2>2. CASE write(c, [runs[c] EXCEPT !.spec = Cancelled])
    <3> DEFINE run == [runs[c] EXCEPT !.spec = Cancelled]
    <3>1. run \in Run /\ run.uid = runs[c].uid /\ run.state = runs[c].state /\ run.spec = Cancelled
      BY <1>2, RunChanges DEF Run
    <3> QED
      BY <2>2, <3>1 DEF Finishing
  <2>3. CASE write(c, [runs[c] EXCEPT !.deleting = TRUE])
    <3> DEFINE run == [runs[c] EXCEPT !.deleting = TRUE]
    <3>1. run \in Run /\ run.uid = runs[c].uid /\ run.state = runs[c].state /\ run.deleting
      BY <1>2, RunChanges DEF Run
    <3> QED
      BY <2>3, <3>1 DEF Finishing
  <2> QED
    BY <1>1, <2>1, <2>2, <2>3
<1>4. noLongerStartable(run)
  BY <1>3 DEF noLongerStartable
<1>5. Ages
  BY <1>1, <1>2, <1>3, <1>4, WriteAges
<1>6. \A d \in Keys : Over(d)' <=> Over(d)
  <2>1. runs'[c] = run /\ \A d \in Keys \ {c} : runs'[d] = runs[d]
    BY <1>2, <1>3, WriteChanges
  <2> QED
    BY <1>1, <1>3, <2>1, NoRunIsNone DEF Over
<1> QED
  BY <1>1, <1>3, <1>5, <1>6 DEF write

LEMMA UserAndTektonSlots ==
  ASSUME WatcherInv, SlotInv, NEW c \in Keys, TektonFinishes(c) \/ Cancel(c) \/ Delete(c)
  PROVE  SlotInv'
<1>1. /\ UNCHANGED managerVars /\ UNCHANGED <<work, phase, repository>>
      /\ Ages /\ inFlight' \subseteq inFlight
  BY UserAndTektonWrites
<1>2. LimitKept
  BY <1>1 DEF SlotInv, LimitKept
<1> QED
  BY <1>1, <1>2, SameWorkQuietly, UnmanagedStep

LEMMA CommitSlots ==
  ASSUME WatcherInv, SlotInv, NEW c \in Keys, Commit(c) \/ Drop(c)
  PROVE  SlotInv'
<1>1. UNCHANGED managerVars /\ UNCHANGED <<work, phase, repository>> /\ c \in inFlight
  BY DEF Commit, Drop
<1>2. Ages /\ inFlight' \subseteq inFlight
  BY <1>1, StartWriteAges, SameRunsAge DEF WatcherInv, Commit, Drop, startWrite, write
<1>3. LimitKept
  BY <1>1 DEF SlotInv, LimitKept
<1> QED
  BY <1>1, <1>2, <1>3, SameWorkQuietly, UnmanagedStep

ChangesBounded == MaxChanges = 0 => changes = 0

LEMMA ChangeRepositorySlots ==
  ASSUME WatcherInv, SlotInv, Undisturbed, ChangesBounded,
         NEW l \in Limits \cup Removals, ChangeRepository(l)
  PROVE  SlotInv'
<1>1. /\ repository' = l /\ runs' = runs /\ inFlight' = inFlight
      /\ UNCHANGED managerVars /\ UNCHANGED <<work, phase>>
  BY DEF ChangeRepository
<1>2. l \in Nat
  BY QueueManagerAssumption DEF Undisturbed
<1>3. LimitKept
  BY <1>1, <1>2, WatcherAssumption DEF LimitKept, ChangesBounded, ChangeRepository
<1> QED
  BY <1>1, <1>3, SameWorkQuietly, SameRunsAge, UnmanagedStep

----------------------------------------------------------------------------
(* Acquire: a reconcile that gives its own run's place up knows that the   *)
(* run is finishing.                                                       *)
Leaving(k) ==
  IF work[k].mode = Promotion \/ (work[k].mode = Resume /\ Finishing(work[k].run))
  THEN {k} ELSE {}

LEMMA LeavingMayNotStart ==
  ASSUME ClusterInv, NEW k \in Keys, work[k].pc # "idle"
  PROVE  /\ \A c \in Leaving(k) : ~Startable(c)
         /\ work[k].mode = Promotion \/ (work[k].mode = Resume /\ Finishing(work[k].run))
              => KeyOf(Owner(k)) \in Leaving(k)
<1>1. Knows(work[k], runs[k])
  BY DEF ClusterInv
<1>2. Leaving(k) # {} => ~Startable(k)
  BY <1>1 DEF Knows, Leaving, Startable, noLongerStartable
<1> QED
  BY <1>2 DEF Leaving, KeyOf, Owner

LEMMA AcquirePrepares ==
  ASSUME WatcherInv, NEW k \in Keys, work[k].pc # "idle", ~BeingProcessed(Owner(k))
  PROVE  LET n == prepared(mgr, Owner(k), work[k].list, work[k].mode,
                           Finishing(work[k].run), work[k].limit)
         IN  /\ Consistent(n) /\ n.queue # NoQueue /\ n.admissions[Owner(k)] # NoAdmission
             /\ KeepsBatches(mgr, n) /\ Stays(mgr, n, Leaving(k))
             /\ n.queue.limit = work[k].limit
<1> DEFINE o == Owner(k)
           list == work[k].list
           mode == work[k].mode
           limit == work[k].limit
           finishing == Finishing(work[k].run)
           keys == Leaving(k)
           n == prepared(mgr, o, list, mode, finishing, limit)
<1>1. /\ Consistent(mgr) /\ o \in Owners /\ list \in Seq(Keys) /\ limit \in Nat
  BY Callable DEF WatcherInv, ManagerIInv
<1>2. ~Busy(mgr, o)
  BY DEF BeingProcessed, Busy
<1>3. mode = Promotion \/ (mode = Resume /\ finishing) => KeyOf(o) \in keys
  BY LeavingMayNotStart DEF WatcherInv
<1> HIDE DEF o, list, mode, limit, finishing, keys
<1>4. /\ Consistent(n) /\ n.queue # NoQueue /\ n.admissions[o] # NoAdmission
      /\ Keeps(mgr, n)
  BY <1>1, <1>2, PreparedOK
<1>5. Stays(mgr, n, keys) /\ n.queue.limit = limit
  BY <1>1, <1>2, <1>3, PreparedStays
<1> HIDE DEF n
<1>6. KeepsBatches(mgr, n)
  BY <1>4 DEF Keeps
<1> QED
  BY <1>4, <1>5, <1>6 DEF n, o, list, mode, limit, finishing, keys

LEMMA AcquireIdlySlots ==
  ASSUME WatcherInv, SlotInv, NEW k \in Keys, At(k, "acquire"), MovesOn(k),
         UNCHANGED <<runs, inFlight, repository, phase>>,
         \/ AcquireNothing(Owner(k), work[k].mode, work[k].limit)
         \/ AcquireRefused(Owner(k), work[k].mode, work[k].limit)
         \/ AcquireBlocked(Owner(k), work[k].list, work[k].mode, Finishing(work[k].run),
                           work[k].limit)
  PROVE  SlotInv'
<1>1. /\ ClusterInv /\ Consistent(mgr) /\ work[k].pc # "idle" /\ Outside(work[k])
      /\ phase = "up"
  BY DEF WatcherInv, ManagerIInv, At, Outside
<1>2. work[k].limit \in Nat
  BY <1>1, Callable
<1>3. Ages /\ inFlight' \subseteq inFlight
  BY SameRunsAge
<1>4. CASE UNCHANGED managerVars
  <2>1. LimitKept
    BY DEF SlotInv, LimitKept
  <2> QED
    BY <1>1, <1>3, <1>4, <2>1, MovesQuietly, UnmanagedStep
<1>5. CASE mgr' = getSemaphore(mgr, work[k].limit) /\ leases' = leases
  <2>1. KeepsBatches(mgr, mgr')
    BY <1>1, <1>2, <1>5, GetSemaphoreOK DEF Keeps
  <2>2. Stays(mgr, mgr', {})
    BY <1>1, <1>2, <1>5, GetSemaphoreStays
  <2> QED
    BY <1>1, <1>3, <1>5, <2>1, <2>2, MethodStep
<1>6. CASE AcquireBlocked(Owner(k), work[k].list, work[k].mode, Finishing(work[k].run),
                          work[k].limit)
  <2>1. /\ ~BeingProcessed(Owner(k)) /\ leases' = StillCurrent(mgr', leases)
        /\ mgr' = prepared(mgr, Owner(k), work[k].list, work[k].mode,
                           Finishing(work[k].run), work[k].limit)
    BY <1>6 DEF AcquireBlocked, Admissible
  <2>2. KeepsBatches(mgr, mgr') /\ Stays(mgr, mgr', Leaving(k))
    BY <1>1, <2>1, AcquirePrepares
  <2>3. \A c \in Keys : c \in Leaving(k) => ~Startable(c)
    BY <1>1, LeavingMayNotStart
  <2> QED
    BY <1>1, <1>3, <2>1, <2>2, <2>3, MethodStep
<1>7. \/ UNCHANGED managerVars
      \/ mgr' = getSemaphore(mgr, work[k].limit) /\ leases' = leases
      \/ AcquireBlocked(Owner(k), work[k].list, work[k].mode, Finishing(work[k].run),
                        work[k].limit)
  BY DEF AcquireNothing, AcquireRefused
<1> QED
  BY <1>4, <1>5, <1>6, <1>7

(* The admissions of the owners a step of one worker is not about stay as  *)
(* busy as they were.                                                      *)
LEMMA BusyElsewhere ==
  ASSUME ManagerIInv, ManagerIInv', NEW k, \A w \in Workers \ {k} : leases'[w] = leases[w],
         NEW o \in Owners,
         Working(leases, k) => leases[k].owner # o,
         Working(leases', k) => leases'[k].owner # o
  PROVE  Busy(mgr, o) <=> Busy(mgr', o)
<1>1. ASSUME Busy(mgr, o) PROVE Busy(mgr', o)
  <2>1. PICK w \in Workers : Working(leases, w) /\ leases[w].owner = o
    BY <1>1 DEF ManagerIInv, LeasesMatch
  <2>2. leases'[w] = leases[w]
    BY <2>1
  <2>3. Working(leases', w) /\ leases'[w].owner = o
    BY <2>1, <2>2 DEF Working
  <2> QED
    BY <2>3 DEF ManagerIInv, LeasesMatch
<1>2. ASSUME Busy(mgr', o) PROVE Busy(mgr, o)
  <2>1. PICK w \in Workers : Working(leases', w) /\ leases'[w].owner = o
    BY <1>2 DEF ManagerIInv, LeasesMatch
  <2>2. leases'[w] = leases[w]
    BY <2>1
  <2>3. Working(leases, w) /\ leases[w].owner = o
    BY <2>1, <2>2 DEF Working
  <2> QED
    BY <2>3 DEF ManagerIInv, LeasesMatch
<1> QED
  BY <1>1, <1>2

(* What a reconcile of another run's worker says of its owner.             *)
LEMMA RememberedElsewhere ==
  ASSUME ManagerIInv, ManagerIInv', NEW k \in Keys,
         \A j \in Keys \ {k} : work'[j] = work[j],
         \A w \in Workers \ {k} : leases'[w] = leases[w],
         Working(leases, k) => leases[k].owner = Owner(k),
         Working(leases', k) => leases'[k].owner = Owner(k),
         NEW c, NEW o \in Owners, o # Owner(k), Remembered(c, o),
         \A t \in Tries(mgr, o) : t[1] = c => t \in Tries(mgr', o)
  PROVE  Remembered(c, o)'
<1>1. Busy(mgr, o) <=> Busy(mgr', o)
  BY BusyElsewhere
<1>2. CASE Busy(mgr, o)
  <2>1. PICK j \in Keys : InBatch(j) /\ Owner(j) = o /\ Tried(work[j].attempts, c)
    BY <1>2 DEF Remembered
  <2>2. work'[j] = work[j]
    BY <2>1
  <2>3. InBatch(j)' /\ Owner(j)' = o /\ Tried(work'[j].attempts, c)
    BY <2>1, <2>2 DEF InBatch, Owner
  <2> QED
    BY <1>1, <1>2, <2>3 DEF Remembered, Tried
<1>3. CASE ~Busy(mgr, o)
  BY <1>1, <1>3 DEF Remembered, Tried
<1> QED
  BY <1>2, <1>3

----------------------------------------------------------------------------
(* The lease of a new batch: the slots the admission has, and the attempts *)
(* made for them, which are all the ones it knows of.                      *)
LEMMA AcquireLeases ==
  ASSUME WatcherInv, NEW k \in Keys, work[k].pc # "idle",
         AcquireWork(k, Owner(k), work[k].list, work[k].mode, Finishing(work[k].run),
                     work[k].limit)
  PROVE  /\ Stays(mgr, mgr', Leaving(k)) /\ mgr'.queue # NoQueue
         /\ mgr'.queue.limit = work[k].limit
         /\ leases[k] = NoLease /\ leases'[k].owner = Owner(k)
         /\ \A j \in Workers \ {k} : leases'[j] = leases[j]
         /\ \A c \in leases'[k].cands : mgr'.claims[c] = Owner(k)
         /\ \A t \in Tries(mgr', Owner(k)) : t \in leases'[k].attempts
         /\ \A t \in leases'[k].attempts : t \in Tries(mgr', Owner(k)) /\ t[1] \in leases'[k].cands
<1> DEFINE o == Owner(k)
           n == prepared(mgr, o, work[k].list, work[k].mode, Finishing(work[k].run),
                         work[k].limit)
           self == n.admissions[o]
           lease == [owner |-> o, cands |-> self.reserved,
                     attempts |-> {a \in self.attempts : a[1] \in self.reserved}]
<1>1. /\ leases[k] = NoLease /\ ~BeingProcessed(o)
      /\ mgr' = [n EXCEPT !.admissions[o].busy = TRUE]
      /\ leases' = [StillCurrent(n, leases) EXCEPT ![k] = lease]
  BY DEF AcquireWork, Admissible
<1>2. k \in Workers /\ o \in Owners
  BY Callable DEF WatcherInv
<1>3. /\ Consistent(n) /\ n.queue # NoQueue /\ self # NoAdmission
      /\ KeepsBatches(mgr, n) /\ Stays(mgr, n, Leaving(k))
      /\ n.queue.limit = work[k].limit
  BY <1>1, AcquirePrepares
<1> HIDE DEF n, o
<1>4. StillCurrent(n, leases) = leases /\ leases \in [Workers -> Lease \cup {NoLease, Stale}]
  BY <1>3, LeasesKept DEF WatcherInv, ManagerIInv, LeasesMatch
<1>5. Stays(n, mgr', Leaving(k)) /\ mgr'.queue = n.queue
  BY <1>1, <1>2, <1>3, LeasedStays
<1>6. Stays(mgr, mgr', Leaving(k)) /\ mgr'.queue # NoQueue /\ mgr'.queue.limit = work[k].limit
  BY <1>3, <1>5, StaysComposes
<1>7. leases'[k] = lease /\ \A j \in Workers \ {k} : leases'[j] = leases[j]
  BY <1>1, <1>2, <1>4
<1>8. self \in Admission /\ SlotsMatch(self, n.queue)
  BY <1>2, <1>3 DEF Consistent, Typed
<1>9. \A c \in Keys : n.claims[c] = o <=> c \in self.cands
  BY <1>2, <1>3 DEF Consistent, ClaimsMatch
<1>10. mgr'.claims = n.claims /\ mgr'.admissions[o] = [self EXCEPT !.busy = TRUE]
  <2>1. n.admissions \in [Owners -> Admission \cup {NoAdmission}]
        /\ n = [queue |-> n.queue, admissions |-> n.admissions, claims |-> n.claims]
    BY <1>3 DEF Consistent, Typed
  <2> QED
    BY <1>1, <1>2, <2>1
<1>11. self.reserved \subseteq self.cands /\ \A t \in self.attempts : t[1] \in self.reserved
  BY <1>8 DEF SlotsMatch
<1>12. Tries(mgr', o) = self.attempts
  <2>1. [self EXCEPT !.busy = TRUE] \in Admission
        /\ [self EXCEPT !.busy = TRUE].attempts = self.attempts
    BY <1>8 DEF Admission
  <2> QED
    BY <1>10, <2>1, NoAdmissionIsNone DEF Tries
<1>13. self.cands \subseteq Keys
  BY <1>8 DEF Admission
<1>14. /\ \A c \in lease.cands : mgr'.claims[c] = o
       /\ \A t \in Tries(mgr', o) : t \in lease.attempts
       /\ \A t \in lease.attempts : t \in Tries(mgr', o) /\ t[1] \in lease.cands
       /\ lease.owner = o
  BY <1>9, <1>10, <1>11, <1>12, <1>13
<1> HIDE DEF lease, self
<1> QED
  BY <1>1, <1>6, <1>7, <1>14 DEF o

LEMMA AcquireWorkSlots ==
  ASSUME WatcherInv, SlotInv, NEW k \in Keys, At(k, "acquire"),
         AcquireWork(k, Owner(k), work[k].list, work[k].mode, Finishing(work[k].run),
                     work[k].limit),
         TakesBatch(k), UNCHANGED <<runs, inFlight, repository, phase>>
  PROVE  SlotInv'
<1>1. /\ ClusterInv /\ ManagerIInv /\ work[k].pc # "idle" /\ phase = "up" /\ k \in Workers
      /\ Owner(k) \in Owners /\ Workers = Keys
  BY Callable, WatcherAssumption DEF WatcherInv, At
<1>2. /\ ManagerIInv' /\ Batches(k) /\ leases'[k] \in Lease
      /\ work'[k].pc = "batch" /\ work'[k].gone = {}
      /\ work'[k].todo \subseteq leases'[k].cands
      /\ work'[k].attempts = leases'[k].attempts
  BY AcquireStarts DEF Proper
<1>3. /\ Stays(mgr, mgr', Leaving(k))
      /\ leases[k] = NoLease /\ leases'[k].owner = Owner(k)
      /\ \A j \in Workers \ {k} : leases'[j] = leases[j]
      /\ \A c \in leases'[k].cands : mgr'.claims[c] = Owner(k)
      /\ \A t \in Tries(mgr', Owner(k)) : t \in leases'[k].attempts
      /\ \A t \in leases'[k].attempts : t \in Tries(mgr', Owner(k)) /\ t[1] \in leases'[k].cands
  BY <1>1, AcquireLeases
<1>4. \A c \in Leaving(k) : ~Startable(c)
  BY <1>1, LeavingMayNotStart
<1>5. ClaimsStay /\ Ages
  BY <1>3, <1>4, StaysClaims, SameRunsAge
<1>6. /\ \A j \in Keys \ {k} : work'[j] = work[j]
      /\ Owner(k)' = Owner(k)
  BY <1>2 DEF Batches, OnlyWorkOf, Owner
<1>7. ASSUME NEW o \in Owners, NEW t \in Tries(mgr', o) PROVE SameRun(t)'
  <2>1. t \in Tries(mgr, o)
    BY <1>3, <1>7 DEF Stays
  <2> QED
    BY <2>1 DEF SlotInv, SameRun
<1>8. ASSUME NEW j \in Keys \ {k} PROVE WorkMatches(j)'
  <2>1. WorkMatches(j) /\ work'[j] = work[j] /\ leases'[j] = leases[j]
    BY <1>1, <1>3, <1>6 DEF SlotInv
  <2>2. InBatch(j) => Owner(j) \in Owners
    BY <2>1, BatchIsLeased
  <2> QED
    BY <1>5, <2>1, <2>2, WorkerKept DEF ClaimsStay
<1>9. WorkMatches(k)'
  <2>1. InBatch(k)' /\ leases'[k] # NoLease /\ leases'[k] # Stale
    BY <1>2, LeaseIsSome DEF InBatch
  <2>2. \A t \in work'[k].attempts : SameRun(t)' /\ t[1] \in leases'[k].cands
    BY <1>1, <1>2, <1>3, <1>7
  <2> QED
    BY <1>2, <1>3, <1>6, <2>1, <2>2 DEF WorkMatches
<1>10. ASSUME NEW c \in Keys, Engaged(c)'
       PROVE  /\ Holds(mgr', c)
              /\ \A o \in Owners : mgr'.claims[c] = o => Remembered(c, o)'
  <2>1. Engaged(c)
    <3>1. LimitKept /\ \A d \in Keys : d \in Leaving(k) => ~Startable(d)
      BY <1>4 DEF SlotInv, LimitKept
    <3> QED
      BY <1>1, <1>3, <1>5, <1>10, <3>1, EngagedBefore DEF Stays, Engaged
  <2>2. c \notin Leaving(k)
    BY <1>1, <1>4, <2>1, EngagedMayStart
  <2>3. Holds(mgr, c) /\ \A o \in Owners : mgr.claims[c] = o => Remembered(c, o)
    BY <1>1, <2>1 DEF SlotInv, EngagedHolds
  <2>4. Holds(mgr', c) /\ mgr'.claims[c] = mgr.claims[c]
    BY <1>3, <2>2, <2>3 DEF Stays
  <2>5. ASSUME NEW o \in Owners, mgr'.claims[c] = o PROVE Remembered(c, o)'
    <3>1. Remembered(c, o)
      BY <2>3, <2>4, <2>5
    <3>2. \A t \in Tries(mgr, o) : t[1] = c => t \in Tries(mgr', o)
      BY <1>3, <2>2 DEF Stays
    <3>3. CASE o # Owner(k)
      <4>1. ~Working(leases, k)
        BY <1>3 DEF Working
      <4> QED
        BY <1>1, <1>2, <1>3, <1>6, <3>1, <3>2, <3>3, <4>1, RememberedElsewhere
    <3>4. CASE o = Owner(k)
      <4>1. ~Busy(mgr, o)
        BY <3>4 DEF AcquireWork, Admissible, BeingProcessed, Busy
      <4>2. PICK t \in Tries(mgr, o) : t[1] = c
        BY <3>1, <4>1 DEF Remembered, Tried
      <4>3. t \in Tries(mgr', o) /\ t \in work'[k].attempts
        BY <1>2, <1>3, <3>2, <3>4, <4>2
      <4>4. InBatch(k)' /\ Owner(k)' = o
        BY <1>2, <1>6, <3>4 DEF InBatch
      <4> QED
        BY <4>2, <4>3, <4>4 DEF Remembered, Tried
    <3> QED
      BY <3>3, <3>4
  <2> QED
    BY <2>4, <2>5
<1>11. repository' # NoRepository /\ RebuildInv'
  BY <1>1 DEF SlotInv, RebuildInv
<1> QED
  BY <1>7, <1>8, <1>9, <1>10, <1>11 DEF SlotInv, EngagedHolds

----------------------------------------------------------------------------
(* The end of a batch, with what the manager records of it.                *)
LiveOf(k) == {c \in leases[k].cands : mgr.claims[c] = Owner(k)}

LEMMA FinishRecords ==
  ASSUME WatcherInv, NEW k \in Keys, WorkMatches(k), FinishBatch(k)
  PROVE  /\ InBatch(k) /\ mgr.queue # NoQueue /\ ManagerIInv'
         /\ mgr'.queue # NoQueue /\ ~Busy(mgr', Owner(k))
         /\ leases'[k] = NoLease /\ \A j \in Workers \ {k} : leases'[j] = leases[j]
         /\ Leaves(mgr, mgr', Owner(k), LiveOf(k), work[k].started, work[k].gone,
                   work[k].attempts)
         /\ \A p \in Owners : GaveUp(mgr', p) => GaveUp(mgr, p)
<1> DEFINE o == Owner(k)
           live == LiveOf(k)
           succeeded == work[k].started
           gone == work[k].gone
           attempts == work[k].attempts
<1>1. InBatch(k) /\ ManagerIInv /\ ManagerIInv'
  BY FinishBatchStep DEF FinishBatch, At, InBatch, WatcherInv, Orderly, Proper
<1>2. /\ k \in Workers /\ Working(leases, k) /\ leases[k].owner = o /\ o \in Owners
      /\ Busy(mgr, o) /\ leases[k].cands \in SUBSET Keys
      /\ attempts \in SUBSET (Keys \X UIDs)
  BY <1>1, BatchIsLeased
<1>3. FinishAdmission(k, succeeded, gone, attempts)
  BY <1>2 DEF FinishBatch, FinishStaleAdmission, Working
<1>4. /\ mgr' = recorded(mgr, o, live, succeeded, gone, attempts)
      /\ leases' = [StillCurrent(mgr', leases) EXCEPT ![k] = NoLease]
  BY <1>2, <1>3 DEF FinishAdmission, LiveOf
<1>5. live \in SUBSET Keys /\ \A c \in live : mgr.claims[c] = o /\ c \in mgr.queue.running
  BY <1>1, <1>2 DEF LiveOf, ManagerIInv, LeasesMatch, Holds
<1>6. Consistent(mgr) /\ mgr.admissions[o] # NoAdmission /\ mgr.queue # NoQueue
  BY <1>1, <1>2 DEF Busy, ManagerIInv, Consistent, SlotsMatch
<1> DEFINE n == recorded(mgr, o, live, succeeded, gone, attempts)
<1> HIDE DEF o, live, succeeded, gone, attempts
<1>7. n.queue # NoQueue /\ ~Busy(n, o) /\ \A p \in Owners \ {o} : Spared(mgr, n, p)
  BY <1>2, <1>5, <1>6, RecordedOK
<1>8. Leaves(mgr, n, o, live, succeeded, gone, attempts)
  BY <1>2, <1>5, <1>6, RecordedLeaves
<1>9. \A p \in Owners : GaveUp(n, p) => GaveUp(mgr, p)
  BY <1>2, <1>6, RecordedGivesNoneUp
<1> HIDE DEF n
<1>12. mgr' = n
  BY <1>4 DEF n
<1>13. /\ leases \in [Workers -> Lease \cup {NoLease, Stale}]
       /\ \A v, w \in Workers :
            Working(leases, v) /\ Working(leases, w) /\ leases[v].owner = leases[w].owner => v = w
       /\ \A w \in Workers : Working(leases, w) => Busy(mgr, leases[w].owner)
  BY <1>1 DEF ManagerIInv, LeasesMatch
<1>14. ASSUME NEW j \in Workers \ {k}, Working(leases, j)
       PROVE  mgr'.admissions[leases[j].owner] # NoAdmission
  <2>1. leases[j].owner \in Owners
    BY <1>1, <1>14, WorkingIsLease DEF ManagerIInv
  <2>2. leases[j].owner # o /\ Busy(mgr, leases[j].owner)
    BY <1>2, <1>13, <1>14
  <2>3. Busy(mgr', leases[j].owner)
    BY <1>7, <1>12, <2>1, <2>2 DEF Spared
  <2> QED
    BY <2>3 DEF Busy
<1>15. leases'[k] = NoLease /\ \A j \in Workers \ {k} : leases'[j] = leases[j]
  BY <1>2, <1>4, <1>13, <1>14 DEF StillCurrent, Working
<1> QED
  BY <1>1, <1>6, <1>7, <1>8, <1>9, <1>12, <1>15
     DEF o, live, succeeded, gone, attempts

LEMMA FinishBatchSlots ==
  ASSUME WatcherInv, SlotInv, NEW k \in Keys, FinishBatch(k)
  PROVE  SlotInv'
<1> DEFINE o == Owner(k)
           live == LiveOf(k)
           unsent == Unsent(mgr, live, work[k].started, work[k].gone, work[k].attempts)
<1>1. /\ WorkMatches(k) /\ phase = "up" /\ UNCHANGED <<runs, inFlight, repository, phase>>
      /\ ClusterInv /\ ManagerIInv /\ Workers = Keys
  BY WatcherAssumption DEF SlotInv, FinishBatch, At, WatcherInv
<1>2. /\ InBatch(k) /\ mgr.queue # NoQueue /\ ManagerIInv'
      /\ mgr'.queue # NoQueue /\ ~Busy(mgr', o)
      /\ leases'[k] = NoLease /\ \A j \in Workers \ {k} : leases'[j] = leases[j]
  BY <1>1, FinishRecords
<1>3. /\ mgr'.queue.running = (mgr.queue.running \ unsent) \ (live \cap work[k].gone)
      /\ \A c \in Keys : mgr'.claims[c] = IF c \in live \cap (work[k].started \cup work[k].gone)
                                          THEN NoOwner ELSE mgr.claims[c]
      /\ \A t \in Tries(mgr', o) : t \in Tries(mgr, o) \/ t \in work[k].attempts
      /\ mgr'.admissions[o] # NoAdmission =>
           \A t \in work[k].attempts :
             t[1] \in live \ (work[k].started \cup work[k].gone) => t \in Tries(mgr', o)
      /\ \A p \in Owners \ {o} : Tries(mgr', p) = Tries(mgr, p)
      /\ KeepsPlaces(mgr.queue, mgr'.queue, live \cap work[k].gone)
  <2>1. Leaves(mgr, mgr', o, live, work[k].started, work[k].gone, work[k].attempts)
    BY <1>1, FinishRecords
  <2> HIDE DEF o, live
  <2> QED
    BY <2>1 DEF Leaves
<1>4. /\ o \in Owners /\ Busy(mgr, o) /\ leases[k].owner = o
      /\ leases[k].cands \in SUBSET Keys
  BY <1>1, <1>2, BatchIsLeased
<1>5. /\ MovesOn(k) /\ \A j \in Keys \ {k} : work'[j] = work[j]
      /\ ~InBatch(k)' /\ work'[k].attempts \subseteq work[k].attempts
      /\ work'[k].gone \subseteq work[k].gone
  BY <1>1, FinishBatchMovesOn DEF MovesOn, OnlyWorkOf, Outside, InBatch
<1>6. Ages
  BY <1>1, SameRunsAge
<1>7. ASSUME NEW p \in Owners, NEW t \in Tries(mgr', p) PROVE SameRun(t)'
  <2>1. t \in Tries(mgr, p) \/ t \in work[k].attempts
    BY <1>3, <1>7
  <2> QED
    BY <1>1, <2>1 DEF SlotInv, WorkMatches, SameRun
<1>8. ASSUME NEW j \in Keys \ {k} PROVE WorkMatches(j)'
  <2>1. WorkMatches(j) /\ work'[j] = work[j] /\ leases'[j] = leases[j]
    BY <1>1, <1>2, <1>5 DEF SlotInv
  <2>2. Owner(j) # o
    BY OwnerOfOne
  <2>3. \A c \in Keys : mgr.claims[c] = Owner(j) => mgr'.claims[c] = Owner(j)
    BY <1>3, <2>2 DEF LiveOf
  <2> QED
    BY <1>6, <2>1, <2>3, WorkerKept
<1>9. WorkMatches(k)'
  <2>1. \A t \in work'[k].attempts : SameRun(t)'
    BY <1>1, <1>5 DEF WorkMatches, SameRun
  <2>2. \A c \in work'[k].gone : ~Startable(c)'
    BY <1>1, <1>5 DEF WorkMatches, Startable
  <2> QED
    BY <1>2, <1>5, <2>1, <2>2, LeaseIsSome DEF WorkMatches
<1>10. ASSUME NEW c \in Keys, Engaged(c)'
       PROVE  /\ Holds(mgr', c)
              /\ \A p \in Owners : mgr'.claims[c] = p => Remembered(c, p)'
  <2>1. Engaged(c)
    <3>1. LimitKept /\ \A d \in Keys : d \in live \cap work[k].gone => ~Startable(d)
      BY <1>1 DEF SlotInv, LimitKept, WorkMatches
    <3>2. InLine(mgr, mgr', live \cap work[k].gone)
      BY <1>2, <1>3 DEF InLine
    <3> HIDE DEF live
    <3> QED
      BY <1>1, <1>6, <1>10, <3>1, <3>2, EngagedBefore DEF Engaged
  <2>2. c \notin work[k].gone
    BY <1>1, <2>1, EngagedMayStart DEF WorkMatches
  <2>3. Holds(mgr, c) /\ \A p \in Owners : mgr.claims[c] = p => Remembered(c, p)
    BY <1>1, <2>1 DEF SlotInv, EngagedHolds
  <2>4. ASSUME mgr.claims[c] = o PROVE \E t \in work[k].attempts : t[1] = c /\ c \in live
    <3>1. PICK j \in Keys : InBatch(j) /\ Owner(j) = o /\ Tried(work[j].attempts, c)
      BY <1>4, <2>3, <2>4 DEF Remembered
    <3>2. PICK t \in work[k].attempts : t[1] = c
      BY <3>1, OwnerOfOne DEF Tried
    <3>3. c \in leases[k].cands
      BY <1>1, <1>2, <3>2 DEF WorkMatches
    <3> QED
      BY <2>4, <3>2, <3>3 DEF LiveOf
  <2>5. c \notin unsent
    BY <2>4 DEF Unsent, LiveOf
  <2>6. Holds(mgr', c)
    BY <1>2, <1>3, <2>2, <2>3, <2>5 DEF Holds
  <2>7. ASSUME NEW p \in Owners, mgr'.claims[c] = p PROVE Remembered(c, p)'
    <3>1. mgr.claims[c] = p /\ c \notin live \cap (work[k].started \cup work[k].gone)
      BY <1>3, <2>7, OwnersAreSome
    <3>2. Remembered(c, p)
      BY <2>3, <3>1
    <3>3. CASE p # o
      <4>1. Tries(mgr', p) = Tries(mgr, p) /\ ~Working(leases', k)
        BY <1>2, <1>3, <3>3 DEF Working
      <4> QED
        BY <1>1, <1>2, <1>4, <1>5, <3>2, <3>3, <4>1, RememberedElsewhere
    <3>4. CASE p = o
      <4>1. PICK t \in work[k].attempts : t[1] = c /\ c \in live
        BY <2>4, <3>1, <3>4
      <4>2. mgr'.admissions[o] # NoAdmission
        BY <1>2, <1>4, <2>7, <3>4 DEF ManagerIInv, Consistent, ClaimsMatch
      <4>3. t \in Tries(mgr', o)
        BY <1>3, <3>1, <4>1, <4>2
      <4> QED
        BY <1>2, <3>4, <4>1, <4>3 DEF Remembered, Tried
    <3> QED
      BY <3>3, <3>4
  <2> QED
    BY <2>6, <2>7
<1>11. repository' # NoRepository /\ RebuildInv'
  BY <1>1 DEF SlotInv, RebuildInv
<1> QED
  BY <1>7, <1>8, <1>9, <1>10, <1>11 DEF SlotInv, EngagedHolds

----------------------------------------------------------------------------
(* The steps of a batch: the worker learns of its candidates, and a start  *)
(* is only sent for one that is claimed for it.                            *)
LEMMA CandidateSlots ==
  ASSUME WatcherInv, SlotInv, NEW k \in Keys, UNCHANGED managerVars,
         InBatch(k), Batches(k), Ages,
         work'[k].todo \subseteq work[k].todo, work[k].attempts \subseteq work'[k].attempts,
         \A t \in work'[k].attempts :
           t \in work[k].attempts \/ (t[1] \in leases[k].cands /\ SameRun(t)'),
         \A c \in work'[k].gone : c \in work[k].gone \/ ~Startable(c)',
         work'[k].pc # "batch" => /\ work'[k].trying \in leases[k].cands
                                  /\ Tried(work'[k].attempts, work'[k].trying),
         \A c \in Keys : Engaged(c)' =>
           \/ Engaged(c)
           \/ c \in leases[k].cands /\ Startable(c) /\ Tried(work'[k].attempts, c),
         UNCHANGED <<repository, phase>>
  PROVE  SlotInv'
<1>1. /\ WorkMatches(k) /\ mgr' = mgr /\ leases' = leases /\ ManagerIInv /\ ClusterInv
      /\ Workers = Keys
  BY WatcherAssumption DEF SlotInv, managerVars, WatcherInv
<1>2. /\ Owner(k) \in Owners /\ Busy(mgr, Owner(k)) /\ leases[k].owner = Owner(k)
      /\ Working(leases, k) /\ leases[k].cands \in SUBSET Keys
      /\ work[k].attempts \in SUBSET (Keys \X UIDs)
  BY <1>1, BatchIsLeased
<1>3. /\ InBatch(k)' /\ Owner(k)' = Owner(k)
      /\ \A j \in Keys \ {k} : work'[j] = work[j]
  BY DEF Batches, OnlyWorkOf, InBatch, Owner
<1>4. ASSUME NEW o \in Owners, NEW t \in Tries(mgr', o) PROVE SameRun(t)'
  <2>1. t \in Tries(mgr, o) /\ t \in Keys \X UIDs
    BY <1>1, <1>4, TriesAreAttempts DEF ManagerIInv
  <2> QED
    BY <2>1, SameRunStays DEF SlotInv
<1>5. ASSUME NEW j \in Keys \ {k} PROVE WorkMatches(j)'
  <2>1. WorkMatches(j) /\ work'[j] = work[j] /\ leases'[j] = leases[j] /\ mgr' = mgr
    BY <1>1, <1>3 DEF SlotInv
  <2> QED
    BY <2>1, WorkerKept
<1>6. WorkMatches(k)'
  <2>1. \A t \in work'[k].attempts : SameRun(t)' /\ t[1] \in leases[k].cands
    <3> SUFFICES ASSUME NEW t \in work'[k].attempts
                 PROVE  SameRun(t)' /\ t[1] \in leases[k].cands
      OBVIOUS
    <3>1. CASE t \in work[k].attempts
      <4>1. t \in Keys \X UIDs /\ SameRun(t) /\ t[1] \in leases[k].cands
        BY <1>1, <1>2, <3>1 DEF WorkMatches
      <4> QED
        BY <4>1, SameRunStays
    <3> QED
      BY <3>1
  <2>2. \A c \in work'[k].gone : ~Startable(c)'
    <3> SUFFICES ASSUME NEW c \in work[k].gone PROVE ~Startable(c)'
      OBVIOUS
    <3>1. ~Startable(c) /\ c \in Keys
      BY <1>1 DEF WorkMatches, ClusterInv, Work
    <3> QED
      BY <3>1 DEF Ages
  <2>3. \A c \in leases[k].cands : mgr.claims[c] = Owner(k) \/ ~Startable(c)'
    <3> SUFFICES ASSUME NEW c \in leases[k].cands PROVE mgr.claims[c] = Owner(k) \/ ~Startable(c)'
      OBVIOUS
    <3>1. c \in Keys /\ (mgr.claims[c] = Owner(k) \/ ~Startable(c))
      BY <1>1, <1>2 DEF WorkMatches
    <3> QED
      BY <3>1 DEF Ages
  <2>4. leases[k] # NoLease /\ leases[k] # Stale
    BY <1>2 DEF Working
  <2>5. work'[k].todo \subseteq leases[k].cands
    BY <1>1 DEF WorkMatches
  <2> QED
    BY <1>1, <1>2, <1>3, <2>1, <2>2, <2>3, <2>4, <2>5 DEF WorkMatches, Tried
<1>7. ASSUME phase = "up", NEW c \in Keys, Engaged(c)'
      PROVE  /\ Holds(mgr, c)
             /\ \A o \in Owners : mgr.claims[c] = o => Remembered(c, o)'
  <2>1. CASE Engaged(c)
    <3>1. Holds(mgr, c) /\ \A o \in Owners : mgr.claims[c] = o => Remembered(c, o)
      BY <1>7, <2>1 DEF SlotInv, EngagedHolds
    <3>2. ASSUME NEW o \in Owners, Remembered(c, o) PROVE Remembered(c, o)'
      <4>1. CASE Busy(mgr, o)
        <5>1. PICK j \in Keys : InBatch(j) /\ Owner(j) = o /\ Tried(work[j].attempts, c)
          BY <3>2, <4>1 DEF Remembered
        <5>2. InBatch(j)' /\ Owner(j)' = o /\ Tried(work'[j].attempts, c)
          <6>1. CASE j = k
            BY <1>3, <5>1, <6>1 DEF Tried
          <6>2. CASE j # k
            BY <1>3, <5>1, <6>2 DEF InBatch, Owner, Tried
          <6> QED
            BY <6>1, <6>2
        <5> QED
          BY <1>1, <4>1, <5>2 DEF Remembered, Tried
      <4>2. CASE ~Busy(mgr, o)
        BY <1>1, <3>2, <4>2 DEF Remembered, Tried
      <4> QED
        BY <4>1, <4>2
    <3> QED
      BY <3>1, <3>2
  <2>2. CASE c \in leases[k].cands /\ Startable(c) /\ Tried(work'[k].attempts, c)
    <3>1. mgr.claims[c] = Owner(k)
      BY <1>1, <2>2 DEF WorkMatches
    <3>2. Holds(mgr, c)
      BY <1>1, <1>2, <2>2, <3>1 DEF ManagerIInv, LeasesMatch
    <3>3. Remembered(c, Owner(k))'
      BY <1>1, <1>2, <1>3, <2>2 DEF Remembered, Tried
    <3>4. \A o \in Owners : mgr.claims[c] = o => o = Owner(k)
      BY <3>1
    <3> QED
      BY <1>1, <1>3, <3>2, <3>3, <3>4 DEF Remembered
  <2> QED
    BY <1>7, <2>1, <2>2
<1>8. phase' = "up" => EngagedHolds'
  BY <1>1, <1>7 DEF EngagedHolds
<1>9. repository' # NoRepository /\ RebuildInv'
  <2>1. LimitKept /\ (phase = "queued" => inFlight = {})
    BY <1>1 DEF SlotInv, LimitKept, ClusterInv
  <2> QED
    BY <1>1, <2>1, RebuildKept DEF SlotInv, LimitKept
<1> QED
  BY <1>4, <1>5, <1>6, <1>8, <1>9 DEF SlotInv

LEMMA UnmanagedEngaged ==
  ASSUME WatcherInv, SlotInv, Ages, UNCHANGED managerVars, UNCHANGED repository
  PROVE  \A d \in Keys : Engaged(d)' => Engaged(d) \/ d \in inFlight'
<1>1. Stays(mgr, mgr', {})
  BY StaysReflexive DEF managerVars
<1>2. LimitKept
  BY DEF SlotInv, LimitKept
<1> QED
  BY <1>1, <1>2, EngagedBefore DEF WatcherInv, Stays

(* A candidate that is over is gone only when it may not start.            *)
LEMMA EndSlots ==
  ASSUME WatcherInv, SlotInv, NEW k \in Keys, UNCHANGED managerVars, InBatch(k), Ages,
         NEW c \in Keys, NEW outcome, Ends(k, c, outcome),
         outcome = "gone" => ~Startable(c),
         inFlight' \subseteq inFlight, UNCHANGED <<repository, phase>>
  PROVE  SlotInv'
<1>1. /\ Batches(k) /\ work'[k].pc = "batch" /\ work'[k].attempts = work[k].attempts
      /\ work'[k].todo \subseteq work[k].todo
      /\ \A d \in work'[k].gone : d \in work[k].gone \/ (d = c /\ outcome = "gone")
  BY DEF Ends
<1>2. \A d \in work'[k].gone : d \in work[k].gone \/ ~Startable(d)'
  BY <1>1 DEF Ages
<1>3. \A d \in Keys : Engaged(d)' => Engaged(d)
  BY UnmanagedEngaged DEF Engaged
<1> QED
  BY <1>1, <1>2, <1>3, CandidateSlots

LEMMA StartCandidateSlots ==
  ASSUME WatcherInv, SlotInv, NEW k \in Keys, NEW c \in Keys, StartCandidate(k, c)
  PROVE  SlotInv'
<1>1. /\ ClusterInv /\ InBatch(k) /\ WorkMatches(k) /\ c \in work[k].todo
      /\ UNCHANGED managerVars /\ UNCHANGED <<runs, repository, phase>>
  BY DEF WatcherInv, StartCandidate, At, InBatch, SlotInv
<1>2. Ages
  BY <1>1, SameRunsAge
<1>3. CASE \/ runs[c] = NoRun \/ noLongerStartable(runs[c])
           \/ \E a \in Attempted(k, c) : a[2] # runs[c].uid
  <2>1. /\ work' = [work EXCEPT ![k] = result(k, c, "gone", FALSE)]
        /\ inFlight' = inFlight
    BY <1>3 DEF StartCandidate
  <2>2. Ends(k, c, "gone")
    BY <1>1, <2>1, ResultBatches
  <2>3. \A a \in Attempted(k, c) : a[1] = c /\ SameRun(a)
    BY <1>1 DEF Attempted, WorkMatches
  <2>4. ~Startable(c)
    BY <1>3, <2>3 DEF SameRun, Startable
  <2> QED
    BY <1>1, <1>2, <2>1, <2>2, <2>4, EndSlots
<1>4. CASE /\ runs[c] # NoRun /\ ~noLongerStartable(runs[c])
           /\ \A a \in Attempted(k, c) : a[2] = runs[c].uid
  <2> DEFINE t == <<c, runs[c].uid>>
             w == work[k]
             attempts == w.attempts \cup {t}
             x == [[w EXCEPT !.attempts = attempts] EXCEPT !.pc = "answer", !.trying = c]
  <2>1. work' = [work EXCEPT ![k] = x] /\ inFlight' = inFlight \cup {c}
    BY <1>4 DEF StartCandidate
  <2>2. /\ x.pc = "answer" /\ x.trying = c /\ x.todo = w.todo /\ x.gone = w.gone
        /\ x.attempts = attempts
    BY <1>1 DEF ClusterInv, Work
  <2>3. Batches(k) /\ work \in [Keys -> Work]
    BY <1>1, StartCandidateStep DEF ClusterInv
  <2> HIDE DEF x
  <2>4. work'[k] = x
    BY <2>1, <2>3
  <2>5. c \in leases[k].cands /\ Startable(c)
    BY <1>1, <1>4 DEF WorkMatches, Startable
  <2>6. t \in work'[k].attempts /\ t[1] = c
    BY <2>2, <2>4
  <2>7. /\ work[k].attempts \subseteq work'[k].attempts
        /\ \A a \in work'[k].attempts : a \in work[k].attempts \/ a = t
    BY <2>2, <2>4
  <2>8. \A d \in Keys : Engaged(d)' => Engaged(d) \/ d = c
    BY <1>1, <1>2, <2>1, UnmanagedEngaged DEF Engaged
  <2>9. Tried(work'[k].attempts, c)
    BY <2>6 DEF Tried
  <2>10. \A a \in work'[k].attempts :
           a \in work[k].attempts \/ (a[1] \in leases[k].cands /\ SameRun(a)')
    BY <1>1, <2>5, <2>6, <2>7 DEF SameRun
  <2> HIDE DEF t
  <2>11. \A d \in Keys : Engaged(d)' =>
           Engaged(d) \/ (d \in leases[k].cands /\ Startable(d) /\ Tried(work'[k].attempts, d))
    BY <2>5, <2>8, <2>9
  <2>12. /\ work'[k].todo \subseteq work[k].todo /\ work'[k].trying = c
         /\ \A d \in work'[k].gone : d \in work[k].gone
    BY <2>2, <2>4
  <2>13. /\ work[k].attempts \subseteq work'[k].attempts
         /\ work'[k].trying \in leases[k].cands /\ Tried(work'[k].attempts, work'[k].trying)
    BY <2>5, <2>7, <2>9, <2>12
  <2>14. UNCHANGED <<repository, phase>>
    BY <1>1
  <2> HIDE DEF w, attempts
  <2> QED
    BY <1>1, <1>2, <2>3, <2>11, <2>12, <2>10, <2>13, <2>14, CandidateSlots
<1> QED
  BY <1>3, <1>4

LEMMA CandidateUnreadSlots ==
  ASSUME WatcherInv, SlotInv, NEW k \in Keys, NEW c \in Keys, CandidateUnread(k, c)
  PROVE  SlotInv'
<1>1. /\ ClusterInv /\ InBatch(k) /\ UNCHANGED managerVars
      /\ UNCHANGED <<runs, inFlight, repository, phase>>
      /\ work' = [work EXCEPT ![k] = result(k, c, "retry", TRUE)]
  BY DEF WatcherInv, CandidateUnread, At, InBatch
<1>2. Ends(k, c, "retry") /\ Ages
  BY <1>1, ResultBatches, SameRunsAge
<1> QED
  BY <1>1, <1>2, EndSlots

LEMMA StartAnsweredSlots ==
  ASSUME WatcherInv, SlotInv, NEW k \in Keys, StartAnswered(k)
  PROVE  SlotInv'
<1> DEFINE c == work[k].trying
<1>1. /\ ClusterInv /\ InBatch(k) /\ UNCHANGED managerVars /\ UNCHANGED <<repository, phase>>
      /\ c \in inFlight /\ startWrite(c) /\ confirmed(k, c)
  BY DEF WatcherInv, StartAnswered, At, InBatch
<1>2. c \in Keys /\ inFlight' \subseteq inFlight
  BY <1>1 DEF ClusterInv, startWrite, write
<1> HIDE DEF c
<1>3. Ends(k, c, "started") /\ Ages
  BY <1>1, <1>2, ConfirmedBatches, StartWriteAges
<1> QED
  BY <1>1, <1>2, <1>3, EndSlots

LEMMA StartUnansweredSlots ==
  ASSUME WatcherInv, SlotInv, NEW k \in Keys, StartUnanswered(k)
  PROVE  SlotInv'
<1> DEFINE x == [work[k] EXCEPT !.pc = "readback"]
<1>1. /\ ClusterInv /\ InBatch(k) /\ work[k].pc = "answer" /\ WorkMatches(k)
      /\ UNCHANGED managerVars /\ UNCHANGED <<runs, inFlight, repository, phase>>
      /\ work' = [work EXCEPT ![k] = x]
  BY DEF WatcherInv, StartUnanswered, At, InBatch, SlotInv
<1>2. Batches(k) /\ Ages /\ work \in [Keys -> Work]
  BY <1>1, StartUnansweredStep, SameRunsAge DEF ClusterInv
<1>3. /\ x.pc = "readback" /\ x.trying = work[k].trying /\ x.todo = work[k].todo
      /\ x.gone = work[k].gone /\ x.attempts = work[k].attempts
  BY <1>2 DEF Work
<1> HIDE DEF x
<1>4. work'[k] = x
  BY <1>1, <1>2
<1>5. work[k].trying \in leases[k].cands /\ Tried(work[k].attempts, work[k].trying)
  BY <1>1 DEF WorkMatches
<1>6. \A d \in Keys : Engaged(d)' => Engaged(d)
  BY <1>1, <1>2, UnmanagedEngaged DEF Engaged
<1> QED
  BY <1>1, <1>2, <1>3, <1>4, <1>5, <1>6, CandidateSlots

LEMMA ReadbackSlots ==
  ASSUME WatcherInv, SlotInv, NEW k \in Keys, Readback(k)
  PROVE  SlotInv'
<1> DEFINE c == work[k].trying
           sentTo == (CHOOSE a \in Attempted(k, c) : TRUE)[2]
           gone == IF runs[c] = NoRun THEN TRUE
                   ELSE runs[c].uid # sentTo \/ noLongerStartable(runs[c])
<1>1. /\ ClusterInv /\ InBatch(k) /\ WorkMatches(k) /\ work[k].pc = "readback"
      /\ UNCHANGED managerVars /\ UNCHANGED <<runs, inFlight, repository, phase>>
      /\ \/ gone /\ work' = [work EXCEPT ![k] = result(k, c, "gone", FALSE)]
         \/ confirmed(k, c)
         \/ work' = [work EXCEPT ![k] = result(k, c, "retry", TRUE)]
  BY DEF WatcherInv, Readback, At, InBatch, SlotInv
<1>2. c \in Keys /\ Tried(work[k].attempts, c)
  BY <1>1, BatchIsLeased DEF WorkMatches
<1>3. \A a \in Attempted(k, c) : a[1] = c /\ SameRun(a)
  BY <1>1 DEF Attempted, WorkMatches
<1>4. (CHOOSE a \in Attempted(k, c) : TRUE) \in Attempted(k, c)
  BY <1>2 DEF Attempted, Tried
<1>5. gone => ~Startable(c)
  BY <1>3, <1>4 DEF SameRun, Startable
<1> HIDE DEF c, gone
<1>6. \E outcome : Ends(k, c, outcome) /\ (outcome = "gone" => gone)
  <2>1. CASE gone /\ work' = [work EXCEPT ![k] = result(k, c, "gone", FALSE)]
    BY <1>1, <1>2, <2>1, ResultBatches
  <2>2. CASE confirmed(k, c)
    BY <1>1, <1>2, <2>2, ConfirmedBatches
  <2>3. CASE work' = [work EXCEPT ![k] = result(k, c, "retry", TRUE)]
    <3>1. Ends(k, c, "retry")
      BY <1>1, <1>2, <2>3, ResultBatches
    <3> QED
      BY <3>1
  <2> QED
    BY <1>1, <2>1, <2>2, <2>3
<1>7. Ages
  BY <1>1, SameRunsAge
<1> QED
  BY <1>1, <1>2, <1>5, <1>6, <1>7, EndSlots

----------------------------------------------------------------------------
(* A new process knows of no attempt, and when it is up none is            *)
(* outstanding.                                                            *)
LEMMA CrashSlots ==
  ASSUME WatcherInv, SlotInv, Crash
  PROVE  SlotInv'
<1>1. /\ Restarts /\ mgr' = NewManager /\ leases' = [w \in Workers |-> NoLease]
      /\ work' = [k \in Keys |-> Idle] /\ phase' = "started" /\ repository' = repository
  BY DEF Crash, Restart, Restarts
<1>2. ASSUME NEW k \in Keys PROVE WorkMatches(k)'
  <2>1. work'[k] = Idle /\ leases'[k] = NoLease
    BY <1>1, WatcherAssumption
  <2> QED
    BY <2>1, IdleIsWork, LeaseIsSome DEF WorkMatches, InBatch
<1>3. \A o \in Owners : Tries(mgr', o) = {}
  BY <1>1, NewManagerOK DEF Tries
<1>4. repository' # NoRepository
  BY <1>1 DEF SlotInv
<1>5. phase' # "up"
  BY <1>1
<1>6. RebuildInv'
  BY <1>1, NewManagerOK DEF RebuildInv
<1> QED
  BY <1>1, <1>2, <1>3, <1>4, <1>5, <1>6 DEF SlotInv

LEMMA ListingKeepsAdmissions ==
  ASSUME ManagerIInv, NEW list, NEW limit,
         AddListToRunningQueue(list, limit) \/ AddToPendingQueue(list, limit)
  PROVE  mgr'.admissions = mgr.admissions
<1> DEFINE l == getSemaphore(mgr, limit)
           m == listed(l, list)
           n == acquireUnowned(m, limit)
<1>1. mgr = [queue |-> mgr.queue, admissions |-> mgr.admissions, claims |-> mgr.claims]
  BY DEF ManagerIInv, Consistent, Typed
<1>2. l = [queue |-> l.queue, admissions |-> mgr.admissions, claims |-> mgr.claims]
  BY <1>1 DEF getSemaphore
<1> HIDE DEF l
<1>3. m = [queue |-> m.queue, admissions |-> mgr.admissions, claims |-> mgr.claims]
  BY <1>2 DEF listed
<1>4. n = [queue |-> n.queue, admissions |-> mgr.admissions, claims |-> mgr.claims]
  <2> HIDE DEF m
  <2> QED
    BY <1>3 DEF acquireUnowned
<1>5. mgr' = m \/ mgr' = n
  BY DEF AddListToRunningQueue, AddToPendingQueue, l
<1> HIDE DEF m, n
<1> QED
  BY <1>3, <1>4, <1>5

(* The queue InitQueues makes of the started runs has all of them, and      *)
(* gives no other run a slot.                                              *)
LEMMA RebuiltQueue ==
  ASSUME NEW set \in SUBSET Keys, NEW list \in Seq(set), NEW limit \in Nat
  PROVE  LET n == acquireUnowned(listed(getSemaphore(NewManager, limit), list), limit)
         IN  /\ \A k \in Keys : Queued(n, k) => k \in set
             /\ \A i \in DOMAIN list : Queued(n, list[i])
             /\ n.queue.limit = limit
             /\ limit # 0 => Cardinality(n.queue.running) <= limit
<1> DEFINE q0 == newSemaphore(limit)
           q1 == addToQueue(q0, list)
           m == listed(getSemaphore(NewManager, limit), list)
           q2 == acquireBatch(q1, Unclaimed(m), limit)
           batch == Batch(q1, Unclaimed(m), limit)
           n == acquireUnowned(m, limit)
<1>1. IsFiniteSet(set) /\ list \in Seq(Keys)
  BY AdmissionsAssumption, FS_Subset
<1>2. /\ WellFormed(q0, set) /\ WellFormed(q0, Keys) /\ PermitsMatch(q0)
      /\ Tracked(q0) = {} /\ q0.running = {} /\ q0.limit = limit /\ q0.pending = {}
  BY NewSemaphoreOK DEF newSemaphore, Tracked
<1>3. \A i \in DOMAIN list : list[i] \in q1.pending
  <2> DEFINE new == {list[i] : i \in DOMAIN list} \ Tracked(q0)
             First(a, b) == \E i \in DOMAIN list : list[i] = a /\ \A j \in 1..i : list[j] # b
             between == {p \in new \X new : First(p[1], p[2])}
  <2> HIDE DEF q0
  <2>1. q1 = [q0 EXCEPT !.pending = @ \cup new,
                        !.ahead = @ \cup (Tracked(q0) \X new) \cup between]
    BY DEF addToQueue
  <2> HIDE DEF q1, between, First
  <2>2. q1.pending = q0.pending \cup new
    BY <1>2, <2>1 DEF WellFormed, IsSemaphore
  <2> QED
    BY <1>2, <2>2
<1>4. m.queue = q1
  BY DEF getSemaphore, listed, NewManager, q0
<1> HIDE DEF q0
<1>5. /\ WellFormed(q1, set) /\ WellFormed(q1, Keys) /\ PermitsMatch(q1)
      /\ q1.running = {} /\ q1.limit = limit
  BY <1>1, <1>2, AddToQueueOK
<1> HIDE DEF q1
<1>6. n.queue = q2
  BY <1>4 DEF acquireUnowned, listed
<1>7. /\ WellFormed(q2, set) /\ WellFormed(q2, Keys) /\ q2.limit = limit
      /\ q2.running = q1.running \cup batch /\ q2.pending = q1.pending \ batch
      /\ batch # {} /\ limit # 0 => Cardinality(q2.running) <= limit
  <2> DEFINE allowed == Unclaimed(m)
             t == acquireBatch(q1, allowed, limit)
             taken == Batch(q1, allowed, limit)
  <2> HIDE DEF allowed
  <2>1. /\ WellFormed(t, Keys) /\ t.limit = q1.limit
        /\ t.running = q1.running \cup taken /\ t.pending = q1.pending \ taken
        /\ taken # {} /\ q1.limit # 0 => Cardinality(t.running) <= q1.limit
    <3>1. WellFormed(q1, Keys) /\ PermitsMatch(q1) /\ IsFiniteSet(Keys)
      BY <1>5, AdmissionsAssumption
    <3> QED
      BY <3>1, AcquireBatchOK
  <2>2. WellFormed(t, set)
    BY <1>1, <1>5, AcquireBatchOK
  <2>3. t = q2 /\ taken = batch
    BY DEF allowed
  <2> HIDE DEF t, taken, q2, batch
  <2> QED
    BY <1>5, <2>1, <2>2, <2>3
<1> HIDE DEF m, q2, n, batch
<1>8. q2 # NoQueue
  BY <1>7, AdmissionsAssumption DEF WellFormed
<1>9. \A k : k \in Tracked(q2) => k \in set
  BY <1>7, Fields DEF Tracked
<1>10. \A i \in DOMAIN list : list[i] \in Tracked(q2)
  BY <1>3, <1>7 DEF Tracked
<1>11. limit # 0 => Cardinality(q2.running) <= limit
  <2>1. CASE batch = {}
    BY <1>5, <1>7, <2>1, FS_EmptySet
  <2> QED
    BY <1>7, <2>1
<1> QED
  BY <1>6, <1>7, <1>8, <1>9, <1>10, <1>11 DEF Queued, n, m

LEMMA ListedRuns ==
  ASSUME NEW state, NEW specs
  PROVE  InState(state, specs) \in Seq(Keys)
<1> DEFINE set == {k \in Keys : runs[k] # NoRun /\ runs[k].state = state
                                /\ runs[k].spec \in specs}
           list == InState(state, specs)
<1>1. set \in SUBSET Keys /\ list = Filtered(Order, set)
  BY DEF InState
<1> HIDE DEF set, list
<1>2. list \in Lists
  BY <1>1, WatcherAssumption
<1>3. list \in Seq(Keys)
  BY <1>2, QueueManagerAssumption, Zenon
<1> QED
  BY <1>3 DEF list

LEMMA RebuildSlots ==
  ASSUME WatcherInv, SlotInv, RebuildStarted \/ RebuildQueued
  PROVE  SlotInv'
<1>1. /\ ClusterInv /\ ManagerIInv /\ UNCHANGED <<runs, inFlight, work, repository>>
      /\ phase # "up" /\ inFlight = {} /\ phase' \in {"up", "queued"}
  BY DEF WatcherInv, ClusterInv, RebuildStarted, RebuildQueued
<1>2. Restarts /\ RebuildInv
  BY <1>1 DEF SlotInv, RebuildInv
<1>3. leases' = leases /\ mgr'.admissions = mgr.admissions
  BY <1>1, ListingKeepsAdmissions DEF RebuildStarted, RebuildQueued, managerVars,
     AddListToRunningQueue, AddToPendingQueue
<1>4. ASSUME NEW k \in Keys PROVE WorkMatches(k)'
  <2>1. WorkMatches(k) /\ work'[k] = work[k] /\ leases'[k] = leases[k]
    BY <1>1, <1>3 DEF SlotInv
  <2>2. work[k].pc = "idle"
    BY <1>1 DEF ClusterInv
  <2>3. ~InBatch(k)
    BY <2>2 DEF InBatch
  <2>4. \A t \in work'[k].attempts : SameRun(t)'
    BY <1>1, <2>1 DEF WorkMatches, SameRun
  <2>5. \A c \in work'[k].gone : ~Startable(c)'
    BY <1>1, <2>1 DEF WorkMatches, Startable
  <2> QED
    BY <2>1, <2>3, <2>4, <2>5 DEF WorkMatches, InBatch
<1>5. ASSUME NEW o \in Owners, NEW t \in Tries(mgr', o) PROVE SameRun(t)'
  <2>1. t \in Tries(mgr, o)
    BY <1>3, <1>5 DEF Tries
  <2> QED
    BY <1>1, <2>1 DEF SlotInv, SameRun
<1>6. repository \in Nat /\ repository' # NoRepository
  BY <1>1, QueueManagerAssumption DEF SlotInv, ClusterInv
<1>7. phase = "started" => RebuildInv'
  <2> SUFFICES ASSUME phase = "started" PROVE RebuildInv'
    OBVIOUS
  <2> DEFINE specs == {Pending, None, Cancelled}
             set == {j \in Keys : runs[j] # NoRun /\ runs[j].state = StateStarted
                                  /\ runs[j].spec \in specs}
             list == InState(StateStarted, specs)
  <2>1. RebuildStarted /\ mgr = NewManager /\ phase' = "queued"
    BY <1>2 DEF RebuildInv, RebuildStarted, RebuildQueued
  <2>2. list = Filtered(Order, set) /\ set \in SUBSET Keys
    BY DEF InState
  <2>3. \A c \in set : ~Fresh(c)
    BY DEF Fresh, Active, Startable, noLongerStartable
  <2>4. ASSUME NEW c \in Keys, Active(c) PROVE c \in set
    <3>1. runs[c] \in Run
      BY <1>1, <2>4 DEF ClusterInv, Active
    <3>2. runs[c].spec \in specs
      BY <3>1, Zenon DEF Run
    <3> QED
      BY <2>4, <3>2 DEF Active
  <2>5. list \in Seq(set) /\ \A c \in set : \E i \in DOMAIN list : list[i] = c
    BY <2>2, FilterAssumption
  <2> HIDE DEF set, specs
  <2>6. \/ UNCHANGED managerVars /\ (~Initialised \/ list = <<>>)
        \/ mgr' = acquireUnowned(listed(getSemaphore(mgr, repository), list), repository)
    BY <2>1 DEF RebuildStarted, AddListToRunningQueue, specs
  <2> HIDE DEF list
  <2>7. ASSUME NEW c \in Keys, Queued(mgr', c) PROVE c \in set
    <3>1. ~Queued(mgr, c)
      BY <2>1 DEF Queued, NewManager
    <3> QED
      BY <1>6, <2>1, <2>2, <2>5, <2>6, <2>7, <3>1, RebuiltQueue DEF managerVars
  <2>8. ASSUME NEW c \in set, Rebuilds, repository # 0 PROVE Queued(mgr', c)
    <3>1. Initialised /\ list # <<>>
      BY <1>1, <2>5, <2>8 DEF Initialised, Rebuilds, SlotInv
    <3> QED
      BY <1>6, <2>1, <2>2, <2>5, <2>6, <3>1, RebuiltQueue
  <2> QED
    BY <1>1, <1>2, <2>1, <2>3, <2>4, <2>7, <2>8 DEF RebuildInv, Queued, Fresh, Active, Startable
<1>8. CASE phase = "started"
  <2>1. phase' # "up"
    BY <1>8 DEF RebuildStarted, RebuildQueued
  <2> QED
    BY <1>4, <1>5, <1>6, <1>7, <1>8, <2>1 DEF SlotInv
<1>9. CASE phase # "started"
  <2>1. RebuildQueued /\ phase = "queued" /\ phase' = "up"
    BY <1>9 DEF RebuildStarted, RebuildQueued
  <2>2. InLine(mgr, mgr', {})
    <3> DEFINE list == InState(StateQueued, {Pending})
               l == getSemaphore(mgr, repository)
    <3>1. UNCHANGED managerVars \/ mgr' = listed(l, list)
      BY <2>1 DEF RebuildQueued, AddToPendingQueue
    <3>3. list \in Seq(Keys)
      BY ListedRuns
    <3> HIDE DEF list
    <3>4. Consistent(l) /\ l.queue # NoQueue /\ Stays(mgr, l, {})
      BY <1>1, <1>6, GetSemaphoreOK, GetSemaphoreStays DEF ManagerIInv
    <3> HIDE DEF l
    <3>5. mgr' = listed(l, list) => Stays(mgr, mgr', {})
      <4> DEFINE ll == listed(l, list)
      <4>1. Stays(l, ll, {})
        BY <3>3, <3>4, ListedStays
      <4> HIDE DEF ll
      <4>2. Stays(mgr, ll, {})
        BY <3>4, <4>1, StaysComposes
      <4> QED
        BY <4>2 DEF ll
    <3> QED
      BY <3>1, <3>5, StaysReflexive DEF Stays, managerVars
  <2>3. ASSUME NEW c \in Keys, Active(c), Rebuilds, repository # 0 PROVE Prior(c)'
    <3>1. Prior(c)
      BY <1>2, <2>1, <2>3 DEF RebuildInv, Prior
    <3>2. Ages /\ Startable(c)'
      BY <1>1, <2>3, SameRunsAge
         DEF Active, Startable, noLongerStartable, StateStarted, StateCompleted
    <3> QED
      BY <2>2, <2>3, <3>1, <3>2, PriorKept
  <2>4. EngagedHolds'
    BY <1>1, <1>2, <2>3 DEF EngagedHolds, Engaged, Excused, Restarts, Rebuilds, Active
  <2> QED
    BY <1>2, <1>4, <1>5, <1>6, <2>1, <2>4 DEF SlotInv, RebuildInv, Restarts
<1> QED
  BY <1>8, <1>9

----------------------------------------------------------------------------
LEMMA InitSlots == Undisturbed /\ Init => SlotInv
<1> SUFFICES ASSUME Init PROVE SlotInv
  OBVIOUS
<1>1. PICK uid \in UIDs : runs = [k \in Keys |-> newRun(uid)]
  BY DEF Init
<1>2. /\ mgr = NewManager /\ leases = [w \in Workers |-> NoLease]
      /\ work = [k \in Keys |-> Idle] /\ phase = "up" /\ inFlight = {} /\ repository \in Limits
  BY DEF Init, ManagerInit
<1>3. ASSUME NEW k \in Keys PROVE WorkMatches(k)
  <2>1. work[k] = Idle /\ leases[k] = NoLease
    BY <1>2, WatcherAssumption
  <2> QED
    BY <2>1, IdleIsWork, LeaseIsSome DEF WorkMatches, InBatch
<1>4. \A o \in Owners : Tries(mgr, o) = {}
  BY <1>2, NewManagerOK DEF Tries
<1>5. EngagedHolds
  <2>1. \A c \in Keys : runs[c] = newRun(uid)
    BY <1>1
  <2>2. \A c \in Keys : ~Active(c)
    BY <2>1 DEF Active, newRun, StateQueued, StateStarted
  <2> QED
    BY <1>2, <2>2 DEF EngagedHolds, Engaged
<1>6. repository # NoRepository
  BY <1>2, QueueManagerAssumption, WatcherAssumption
<1>7. RebuildInv
  BY <1>2 DEF RebuildInv
<1> QED
  BY <1>2, <1>3, <1>4, <1>5, <1>6, <1>7 DEF SlotInv

LEMMA AcquireSlots ==
  ASSUME WatcherInv, SlotInv, NEW k \in Keys, Acquire(k)
  PROVE  SlotInv'
<1>1. /\ At(k, "acquire") /\ UNCHANGED <<runs, inFlight, repository, phase>>
      /\ ClusterInv /\ work[k].pc # "idle"
  BY DEF Acquire, At, WatcherInv
<1>2. CASE /\ AcquireNothing(Owner(k), work[k].mode, work[k].limit) /\ proceed(k)
  <2>1. MovesOn(k)
    BY <1>1, <1>2, ProceedMovesOn
  <2> QED
    BY <1>1, <1>2, <2>1, AcquireIdlySlots
<1>3. CASE /\ \/ AcquireRefused(Owner(k), work[k].mode, work[k].limit)
              \/ AcquireBlocked(Owner(k), work[k].list, work[k].mode,
                                Finishing(work[k].run), work[k].limit)
           /\ end(k)
  <2>1. MovesOn(k)
    BY <1>1, <1>3, EndMovesOn
  <2> QED
    BY <1>1, <1>3, <2>1, AcquireIdlySlots
<1>4. CASE /\ AcquireWork(k, Owner(k), work[k].list, work[k].mode, Finishing(work[k].run),
                          work[k].limit)
           /\ TakesBatch(k)
  BY <1>1, <1>4, AcquireWorkSlots
<1> QED
  BY <1>2, <1>3, <1>4 DEF Acquire, endWithError, TakesBatch

(* A Repository that stays and names that are not used again leave the     *)
(* other actions disabled.                                                 *)
LEMMA NextSlots ==
  ASSUME Undisturbed, WatcherInv, SlotInv, ChangesBounded, Next
  PROVE  SlotInv'
<1>1. ASSUME NEW k \in Keys, Reconcile(k)
      PROVE  SlotInv'
  <2>1. ASSUME NEW c \in Keys, StartCandidate(k, c)
        PROVE  SlotInv'
    BY <2>1, StartCandidateSlots
  <2>2. ~(BeginWithoutRepository(k) \/ ListWithoutRepository(k) \/ ReportWithoutRepository(k))
    BY DEF SlotInv, BeginWithoutRepository, ListWithoutRepository, ReportWithoutRepository
  <2> QED
    BY <1>1, <2>1, <2>2, BeginSlots, TerminalWriteSlots, ForgetOwnerSlots, AcquireSlots,
       FinishBatchSlots, StartAnsweredSlots, StartUnansweredSlots, ReadbackSlots
       DEF Reconcile
<1>2. ASSUME NEW k \in Keys, Fail(k) \/ TerminalWriteUnanswered(k)
      PROVE  SlotInv'
  BY <1>2, BeginSlots, TerminalWriteSlots
<1>3. ASSUME NEW k \in Keys, NEW c \in Keys, CandidateUnread(k, c)
      PROVE  SlotInv'
  BY <1>3, CandidateUnreadSlots
<1>4. ASSUME NEW c \in Keys, Commit(c) \/ Drop(c) \/ TektonFinishes(c) \/ Cancel(c) \/ Delete(c)
      PROVE  SlotInv'
  BY <1>4, CommitSlots, UserAndTektonSlots
<1>5. ASSUME NEW c \in Keys, NEW uid \in UIDs, Recreate(c, uid)
      PROVE  SlotInv'
  BY <1>5 DEF Undisturbed, Recreate
<1>6. ASSUME NEW l \in Limits \cup Removals, ChangeRepository(l)
      PROVE  SlotInv'
  BY <1>6, ChangeRepositorySlots
<1>7. CASE TakeOver
  BY <1>7 DEF Undisturbed, TakeOver
<1> QED
  BY <1>1, <1>2, <1>3, <1>4, <1>5, <1>6, <1>7, CrashSlots, RebuildSlots DEF Next

LEMMA StutterSlots ==
  ASSUME WatcherInv, SlotInv, UNCHANGED vars
  PROVE  SlotInv'
<1>1. /\ UNCHANGED managerVars
      /\ UNCHANGED <<runs, inFlight, work, phase, repository>>
  BY DEF vars, managerVars
<1>2. Ages /\ inFlight' \subseteq inFlight /\ LimitKept
  BY <1>1, SameRunsAge DEF SlotInv, LimitKept
<1> QED
  BY <1>1, <1>2, SameWorkQuietly, UnmanagedStep

LEMMA ChangesStayBounded ==
  ASSUME ChangesBounded, [Next]_vars
  PROVE  ChangesBounded'
<1>1. ASSUME NEW k \in Keys, Reconcile(k)
      PROVE  changes' = changes
  BY <1>1 DEF Reconcile, Begin, ListRuns, Report, TerminalWrite, ForgetOwner,
     BeginWithoutRepository, ListWithoutRepository, ReportWithoutRepository, Acquire,
     FinishBatch, StartAnswered, StartUnanswered, Readback, StartCandidate, boundVars
<1>2. ASSUME NEW k \in Keys, Fail(k) \/ TerminalWriteUnanswered(k)
                              \/ \E c \in Keys : CandidateUnread(k, c)
      PROVE  changes' = changes
  BY <1>2 DEF Fail, TerminalWriteUnanswered, CandidateUnread
<1>3. ASSUME NEW c \in Keys,
             \/ Commit(c) \/ Drop(c) \/ TektonFinishes(c) \/ Cancel(c) \/ Delete(c)
             \/ \E uid \in UIDs : Recreate(c, uid)
      PROVE  changes' = changes
  BY <1>3 DEF Commit, Drop, TektonFinishes, Cancel, Delete, Recreate, boundVars
<1>4. ASSUME NEW l, ChangeRepository(l)
      PROVE  MaxChanges # 0
  BY <1>4 DEF ChangeRepository, ChangesBounded
<1>5. CASE Crash \/ RebuildStarted \/ RebuildQueued \/ TakeOver \/ UNCHANGED vars
  BY <1>5 DEF Crash, RebuildStarted, RebuildQueued, TakeOver, vars, boundVars, ChangesBounded
<1> QED
  BY <1>1, <1>2, <1>3, <1>4, <1>5 DEF Next, ChangesBounded

SlotsInv == WatcherInv /\ SlotInv /\ ChangesBounded

LEMMA SlotInvariance ==
  ASSUME Undisturbed
  PROVE  Spec => []SlotsInv
<1>1. Init => SlotsInv
  BY InitWatcherInv, InitSlots DEF SlotsInv, ChangesBounded, Init
<1>2. SlotsInv /\ [Next]_vars => SlotsInv'
  BY NextOrderly, StutterOrderly, NextSlots, StutterSlots, ChangesStayBounded
     DEF SlotsInv, Orderly, Proper, WatcherInv
<1> QED
  BY <1>1, <1>2, PTL DEF Spec

(* While the Repository stays and no run is made again under the name of   *)
(* another, a start that may still commit has its slot, for any number of  *)
(* runs, lost answers, limit changes and restarts (admission.go:30).       *)
THEOREM OutstandingStartsHaveSlots ==
  ASSUME Undisturbed
  PROVE  Spec => []OutstandingStartHasSlot
<1>1. WatcherInv /\ SlotInv => OutstandingStartHasSlot
  <2> SUFFICES ASSUME WatcherInv, SlotInv, phase = "up", NEW c \in inFlight
               PROVE  Holds(mgr, c)
    BY DEF OutstandingStartHasSlot, Holds
  <2>1. c \in Keys
    BY DEF WatcherInv, ClusterInv
  <2> QED
    BY <2>1 DEF SlotInv, EngagedHolds, Engaged
<1> QED
  BY SlotInvariance, <1>1, PTL DEF SlotsInv

----------------------------------------------------------------------------
(* With a limit that nobody changes, which a new process finds.            *)
Steady == Undisturbed /\ MaxChanges = 0 /\ (Restarts => ~Inherited)

\* The reconciles work with the one limit, and so does the queue, which is not
\* over it.
LimitInv ==
  /\ \A k \in Keys : work[k].pc # "idle" => work[k].limit = repository
  /\ mgr.queue # NoQueue =>
       /\ mgr.queue.limit = repository
       /\ repository # 0 => Cardinality(mgr.queue.running) <= repository

\* A reconcile ends, or goes on with the limit it had or the one there is.
SameLimitIn(k) ==
  /\ \A j \in Keys \ {k} : work'[j] = work[j]
  /\ \/ work'[k].pc = "idle"
     \/ work'[k].limit = repository
     \/ work[k].pc # "idle" /\ work'[k].limit = work[k].limit

LEMMA EndKeepsLimit ==
  ASSUME ClusterInv, NEW k \in Keys, end(k)
  PROVE  SameLimitIn(k)
BY IdleIsWork DEF ClusterInv, end, SameLimitIn

LEMMA GotoKeepsLimit ==
  ASSUME ClusterInv, NEW k \in Keys, work[k].pc # "idle",
         NEW pc, NEW mode, NEW ending, goto(k, pc, mode, ending)
  PROVE  SameLimitIn(k)
<1>1. work \in [Keys -> Work]
  BY DEF ClusterInv
<1> DEFINE x == [Idle EXCEPT !.pc = pc, !.mode = mode, !.ending = ending,
                             !.run = work[k].run, !.limit = work[k].limit]
<1>2. x.limit = work[k].limit
  BY DEF Idle
<1>3. work' = [work EXCEPT ![k] = x]
  BY DEF goto
<1> HIDE DEF x
<1> QED
  BY <1>1, <1>2, <1>3 DEF SameLimitIn

LEMMA ProceedKeepsLimit ==
  ASSUME ClusterInv, NEW k \in Keys, work[k].pc # "idle", proceed(k)
  PROVE  SameLimitIn(k)
<1>1. end(k) \/ \E pc, mode, ending : goto(k, pc, mode, ending)
  BY DEF proceed
<1> QED
  BY <1>1, EndKeepsLimit, GotoKeepsLimit

LEMMA ResultKeepsLimit ==
  ASSUME ClusterInv, NEW k \in Keys, NEW c, NEW outcome, NEW failed, work[k].pc # "idle",
         work' = [work EXCEPT ![k] = result(k, c, outcome, failed)]
  PROVE  SameLimitIn(k)
<1> DEFINE x == result(k, c, outcome, failed)
<1>1. work \in [Keys -> Work]
  BY DEF ClusterInv
<1>2. x.limit = work[k].limit
  BY <1>1 DEF result, Work
<1> HIDE DEF x
<1>3. work' = [work EXCEPT ![k] = x]
  BY DEF x
<1> QED
  BY <1>1, <1>2, <1>3 DEF SameLimitIn

LEMMA ReadsKeepLimit ==
  ASSUME ClusterInv, NEW k \in Keys, Begin(k) \/ ListRuns(k) \/ Report(k)
  PROVE  SameLimitIn(k)
<1>1. work \in [Keys -> Work]
  BY DEF ClusterInv
<1>2. CASE Begin(k) /\ runs[k] # NoRun
  <2> DEFINE x == [Idle EXCEPT !.pc = IF runs[k].deleting /\ ~HasPlace(runs[k])
                                      THEN "forget" ELSE "acquire",
                               !.ending = runs[k].deleting,
                               !.run = runs[k],
                               !.limit = repository]
  <2>1. work' = [work EXCEPT ![k] = x]
    BY <1>2 DEF Begin
  <2>2. x.limit = repository
    BY DEF Idle
  <2> HIDE DEF x
  <2> QED
    BY <1>1, <2>1, <2>2 DEF SameLimitIn
<1>3. CASE Begin(k) /\ runs[k] = NoRun
  BY <1>3 DEF Begin, At, SameLimitIn
<1>4. CASE ListRuns(k)
  <2> DEFINE list == Filtered(Order, {j \in Keys : runs[j] # NoRun /\ runs[j].state = StateQueued
                                                   /\ runs[j].spec = Pending})
             x == [work[k] EXCEPT !.pc = "acquire", !.limit = repository, !.list = list]
  <2>1. work' = [work EXCEPT ![k] = x]
    BY <1>4 DEF ListRuns
  <2> HIDE DEF list
  <2>2. x.limit = repository
    BY <1>1 DEF Work
  <2> HIDE DEF x
  <2> QED
    BY <1>1, <2>1, <2>2 DEF SameLimitIn
<1>5. CASE Report(k)
  <2> DEFINE x == [work[k] EXCEPT !.pc = "acquire", !.ending = TRUE, !.limit = repository]
  <2>1. work' = [work EXCEPT ![k] = x]
    BY <1>5 DEF Report
  <2>2. x.limit = repository
    BY <1>1 DEF Work
  <2> HIDE DEF x
  <2> QED
    BY <1>1, <2>1, <2>2 DEF SameLimitIn
<1> QED
  BY <1>2, <1>3, <1>4, <1>5

LEMMA TakingKeepsLimit ==
  ASSUME ClusterInv, NEW k \in Keys, work[k].pc # "idle", TakesBatch(k)
  PROVE  SameLimitIn(k)
<1> DEFINE w == work[k]
<1>1. work \in [Keys -> Work] /\ w \in Work
  BY DEF ClusterInv
<1> DEFINE l == leases'[k]
           x == [w EXCEPT !.pc = "batch", !.started = {}, !.gone = {},
                          !.empty = l.cands = {}, !.todo = l.cands \ w.seen,
                          !.failed = l.cands \cap w.seen # {},
                          !.seen = @ \cup l.cands, !.attempts = l.attempts]
<1>2. work' = [work EXCEPT ![k] = x]
  BY DEF TakesBatch
<1> HIDE DEF w, l
<1>3. x.limit = w.limit
  BY <1>1 DEF Work
<1> HIDE DEF x
<1> QED
  BY <1>1, <1>2, <1>3 DEF w, SameLimitIn

LEMMA BatchKeepsLimit ==
  ASSUME ClusterInv, NEW k \in Keys, work[k].pc # "idle",
         \/ TakesBatch(k)
         \/ work' = [work EXCEPT ![k].pc = "acquire",
                                 ![k].list = Filtered(@, Keys \ work[k].gone)]
         \/ work' = [work EXCEPT ![k].pc = "readback"]
         \/ \E attempts, c : work' = [work EXCEPT ![k] =
              [[work[k] EXCEPT !.attempts = attempts] EXCEPT !.pc = "answer", !.trying = c]]
  PROVE  SameLimitIn(k)
<1> DEFINE w == work[k]
<1>1. work \in [Keys -> Work] /\ w \in Work
  BY DEF ClusterInv
<1>2. CASE TakesBatch(k)
  BY <1>2, TakingKeepsLimit
<1>3. CASE work' = [work EXCEPT ![k].pc = "acquire",
                                ![k].list = Filtered(@, Keys \ work[k].gone)]
  <2> DEFINE list == Filtered(work[k].list, Keys \ work[k].gone)
             x == [w EXCEPT !.pc = "acquire", !.list = list]
  <2>1. work' = [work EXCEPT ![k] = x]
    BY <1>3
  <2> HIDE DEF w, list
  <2>2. x.limit = w.limit
    BY <1>1 DEF Work
  <2> HIDE DEF x
  <2> QED
    BY <1>1, <2>1, <2>2 DEF w, SameLimitIn
<1>4. CASE work' = [work EXCEPT ![k].pc = "readback"]
  <2> DEFINE x == [w EXCEPT !.pc = "readback"]
  <2>1. work' = [work EXCEPT ![k] = x]
    BY <1>4
  <2> HIDE DEF w
  <2>2. x.limit = w.limit
    BY <1>1 DEF Work
  <2> HIDE DEF x
  <2> QED
    BY <1>1, <2>1, <2>2 DEF w, SameLimitIn
<1>5. ASSUME NEW attempts, NEW c, work' = [work EXCEPT ![k] =
               [[work[k] EXCEPT !.attempts = attempts] EXCEPT !.pc = "answer", !.trying = c]]
      PROVE  SameLimitIn(k)
  <2> DEFINE x == [[w EXCEPT !.attempts = attempts] EXCEPT !.pc = "answer", !.trying = c]
  <2>1. work' = [work EXCEPT ![k] = x]
    BY <1>5
  <2> HIDE DEF w
  <2>2. x.limit = w.limit
    BY <1>1 DEF Work
  <2> HIDE DEF x
  <2> QED
    BY <1>1, <2>1, <2>2 DEF w, SameLimitIn
<1> QED
  BY <1>2, <1>3, <1>4, <1>5

\* The limit of the queue, when it is there, is the Repository's.
QueueHasLimit == mgr.queue # NoQueue => mgr.queue.limit = repository

LEMMA QueueStaysWithin ==
  ASSUME WatcherInv, LimitInv, Proper, repository \in Limits, repository # 0,
         QueueHasLimit', repository' = repository, mgr'.queue # NoQueue
  PROVE  Cardinality(mgr'.queue.running) <= repository
<1>1. repository \in Nat
  BY QueueManagerAssumption
<1>2. mgr'.queue.limit = repository
  BY DEF QueueHasLimit
<1>3. mgr'.queue.running \subseteq Keys
  <2>1. Sound(mgr'.queue)
    BY DEF Proper, ManagerIInv, Consistent, Typed
  <2> QED
    BY <2>1, Fields DEF Sound
<1>4. CASE \E k \in Keys : Holds(mgr', k) /\ ~Holds(mgr, k)
  BY <1>2, <1>4 DEF Proper, TakesInOrder
<1>5. CASE ~\E k \in Keys : Holds(mgr', k) /\ ~Holds(mgr, k)
  <2>1. \A k \in mgr'.queue.running : mgr.queue # NoQueue /\ k \in mgr.queue.running
    BY <1>3, <1>5 DEF Holds
  <2>2. CASE mgr'.queue.running = {}
    BY <1>1, <2>2, FS_EmptySet
  <2>3. CASE mgr'.queue.running # {}
    <3>1. mgr.queue # NoQueue /\ mgr'.queue.running \subseteq mgr.queue.running
      BY <2>1, <2>3
    <3>2. Sound(mgr.queue)
      BY DEF WatcherInv, ManagerIInv, Consistent, Typed
    <3>3. mgr.queue.running \subseteq Keys
      BY <3>1, <3>2, Fields DEF Sound
    <3>4. IsFiniteSet(mgr.queue.running)
      BY <3>3, FS_Subset, AdmissionsAssumption
    <3>5. /\ Cardinality(mgr'.queue.running) <= Cardinality(mgr.queue.running)
          /\ Cardinality(mgr'.queue.running) \in Nat /\ Cardinality(mgr.queue.running) \in Nat
      BY <3>1, <3>4, FS_Subset, FS_CardinalityType
    <3>6. Cardinality(mgr.queue.running) <= repository
      BY <3>1 DEF LimitInv
    <3> QED
      BY <1>1, <3>5, <3>6
  <2> QED
    BY <2>2, <2>3
<1> QED
  BY <1>4, <1>5

LEMMA WorkHasLimit ==
  ASSUME LimitInv, repository' = repository,
         \/ work' = work \/ \E k \in Keys : SameLimitIn(k)
         \/ \A k \in Keys : work'[k].pc = "idle"
  PROVE  \A k \in Keys : work'[k].pc # "idle" => work'[k].limit = repository
BY DEF LimitInv, SameLimitIn

\* A step that leaves the Repository alone and uses its limit.
Abides ==
  /\ repository' = repository
  /\ \/ work' = work \/ \E k \in Keys : SameLimitIn(k)
     \/ \A k \in Keys : work'[k].pc = "idle"
  /\ QueueHasLimit'

LEMMA AbidesOK ==
  ASSUME WatcherInv, LimitInv, Proper, repository # NoRepository, Abides
  PROVE  LimitInv'
<1>1. repository \in Limits
  BY DEF WatcherInv, ClusterInv
<1>2. \A k \in Keys : work'[k].pc # "idle" => work'[k].limit = repository
  BY WorkHasLimit DEF Abides
<1>3. mgr'.queue # NoQueue /\ repository # 0 => Cardinality(mgr'.queue.running) <= repository
  BY <1>1, QueueStaysWithin DEF Abides
<1> QED
  BY <1>2, <1>3 DEF Abides, LimitInv, QueueHasLimit

\* The steps that call no method of the manager.
LEMMA UnmanagedAbides ==
  ASSUME LimitInv, UNCHANGED managerVars, repository' = repository,
         work' = work \/ \E k \in Keys : SameLimitIn(k)
  PROVE  Abides
BY DEF LimitInv, Abides, QueueHasLimit, managerVars

LEMMA ReconcileAbides ==
  ASSUME ClusterInv, LimitInv, repository # NoRepository, NEW k \in Keys,
         \/ Begin(k) \/ ListRuns(k) \/ Report(k) \/ TerminalWrite(k)
         \/ Fail(k) \/ TerminalWriteUnanswered(k)
  PROVE  Abides
<1>1. UNCHANGED managerVars /\ repository' = repository
  BY DEF Begin, ListRuns, Report, TerminalWrite, Fail, TerminalWriteUnanswered, boundVars
<1>2. SameLimitIn(k)
  <2>1. CASE Begin(k) \/ ListRuns(k) \/ Report(k)
    BY <2>1, ReadsKeepLimit
  <2>2. CASE TerminalWrite(k)
    BY <2>2, GotoKeepsLimit DEF TerminalWrite, At
  <2>3. CASE Fail(k) \/ TerminalWriteUnanswered(k)
    BY <2>3, EndKeepsLimit DEF Fail, TerminalWriteUnanswered, endWithError
  <2> QED
    BY <2>1, <2>2, <2>3
<1> QED
  BY <1>1, <1>2, UnmanagedAbides

LEMMA ForgetOwnerAbides ==
  ASSUME ClusterInv, LimitInv, NEW k \in Keys, ForgetOwner(k)
  PROVE  Abides
<1>1. mgr'.queue = mgr.queue
  <2>1. CASE ForgetAdmission(Owner(k))
    BY <2>1 DEF ForgetAdmission
  <2>2. CASE UNCHANGED managerVars
    BY <2>2 DEF managerVars
  <2> QED
    BY <2>1, <2>2 DEF ForgetOwner
<1>2. SameLimitIn(k) /\ repository' = repository
  BY EndKeepsLimit DEF ForgetOwner, boundVars
<1> QED
  BY <1>1, <1>2 DEF LimitInv, Abides, QueueHasLimit

(* A call of AcquireAdmission gives the queue the limit it is called with. *)
LEMMA AcquireAbides ==
  ASSUME WatcherInv, SlotInv, LimitInv, NEW k \in Keys, Acquire(k)
  PROVE  Abides
<1> DEFINE o == Owner(k)
           mode == work[k].mode
           limit == work[k].limit
           finishing == Finishing(work[k].run)
<1>1. /\ work[k].pc # "idle" /\ ClusterInv /\ Consistent(mgr) /\ limit = repository
      /\ limit \in Nat /\ repository' = repository
  BY Callable DEF Acquire, At, WatcherInv, ManagerIInv, LimitInv, boundVars
<1>2. CASE AcquireNothing(o, mode, limit) /\ proceed(k)
  <2>1. SameLimitIn(k)
    BY <1>1, <1>2, ProceedKeepsLimit
  <2>2. mgr' = mgr \/ mgr' = getSemaphore(mgr, limit)
    BY <1>2 DEF AcquireNothing, managerVars
  <2>3. getSemaphore(mgr, limit).queue.limit = limit
    BY <1>1, GetSemaphoreStays
  <2> QED
    BY <1>1, <2>1, <2>2, <2>3 DEF LimitInv, Abides, QueueHasLimit
<1>3. CASE AcquireRefused(o, mode, limit) /\ end(k)
  <2>1. SameLimitIn(k)
    BY <1>1, <1>3, EndKeepsLimit
  <2>2. mgr' = mgr \/ mgr' = getSemaphore(mgr, limit)
    BY <1>3 DEF AcquireRefused, managerVars
  <2>3. getSemaphore(mgr, limit).queue.limit = limit
    BY <1>1, GetSemaphoreStays
  <2> QED
    BY <1>1, <2>1, <2>2, <2>3 DEF LimitInv, Abides, QueueHasLimit
<1>4. CASE AcquireBlocked(o, work[k].list, mode, finishing, limit) /\ end(k)
  <2>1. SameLimitIn(k)
    BY <1>1, <1>4, EndKeepsLimit
  <2>2. mgr' = prepared(mgr, o, work[k].list, mode, finishing, limit) /\ ~BeingProcessed(o)
    BY <1>4 DEF AcquireBlocked, Admissible
  <2>3. mgr'.queue.limit = limit
    BY <1>1, <2>2, AcquirePrepares
  <2> QED
    BY <1>1, <2>1, <2>3 DEF Abides, QueueHasLimit
<1>5. CASE AcquireWork(k, o, work[k].list, mode, finishing, limit) /\ TakesBatch(k)
  <2>1. SameLimitIn(k)
    BY <1>1, <1>5, BatchKeepsLimit
  <2>2. mgr'.queue.limit = limit
    BY <1>1, <1>5, AcquireLeases
  <2> QED
    BY <1>1, <2>1, <2>2 DEF Abides, QueueHasLimit
<1> QED
  BY <1>2, <1>3, <1>4, <1>5 DEF Acquire, endWithError, TakesBatch

LEMMA FinishBatchAbides ==
  ASSUME WatcherInv, SlotInv, LimitInv, NEW k \in Keys, FinishBatch(k)
  PROVE  Abides
<1>1. /\ work[k].pc # "idle" /\ ClusterInv /\ WorkMatches(k)
      /\ repository' = repository
      /\ \/ end(k) \/ proceed(k)
         \/ work' = [work EXCEPT ![k].pc = "acquire",
                                 ![k].list = Filtered(@, Keys \ work[k].gone)]
  BY DEF FinishBatch, At, WatcherInv, SlotInv, boundVars, endWithError
<1>2. SameLimitIn(k)
  BY <1>1, EndKeepsLimit, ProceedKeepsLimit, BatchKeepsLimit
<1>3. /\ mgr.queue # NoQueue
      /\ Leaves(mgr, mgr', Owner(k), LiveOf(k), work[k].started, work[k].gone,
                work[k].attempts)
  BY <1>1, FinishRecords
<1>4. mgr'.queue.limit = repository
  BY <1>3 DEF Leaves, LimitInv
<1> QED
  BY <1>1, <1>2, <1>4 DEF Abides, QueueHasLimit

LEMMA BatchStepAbides ==
  ASSUME ClusterInv, LimitInv, NEW k \in Keys,
         \/ StartAnswered(k) \/ StartUnanswered(k) \/ Readback(k)
         \/ \E c \in Keys : StartCandidate(k, c) \/ CandidateUnread(k, c)
  PROVE  Abides
<1>1. /\ work[k].pc # "idle" /\ UNCHANGED managerVars
      /\ repository' = repository
  BY DEF StartAnswered, StartUnanswered, Readback, StartCandidate, CandidateUnread, At, boundVars
<1>2. ASSUME NEW c, confirmed(k, c)
      PROVE  SameLimitIn(k)
  BY <1>1, <1>2, ResultKeepsLimit DEF confirmed
<1>3. SameLimitIn(k)
  <2>1. CASE StartAnswered(k)
    BY <1>2, <2>1 DEF StartAnswered
  <2>2. CASE StartUnanswered(k)
    BY <1>1, <2>2, BatchKeepsLimit DEF StartUnanswered
  <2>3. CASE Readback(k)
    BY <1>1, <1>2, <2>3, ResultKeepsLimit DEF Readback
  <2>4. ASSUME NEW c \in Keys, StartCandidate(k, c)
        PROVE  SameLimitIn(k)
    <3> DEFINE attempts == work[k].attempts \cup {<<c, runs[c].uid>>}
    <3>1. \/ work' = [work EXCEPT ![k] = result(k, c, "gone", FALSE)]
          \/ work' = [work EXCEPT ![k] =
               [[work[k] EXCEPT !.attempts = attempts] EXCEPT !.pc = "answer", !.trying = c]]
      BY <2>4 DEF StartCandidate
    <3> HIDE DEF attempts
    <3>2. CASE work' = [work EXCEPT ![k] = result(k, c, "gone", FALSE)]
      BY <1>1, <3>2, ResultKeepsLimit
    <3>3. CASE work' = [work EXCEPT ![k] =
               [[work[k] EXCEPT !.attempts = attempts] EXCEPT !.pc = "answer", !.trying = c]]
      BY <1>1, <3>3, BatchKeepsLimit
    <3> QED
      BY <3>1, <3>2, <3>3
  <2>5. ASSUME NEW c \in Keys, CandidateUnread(k, c)
        PROVE  SameLimitIn(k)
    BY <1>1, <2>5, ResultKeepsLimit DEF CandidateUnread
  <2> QED
    BY <2>1, <2>2, <2>3, <2>4, <2>5
<1> QED
  BY <1>1, <1>3, UnmanagedAbides

(* Crash and InitQueues.                                                   *)
LEMMA RebuildAbides ==
  ASSUME WatcherInv, SlotInv, LimitInv, Crash \/ RebuildStarted \/ RebuildQueued
  PROVE  Abides
<1>1. CASE Crash
  <2>1. /\ repository' = repository /\ work' = [k \in Keys |-> Idle]
        /\ mgr'.queue = NoQueue
    BY <1>1 DEF Crash, Restart, NewManager
  <2> QED
    BY <2>1, IdleIsWork DEF Abides, QueueHasLimit
<1>2. CASE RebuildStarted
  <2> DEFINE set == {j \in Keys : runs[j] # NoRun /\ runs[j].state = StateStarted
                                  /\ runs[j].spec \in {Pending, None, Cancelled}}
             list == InState(StateStarted, {Pending, None, Cancelled})
  <2>1. /\ mgr = NewManager /\ UNCHANGED <<work, repository>>
        /\ \/ UNCHANGED managerVars
           \/ mgr' = acquireUnowned(listed(getSemaphore(mgr, repository), list), repository)
    BY <1>2 DEF RebuildStarted, AddListToRunningQueue, SlotInv, RebuildInv
  <2>2. set \in SUBSET Keys /\ list = Filtered(Order, set) /\ repository \in Nat
    BY QueueManagerAssumption DEF InState, SlotInv, WatcherInv, ClusterInv
  <2> HIDE DEF set
  <2>3. list \in Seq(set)
    BY <2>2, FilterAssumption
  <2> HIDE DEF list
  <2>4. CASE UNCHANGED managerVars
    BY <2>1, <2>4 DEF managerVars, LimitInv, Abides, QueueHasLimit
  <2>5. CASE mgr' = acquireUnowned(listed(getSemaphore(mgr, repository), list), repository)
    <3>1. mgr'.queue.limit = repository
      BY <2>1, <2>2, <2>3, <2>5, RebuiltQueue
    <3> QED
      BY <2>1, <3>1 DEF Abides, QueueHasLimit
  <2> QED
    BY <2>1, <2>4, <2>5
<1>3. CASE RebuildQueued
  <2> DEFINE list == InState(StateQueued, {Pending})
             l == getSemaphore(mgr, repository)
  <2>1. /\ UNCHANGED <<work, repository>>
        /\ UNCHANGED managerVars \/ mgr' = listed(l, list)
    BY <1>3 DEF RebuildQueued, AddToPendingQueue
  <2>2. list \in Seq(Keys)
    BY ListedRuns
  <2> HIDE DEF list
  <2>3. repository \in Nat /\ Consistent(mgr)
    BY QueueManagerAssumption DEF SlotInv, WatcherInv, ClusterInv, ManagerIInv
  <2>4. Consistent(l) /\ l.queue # NoQueue /\ l.queue.limit = repository
    BY <2>3, GetSemaphoreOK, GetSemaphoreStays
  <2> HIDE DEF l
  <2>5. listed(l, list).queue.limit = repository
    BY <2>2, <2>4, ListedStays DEF SameLimit
  <2> QED
    BY <2>1, <2>5 DEF managerVars, LimitInv, Abides, QueueHasLimit
<1> QED
  BY <1>1, <1>2, <1>3

(* Without changes of the Repository, no other step is taken.              *)
LEMMA NextAbides ==
  ASSUME Steady, WatcherInv, SlotInv, ChangesBounded, LimitInv, Next
  PROVE  Abides
<1>1. repository # NoRepository /\ ClusterInv
  BY DEF Steady, SlotInv, WatcherInv
<1>2. ASSUME NEW k \in Keys, Reconcile(k)
      PROVE  Abides
  <2>1. ~(BeginWithoutRepository(k) \/ ListWithoutRepository(k) \/ ReportWithoutRepository(k))
    BY <1>1 DEF BeginWithoutRepository, ListWithoutRepository, ReportWithoutRepository
  <2> QED
    BY <1>1, <1>2, <2>1, ReconcileAbides, ForgetOwnerAbides, AcquireAbides,
       FinishBatchAbides, BatchStepAbides
       DEF Reconcile
<1>3. ASSUME NEW k \in Keys, Fail(k) \/ TerminalWriteUnanswered(k)
      PROVE  Abides
  BY <1>1, <1>3, ReconcileAbides
<1>4. ASSUME NEW k \in Keys, NEW c \in Keys, CandidateUnread(k, c)
      PROVE  Abides
  BY <1>1, <1>4, BatchStepAbides
<1>5. ASSUME NEW c \in Keys, Commit(c) \/ Drop(c) \/ TektonFinishes(c) \/ Cancel(c) \/ Delete(c)
      PROVE  Abides
  <2>1. UNCHANGED managerVars /\ work' = work /\ repository' = repository
    BY <1>5 DEF Commit, Drop, TektonFinishes, Cancel, Delete, boundVars
  <2> QED
    BY <2>1, UnmanagedAbides
<1>6. ~\E c \in Keys, uid \in UIDs : Recreate(c, uid)
  BY DEF Recreate, Steady, Undisturbed
<1>7. ~\E l \in Limits \cup Removals : ChangeRepository(l)
  BY DEF ChangeRepository, Steady, ChangesBounded
<1>8. ~TakeOver
  BY DEF TakeOver, Steady, Undisturbed
<1> QED
  BY <1>2, <1>3, <1>4, <1>5, <1>6, <1>7, <1>8, RebuildAbides DEF Next

LEMMA InitLimit == Init => LimitInv
<1> SUFFICES ASSUME Init PROVE LimitInv
  OBVIOUS
<1>1. mgr.queue = NoQueue
  BY DEF Init, ManagerInit, NewManager
<1>2. \A k \in Keys : work[k].pc = "idle"
  BY DEF Init, Idle
<1> QED
  BY <1>1, <1>2 DEF LimitInv

----------------------------------------------------------------------------
(* The runs that use the limit up: started, about to be, or with a slot.   *)
(* After a restart some that are started wait for a slot, and there may be *)
(* fewer slots in use than runs that are started.                          *)
Taken == {k \in Keys : Active(k) \/ k \in inFlight \/ (Holds(mgr, k) /\ Startable(k))}

RoomInv == repository # 0 => Cardinality(Taken) <= repository

LEMMA TerminalWriteAges ==
  ASSUME WatcherInv, NEW k \in Keys, TerminalWrite(k) \/ TerminalWriteUnanswered(k)
  PROVE  Ages
<1> DEFINE run == [runs[k] EXCEPT !.state = StateCompleted]
<1>1. write(k, run) /\ At(k, "write")
  BY DEF TerminalWrite, TerminalWriteUnanswered
<1>2. ClusterInv /\ Knows(work[k], runs[k])
  BY <1>1 DEF WatcherInv, ClusterInv, At
<1>3. runs[k] \in Run /\ runs[k] # NoRun
  BY <1>2 DEF ClusterInv, Knows
<1>4. run \in Run /\ run.uid = runs[k].uid /\ noLongerStartable(run)
  BY <1>3, RunChanges DEF noLongerStartable, Run
<1> HIDE DEF run
<1> QED
  BY <1>1, <1>2, <1>3, <1>4, WriteAges

(* Without Recreate every step ages the runs, and a process that is not up *)
(* sends no start.                                                         *)
LEMMA NextAges ==
  ASSUME Undisturbed, WatcherInv, SlotInv, Next
  PROVE  Ages /\ (phase' # "up" => inFlight' \subseteq inFlight)
<1> DEFINE Goal == Ages /\ (phase' # "up" => inFlight' \subseteq inFlight)
<1>1. ASSUME NEW k \in Keys, Reconcile(k) \/ Fail(k) \/ TerminalWriteUnanswered(k)
                              \/ \E c \in Keys : CandidateUnread(k, c)
      PROVE  Goal
  <2>1. ~(BeginWithoutRepository(k) \/ ListWithoutRepository(k) \/ ReportWithoutRepository(k))
    BY DEF SlotInv, BeginWithoutRepository, ListWithoutRepository, ReportWithoutRepository
  <2>2. CASE TerminalWrite(k) \/ TerminalWriteUnanswered(k)
    BY <2>2, TerminalWriteAges DEF TerminalWrite, TerminalWriteUnanswered, At
  <2>3. CASE ForgetOwner(k)
    <3>1. write(k, NoRun) \/ UNCHANGED <<runs, inFlight>>
      BY <2>3 DEF ForgetOwner
    <3> QED
      BY <2>3, <3>1, WriteAges, SameRunsAge DEF WatcherInv, ForgetOwner, At
  <2>4. CASE StartAnswered(k)
    BY <2>4, StartWriteAges DEF WatcherInv, StartAnswered, At
  <2>5. CASE \/ Begin(k) \/ ListRuns(k) \/ Report(k) \/ Acquire(k) \/ FinishBatch(k)
             \/ StartUnanswered(k) \/ Readback(k) \/ Fail(k)
             \/ \E c \in Keys : StartCandidate(k, c) \/ CandidateUnread(k, c)
    <3>1. UNCHANGED <<runs, phase>> /\ phase = "up"
      BY <2>5 DEF Begin, ListRuns, Report, Acquire, FinishBatch, StartUnanswered, Readback, Fail,
         StartCandidate, CandidateUnread, At
    <3> QED
      BY <3>1, SameRunsAge
  <2> QED
    BY <1>1, <2>1, <2>2, <2>3, <2>4, <2>5 DEF Reconcile
<1>2. ASSUME NEW c \in Keys, Commit(c) \/ Drop(c)
      PROVE  Goal
  BY <1>2, StartWriteAges, SameRunsAge DEF WatcherInv, Commit, Drop, startWrite, write
<1>3. ASSUME NEW c \in Keys, TektonFinishes(c) \/ Cancel(c) \/ Delete(c)
      PROVE  Goal
  BY <1>3, UserAndTektonWrites
<1>4. ~\E c \in Keys, uid \in UIDs : Recreate(c, uid)
  BY DEF Undisturbed, Recreate
<1>5. ASSUME NEW l, ChangeRepository(l)
      PROVE  Goal
  BY <1>5, SameRunsAge DEF ChangeRepository
<1>6. CASE Crash \/ RebuildStarted \/ RebuildQueued \/ TakeOver
  BY <1>6, SameRunsAge DEF Crash, RebuildStarted, RebuildQueued, TakeOver
<1> QED
  BY <1>1, <1>2, <1>3, <1>4, <1>5, <1>6 DEF Next

\* A run that has yet to be started gets a slot.
NewlyTaken == \E n \in Keys : Fresh(n)' /\ Holds(mgr', n) /\ ~Holds(mgr, n)

(* When one gets a slot, all that use the limit up have one: a started run *)
(* without would be before it in the queue.                                *)
LEMMA NewlyTakenHold ==
  ASSUME Steady, ClusterInv', SlotInv', TakesInOrder(mgr, mgr'), NewlyTaken,
         repository' # 0
  PROVE  mgr'.queue # NoQueue /\ Taken' \subseteq mgr'.queue.running
<1>1. PICK n \in Keys : Fresh(n)' /\ Holds(mgr', n) /\ ~Holds(mgr, n)
  BY DEF NewlyTaken
<1>2. mgr'.queue # NoQueue /\ Queued(mgr', n)
  BY <1>1 DEF Holds, Queued, Tracked
<1>3. phase' = "up"
  BY <1>1, <1>2 DEF ClusterInv, SlotInv, RebuildInv, NewManager
<1>4. ASSUME NEW k \in Keys, Engaged(k)' \/ Holds(mgr', k)
      PROVE  k \in mgr'.queue.running
  BY <1>3, <1>4 DEF SlotInv, EngagedHolds, Holds
<1>5. ASSUME NEW k \in Keys, Active(k)', Excused(k)'
      PROVE  k \in mgr'.queue.running
  <2>1. Prior(k)'
    BY <1>5 DEF Excused, Rebuilds, Steady
  <2>2. k \in Tracked(mgr'.queue) /\ <<k, n>> \in mgr'.queue.ahead
    BY <1>1, <1>2, <2>1 DEF Prior, Queued
  <2>3. k \notin mgr'.queue.pending
    BY <1>1, <2>2 DEF TakesInOrder
  <2> QED
    BY <2>2, <2>3 DEF Tracked
<1> QED
  BY <1>2, <1>4, <1>5 DEF Taken, Engaged

(* Otherwise no run begins to use it.                                      *)
LEMMA NothingTaken ==
  ASSUME ClusterInv', SlotInv', Ages, phase' # "up" => inFlight' \subseteq inFlight, ~NewlyTaken
  PROVE  Taken' \subseteq Taken
<1> SUFFICES ASSUME NEW k \in Keys, k \in Taken' PROVE k \in Taken
  BY DEF Taken
<1>1. CASE Active(k)'
  BY <1>1 DEF Ages, Taken
<1>2. CASE ~Active(k)' /\ Startable(k)' /\ Holds(mgr', k)
  <2>1. Fresh(k)' /\ Startable(k)
    BY <1>2 DEF Fresh, Ages
  <2>2. Holds(mgr, k)
    BY <1>2, <2>1 DEF NewlyTaken
  <2> QED
    BY <2>1, <2>2 DEF Taken
<1>3. CASE k \in inFlight' /\ phase' = "up"
  <2>1. Startable(k)' /\ Holds(mgr', k)
    BY <1>3 DEF ClusterInv, SlotInv, EngagedHolds, Engaged
  <2> QED
    BY <1>1, <1>2, <2>1
<1>4. CASE k \in inFlight' /\ phase' # "up"
  BY <1>4 DEF Taken
<1> QED
  BY <1>1, <1>2, <1>3, <1>4 DEF Taken

LEMMA RoomKept ==
  ASSUME Steady, WatcherInv', SlotInv', LimitInv', RoomInv, Ages, TakesInOrder(mgr, mgr'),
         repository' = repository, phase' # "up" => inFlight' \subseteq inFlight
  PROVE  RoomInv'
<1> SUFFICES ASSUME repository # 0 PROVE Cardinality(Taken') <= repository
  BY DEF RoomInv
<1>1. repository \in Nat
  BY QueueManagerAssumption DEF WatcherInv, ClusterInv, SlotInv
<1>2. ASSUME NEW big \in SUBSET Keys, Taken' \subseteq big, Cardinality(big) <= repository
      PROVE  Cardinality(Taken') <= repository
  <2>1. IsFiniteSet(big)
    BY FS_Subset, AdmissionsAssumption
  <2> DEFINE small == Taken'
  <2> HIDE DEF small
  <2>2. /\ Cardinality(small) <= Cardinality(big)
        /\ Cardinality(small) \in Nat /\ Cardinality(big) \in Nat
    BY <1>2, <2>1, FS_Subset, FS_CardinalityType DEF small
  <2>3. Cardinality(small) <= repository
    BY <1>1, <1>2, <2>2
  <2> QED
    BY <2>3 DEF small
<1>3. CASE NewlyTaken
  <2>1. mgr'.queue # NoQueue /\ Taken' \subseteq mgr'.queue.running
    BY <1>3, NewlyTakenHold DEF WatcherInv
  <2>2. mgr'.queue.running \in SUBSET Keys
    BY <2>1, Fields DEF WatcherInv, ManagerIInv, Consistent, Typed, Sound
  <2>3. Cardinality(mgr'.queue.running) <= repository
    BY <2>1 DEF LimitInv
  <2> QED
    BY <1>2, <2>1, <2>2, <2>3
<1>4. CASE ~NewlyTaken
  <2>1. Taken' \subseteq Taken
    BY <1>4, NothingTaken DEF WatcherInv
  <2>2. Taken \in SUBSET Keys /\ Cardinality(Taken) <= repository
    BY DEF Taken, RoomInv
  <2> QED
    BY <1>2, <2>1, <2>2
<1> QED
  BY <1>3, <1>4

LEMMA InitRoom == Undisturbed /\ Init => RoomInv
<1> SUFFICES ASSUME Init PROVE RoomInv
  OBVIOUS
<1>1. repository \in Nat
  BY QueueManagerAssumption DEF Init
<1>2. Taken = {}
  <2>1. PICK uid \in UIDs : runs = [k \in Keys |-> newRun(uid)]
    BY DEF Init
  <2>2. \A c \in Keys : runs[c] = newRun(uid)
    BY <2>1
  <2>3. \A c \in Keys : ~Active(c)
    BY <2>2 DEF Active, newRun, StateQueued, StateStarted
  <2>4. mgr.queue = NoQueue /\ inFlight = {}
    BY DEF Init, ManagerInit, NewManager
  <2> QED
    BY <2>3, <2>4 DEF Taken, Holds
<1> QED
  BY <1>1, <1>2, FS_EmptySet DEF RoomInv

LimitsInv == SlotsInv /\ LimitInv /\ RoomInv

LEMMA LimitInvariance ==
  ASSUME Steady
  PROVE  Spec => []LimitsInv
<1>1. Undisturbed
  BY DEF Steady
<1>2. Init => LimitsInv
  BY <1>1, InitWatcherInv, InitSlots, InitLimit, InitRoom
     DEF LimitsInv, SlotsInv, ChangesBounded, Init
<1>3. ASSUME LimitsInv, Next
      PROVE  LimitsInv'
  <2>1. Proper /\ WatcherInv'
    BY <1>3, NextOrderly DEF LimitsInv, SlotsInv, Orderly, Proper, WatcherInv
  <2>2. SlotInv' /\ ChangesBounded'
    BY <1>1, <1>3, NextSlots, ChangesStayBounded DEF LimitsInv, SlotsInv
  <2>3. Abides
    BY <1>3, NextAbides DEF LimitsInv, SlotsInv
  <2>4. LimitInv'
    BY <1>3, <2>1, <2>3, AbidesOK DEF LimitsInv, SlotsInv, SlotInv
  <2>5. Ages /\ (phase' # "up" => inFlight' \subseteq inFlight)
    BY <1>1, <1>3, NextAges DEF LimitsInv, SlotsInv
  <2>6. RoomInv'
    BY <1>3, <2>1, <2>2, <2>3, <2>4, <2>5, RoomKept DEF LimitsInv, Proper, Abides
  <2> QED
    BY <2>1, <2>2, <2>4, <2>6 DEF LimitsInv, SlotsInv
<1>4. ASSUME LimitsInv, UNCHANGED vars
      PROVE  LimitsInv'
  <2>1. SlotsInv'
    BY <1>4, StutterOrderly, StutterSlots, ChangesStayBounded
       DEF LimitsInv, SlotsInv, Orderly, Proper, WatcherInv
  <2>2. LimitInv' /\ RoomInv'
    BY <1>4 DEF vars, LimitsInv, LimitInv, RoomInv, Taken, Active, Holds, Startable
  <2> QED
    BY <2>1, <2>2 DEF LimitsInv
<1>5. LimitsInv /\ [Next]_vars => LimitsInv'
  BY <1>3, <1>4
<1> QED
  BY <1>2, <1>5, PTL DEF Spec

(* With a limit that nobody changes, the runs that are started and not     *)
(* told to stop are never more than it, for any number of runs and any     *)
(* lost answers, late starts, cancellations, deletions and restarts: the   *)
(* runs a restart finds started are before the others in the queue it      *)
(* makes, so none of those gets a slot while one of these has none.        *)
THEOREM RunsStayWithinLimit ==
  ASSUME Steady
  PROVE  Spec => []RunsWithinLimit
<1>1. ASSUME WatcherInv, SlotInv, RoomInv
      PROVE  RunsWithinLimit
  <2> DEFINE active == {k \in Keys : Active(k)}
  <2> SUFFICES ASSUME repository \notin {0, NoRepository}
               PROVE  Cardinality(active) <= repository
    BY DEF RunsWithinLimit
  <2>1. repository \in Nat
    BY <1>1, QueueManagerAssumption DEF WatcherInv, ClusterInv
  <2>2. active \subseteq Taken /\ Taken \in SUBSET Keys /\ Cardinality(Taken) <= repository
    BY <1>1 DEF Taken, RoomInv
  <2> HIDE DEF active
  <2>3. /\ Cardinality(active) <= Cardinality(Taken)
        /\ Cardinality(active) \in Nat /\ Cardinality(Taken) \in Nat
    BY <2>2, FS_Subset, FS_CardinalityType, AdmissionsAssumption
  <2> QED
    BY <2>1, <2>2, <2>3
<1>2. LimitsInv => RunsWithinLimit
  BY <1>1 DEF LimitsInv, SlotsInv
<1> QED
  BY LimitInvariance, <1>2, PTL

----------------------------------------------------------------------------
(* The slots no admission is starting a run in.  Nobody may start again    *)
(* the run of a key whose place was, or is about to be, given up: so no    *)
(* batch makes a slot of it that would be left behind.                     *)
GivenUp(k) ==
  \/ Over(k)
  \/ \E o \in Owners : KeyOf(o) = k /\ GaveUp(mgr, o)
  \/ work[k].pc \in {"write", "forget"}
  \/ InBatch(k) /\ work[k].mode = Promotion

\* The key has no slot of its own, and no batch is about to leave it one.
Unplaced(k) ==
  /\ ~Startable(k)
  /\ ~Loose(mgr, k)
  /\ \A j \in Keys : InBatch(j) /\ k \in work[j].started => mgr.claims[k] # Owner(j)

LooseInv ==
  /\ phase = "started" => mgr = NewManager
  /\ phase # "up" => \A o \in Owners : mgr.admissions[o] = NoAdmission
  /\ \A k \in Keys : work[k].pc # "idle" /\ work[k].run.state = StateCompleted => Over(k)
  /\ \A k \in Keys : GivenUp(k) => Unplaced(k)

\* A reconcile goes on, and to the end of its run only when that gave its place up.
GoesOn(k) ==
  /\ MovesOn(k)
  /\ work'[k].pc # "idle" /\ work'[k].run.state = StateCompleted => Over(k)
  /\ work'[k].pc \in {"write", "forget"} =>
       GivenUp(k) \/ (work[k].pc # "idle" /\ work[k].mode = Promotion)

(* What a step of one reconcile must keep to: the places it gives up are   *)
(* already left, and it leaves no slot to a run whose place was given up.  *)
LEMMA ReconcileLoose ==
  ASSUME WatcherInv, LooseInv, NEW k \in Keys, OnlyWorkOf(k), Ages,
         phase = "up", phase' = "up", Owner(k)' = Owner(k) \/ ~InBatch(k)',
         \A c \in Keys : Over(c)' => GivenUp(c),
         \A c \in Keys : Over(c) => Over(c)',
         work'[k].pc # "idle" /\ work'[k].run.state = StateCompleted => Over(k)',
         \A c \in Keys : Loose(mgr', c) => Loose(mgr, c) \/ ~GivenUp(c),
         \A c \in Keys, o \in Owners \ {Owner(k)} : mgr'.claims[c] = o => mgr.claims[c] = o,
         \A o \in Owners \ {Owner(k)} : GaveUp(mgr', o) => GaveUp(mgr, o),
         Owner(k) \in Owners /\ GaveUp(mgr', Owner(k)) => GivenUp(k) \/ Unplaced(k)',
         work'[k].pc \in {"write", "forget"} => GivenUp(k) \/ Unplaced(k)',
         InBatch(k)' /\ work'[k].mode = Promotion => GivenUp(k) \/ Unplaced(k)',
         InBatch(k)' => \A c \in work'[k].started :
           ~GivenUp(c) \/ (InBatch(k) /\ c \in work[k].started /\ mgr'.claims = mgr.claims)
  PROVE  LooseInv'
<1>1. \A j \in Keys \ {k} : work'[j] = work[j]
  BY DEF OnlyWorkOf
<1>2. ASSUME NEW j \in Keys, work'[j].pc # "idle", work'[j].run.state = StateCompleted
      PROVE  Over(j)'
  BY <1>1, <1>2 DEF LooseInv
<1>3. ASSUME NEW c \in Keys, GivenUp(c) PROVE Unplaced(c)'
  <2>1. Unplaced(c)
    BY <1>3 DEF LooseInv
  <2>2. ~Startable(c)' /\ ~Loose(mgr', c)
    BY <1>3, <2>1 DEF Unplaced, Ages
  <2>3. ASSUME NEW j \in Keys, InBatch(j)', c \in work'[j].started PROVE mgr'.claims[c] # Owner(j)'
    <3>1. CASE j = k
      <4>1. InBatch(k) /\ c \in work[k].started /\ mgr'.claims = mgr.claims
        BY <1>3, <2>3, <3>1
      <4> QED
        BY <2>1, <2>3, <3>1, <4>1 DEF Unplaced
    <3>2. CASE j # k
      <4>1. InBatch(j) /\ c \in work[j].started /\ Owner(j)' = Owner(j) /\ work[j].pc # "idle"
        BY <1>1, <2>3, <3>2 DEF InBatch, Owner
      <4>2. Owner(j) \in Owners \ {Owner(k)}
        BY <3>2, <4>1, Callable, OwnerOfOne DEF WatcherInv
      <4> QED
        BY <2>1, <4>1, <4>2 DEF Unplaced
    <3> QED
      BY <3>1, <3>2
  <2> QED
    BY <2>2, <2>3 DEF Unplaced
<1>4. ASSUME NEW c \in Keys, GivenUp(c)' PROVE GivenUp(c) \/ Unplaced(c)'
  <2>1. CASE Over(c)'
    BY <2>1
  <2>2. ASSUME NEW o \in Owners, KeyOf(o) = c, GaveUp(mgr', o)
        PROVE  GivenUp(c) \/ Unplaced(c)'
    <3>1. CASE o = Owner(k)
      <4>1. c = k
        BY <2>2, <3>1 DEF KeyOf, Owner
      <4> QED
        BY <2>2, <3>1, <4>1
    <3>2. CASE o # Owner(k)
      BY <2>2, <3>2 DEF GivenUp
    <3> QED
      BY <3>1, <3>2
  <2>3. CASE work'[c].pc \in {"write", "forget"} \/ (InBatch(c)' /\ work'[c].mode = Promotion)
    <3>1. CASE c = k
      BY <2>3, <3>1
    <3>2. CASE c # k
      BY <1>1, <2>3, <3>2 DEF GivenUp, InBatch
    <3> QED
      BY <3>1, <3>2
  <2> QED
    BY <1>4, <2>1, <2>2, <2>3 DEF GivenUp
<1> QED
  BY <1>2, <1>3, <1>4 DEF LooseInv

(* The cluster's own steps.                                                *)
LEMMA EnvironmentLoose ==
  ASSUME LooseInv, Ages, UNCHANGED <<mgr, work, phase>>,
         \A c \in Keys : Over(c)' <=> Over(c)
  PROVE  LooseInv'
<1>1. ASSUME NEW c \in Keys, GivenUp(c)' PROVE Unplaced(c)'
  <2>1. GivenUp(c)
    BY <1>1 DEF GivenUp, InBatch
  <2>2. Unplaced(c)
    BY <2>1 DEF LooseInv
  <2> QED
    BY <2>2 DEF Unplaced, Ages, InBatch, Owner
<1>2. ASSUME NEW k \in Keys, work'[k].pc # "idle", work'[k].run.state = StateCompleted
      PROVE  Over(k)'
  BY <1>2 DEF LooseInv
<1> QED
  BY <1>1, <1>2 DEF LooseInv

(* How the reconciles go on.                                               *)
LEMMA EndGoesOn ==
  ASSUME ClusterInv, NEW k \in Keys, end(k)
  PROVE  GoesOn(k)
<1>1. work'[k].pc = "idle"
  BY IdleIsWork DEF end, ClusterInv
<1> QED
  BY <1>1, EndMovesOn DEF GoesOn

LEMMA GotoGoesOn ==
  ASSUME ClusterInv, LooseInv, NEW k \in Keys, work[k].pc # "idle",
         NEW pc \in {"acquire", "list", "report", "write", "forget"},
         NEW mode \in Modes, NEW ending \in BOOLEAN,
         ending \/ mode = Promotion \/ pc \in {"report", "write"} => Finishing(work[k].run),
         pc \in {"write", "forget"} => GivenUp(k) \/ work[k].mode = Promotion,
         goto(k, pc, mode, ending)
  PROVE  GoesOn(k)
<1> DEFINE x == Sent(work[k], pc, mode, ending)
<1>1. work \in [Keys -> Work] /\ work[k] \in Work /\ phase = "up" /\ Knows(work[k], runs[k])
  BY DEF ClusterInv
<1>2. x.run = work[k].run /\ x.pc = pc
  BY <1>1, GotoIsWork
<1>3. work' = [work EXCEPT ![k] = x]
  BY DEF goto, Sent
<1> HIDE DEF x
<1>4. work'[k] = x
  BY <1>1, <1>3
<1>5. MovesOn(k)
  BY <1>1, GotoMovesOn
<1>6. work[k].run.state = StateCompleted => Over(k)
  BY DEF LooseInv
<1> QED
  BY <1>2, <1>4, <1>5, <1>6 DEF GoesOn

LEMMA ProceedGoesOn ==
  ASSUME ClusterInv, LooseInv, NEW k \in Keys, work[k].pc # "idle", proceed(k)
  PROVE  GoesOn(k)
<1> DEFINE w == work[k]
<1>1. w \in Work /\ Knows(w, runs[k]) /\ (w.run.state = StateCompleted => Over(k))
  BY DEF ClusterInv, LooseInv
<1>2. /\ w.ending \/ w.mode = Promotion => Finishing(w.run)
      /\ w.run.done \/ w.run.spec = Cancelled => Finishing(w.run)
  BY <1>1 DEF Knows, Finishing
<1>3. Resume \in Modes /\ Initial \in Modes /\ Promotion \in Modes
      /\ Resume # Promotion /\ Initial # Promotion
  BY DEF Modes, Resume, Initial, Promotion
<1>4. \/ goto(k, "acquire", Promotion, TRUE) /\ Finishing(w.run)
      \/ goto(k, "forget", Promotion, TRUE) /\ Finishing(w.run) /\ w.mode = Promotion
      \/ goto(k, "write", Promotion, TRUE) /\ Finishing(w.run) /\ w.mode = Promotion
      \/ goto(k, "report", Resume, TRUE) /\ Finishing(w.run)
      \/ goto(k, "forget", Resume, FALSE) /\ w.run.state = StateCompleted
      \/ goto(k, "list", Initial, FALSE)
      \/ end(k)
  BY <1>2 DEF proceed
<1>5. Over(k) => GivenUp(k)
  BY DEF GivenUp
<1> QED
  BY <1>1, <1>3, <1>4, <1>5, EndGoesOn, GotoGoesOn

LEMMA BeginGoesOn ==
  ASSUME ClusterInv, LooseInv, NEW k \in Keys, Begin(k)
  PROVE  GoesOn(k)
<1>1. work[k].pc = "idle" /\ MovesOn(k)
  BY BeginMovesOn DEF Begin, At
<1>2. CASE runs[k] = NoRun
  BY <1>1, <1>2 DEF Begin, GoesOn
<1>3. CASE runs[k] # NoRun
  <2> DEFINE x == [Idle EXCEPT !.pc = IF runs[k].deleting /\ ~HasPlace(runs[k])
                                      THEN "forget" ELSE "acquire",
                               !.ending = runs[k].deleting,
                               !.run = runs[k],
                               !.limit = repository]
  <2>1. work' = [work EXCEPT ![k] = x]
    BY <1>3 DEF Begin
  <2>2. x.run = runs[k] /\ (x.pc = "acquire" \/ ~HasPlace(runs[k]))
    BY DEF Idle
  <2> HIDE DEF x
  <2>3. work'[k] = x
    BY <2>1 DEF ClusterInv
  <2>4. ~HasPlace(runs[k]) <=> runs[k].state = StateCompleted
    BY DEF HasPlace
  <2> QED
    BY <1>1, <2>2, <2>3, <2>4 DEF GoesOn, Over, GivenUp
<1> QED
  BY <1>2, <1>3

LEMMA ReadsGoOn ==
  ASSUME ClusterInv, LooseInv, NEW k \in Keys, ListRuns(k) \/ Report(k)
  PROVE  GoesOn(k) /\ work'[k].pc = "acquire"
<1> DEFINE queued == {j \in Keys : runs[j] # NoRun /\ runs[j].state = StateQueued
                                   /\ runs[j].spec = Pending}
           l == [work[k] EXCEPT !.pc = "acquire", !.limit = repository,
                                !.list = Filtered(Order, queued)]
           r == [work[k] EXCEPT !.pc = "acquire", !.ending = TRUE, !.limit = repository]
<1>1. work[k] \in Work /\ work \in [Keys -> Work] /\ MovesOn(k) /\ work[k].pc # "idle"
  BY ReadsMoveOn DEF ClusterInv, ListRuns, Report, At
<1>2. /\ l.pc = "acquire" /\ r.pc = "acquire"
      /\ l.run = work[k].run /\ r.run = work[k].run
  <2> HIDE DEF queued
  <2> QED
    BY <1>1 DEF Work
<1>3. work' = [work EXCEPT ![k] = l] \/ work' = [work EXCEPT ![k] = r]
  BY DEF ListRuns, Report
<1> HIDE DEF l, r
<1>4. work'[k] = l \/ work'[k] = r
  BY <1>1, <1>3
<1> QED
  BY <1>1, <1>2, <1>4 DEF GoesOn, LooseInv

LEMMA FinishBatchGoesOn ==
  ASSUME ClusterInv, LooseInv, NEW k \in Keys, FinishBatch(k)
  PROVE  GoesOn(k)
<1> DEFINE x == [work[k] EXCEPT !.pc = "acquire", !.list = Filtered(@, Keys \ work[k].gone)]
<1>1. /\ work[k].pc = "batch" /\ work[k] \in Work /\ work \in [Keys -> Work] /\ MovesOn(k)
      /\ end(k) \/ proceed(k) \/ work' = [work EXCEPT ![k] = x]
  BY FinishBatchMovesOn DEF FinishBatch, At, endWithError, ClusterInv
<1>2. CASE work' = [work EXCEPT ![k] = x]
  <2>1. x.pc = "acquire" /\ x.run = work[k].run
    BY <1>1 DEF Work
  <2> HIDE DEF x
  <2>2. work'[k] = x
    BY <1>1, <1>2
  <2> QED
    BY <1>1, <2>1, <2>2 DEF GoesOn, LooseInv
<1> QED
  BY <1>1, <1>2, EndGoesOn, ProceedGoesOn

(* A step of a reconcile that leaves the manager alone.                    *)
LEMMA UnmanagedLoose ==
  ASSUME WatcherInv, LooseInv, NEW k \in Keys, GoesOn(k), Ages, UNCHANGED managerVars,
         phase = "up", phase' = "up",
         \A c \in Keys : Over(c)' => GivenUp(c),
         \A c \in Keys : Over(c) => Over(c)',
         work'[k].pc \in {"write", "forget"} => GivenUp(k)
  PROVE  LooseInv'
<1>1. mgr' = mgr /\ OnlyWorkOf(k) /\ ~InBatch(k)'
  BY DEF managerVars, GoesOn, MovesOn, Outside, InBatch
<1>2. Owner(k) \in Owners /\ GaveUp(mgr', Owner(k)) => GivenUp(k)
  BY <1>1 DEF GivenUp, KeyOf, Owner
<1> QED
  BY <1>1, <1>2, ReconcileLoose DEF GoesOn

LEMMA BeginLoose ==
  ASSUME WatcherInv, LooseInv, NEW k \in Keys, Begin(k) \/ ListRuns(k) \/ Report(k) \/ Fail(k)
  PROVE  LooseInv'
<1>1. /\ UNCHANGED managerVars /\ UNCHANGED <<runs, phase>> /\ phase = "up" /\ ClusterInv
  BY DEF Begin, ListRuns, Report, Fail, At, WatcherInv
<1>2. GoesOn(k)
  BY <1>1, BeginGoesOn, ReadsGoOn, EndGoesOn DEF Fail, endWithError
<1>3. work'[k].pc \in {"write", "forget"} => GivenUp(k)
  <2>1. CASE Begin(k)
    BY <1>2, <2>1 DEF GoesOn, Begin, At
  <2>2. CASE Fail(k)
    <3>1. work'[k] = Idle
      BY <1>1, <2>2 DEF Fail, endWithError, end, ClusterInv
    <3> QED
      BY <3>1, IdleIsWork
  <2>3. CASE ListRuns(k) \/ Report(k)
    BY <1>1, <2>3, ReadsGoOn
  <2> QED
    BY <2>1, <2>2, <2>3
<1>4. Ages /\ \A c \in Keys : (Over(c)' <=> Over(c)) /\ (Over(c) => GivenUp(c))
  BY <1>1, SameRunsAge DEF Over, GivenUp
<1> QED
  BY <1>1, <1>2, <1>3, <1>4, UnmanagedLoose

LEMMA TerminalWriteLoose ==
  ASSUME WatcherInv, LooseInv, NEW k \in Keys, TerminalWrite(k) \/ TerminalWriteUnanswered(k)
  PROVE  LooseInv'
<1> DEFINE run == [runs[k] EXCEPT !.state = StateCompleted]
<1>1. /\ UNCHANGED managerVars /\ write(k, run) /\ UNCHANGED phase
      /\ At(k, "write") /\ work[k].pc # "idle" /\ phase = "up"
      /\ goto(k, "forget", Promotion, TRUE) \/ end(k)
  BY DEF TerminalWrite, TerminalWriteUnanswered, At
<1>2. ClusterInv /\ Knows(work[k], runs[k]) /\ GivenUp(k)
  BY <1>1 DEF WatcherInv, ClusterInv, At, GivenUp
<1>3. runs[k] \in Run /\ runs[k] # NoRun
  BY <1>2 DEF ClusterInv, Knows
<1>4. /\ run \in Run /\ run.uid = runs[k].uid /\ noLongerStartable(run)
      /\ run.state = StateCompleted
  BY <1>3, RunChanges DEF noLongerStartable, Run
<1> HIDE DEF run
<1>5. /\ Ages /\ runs'[k] = run
      /\ \A j \in Keys \ {k} : runs'[j] = runs[j]
  BY <1>1, <1>2, <1>3, <1>4, WriteAges, WriteChanges
<1>6. GoesOn(k)
  <2>1. Promotion \in Modes /\ Finishing(work[k].run)
    BY <1>1, <1>2 DEF Modes, Knows, At
  <2> QED
    BY <1>1, <1>2, <2>1, EndGoesOn, GotoGoesOn
<1>7. ASSUME NEW c \in Keys PROVE (Over(c)' => GivenUp(c)) /\ (Over(c) => Over(c)')
  <2>1. CASE c = k
    BY <1>2, <1>4, <1>5, <2>1 DEF Over
  <2>2. CASE c # k
    BY <1>5, <2>2 DEF Over, GivenUp
  <2> QED
    BY <2>1, <2>2
<1> QED
  BY <1>1, <1>2, <1>5, <1>6, <1>7, UnmanagedLoose

LEMMA ForgetOwnerLoose ==
  ASSUME WatcherInv, LooseInv, NEW k \in Keys, ForgetOwner(k)
  PROVE  LooseInv'
<1>1. /\ At(k, "forget") /\ work[k].pc = "forget" /\ end(k) /\ UNCHANGED phase /\ phase = "up"
      /\ ForgetAdmission(Owner(k)) \/ UNCHANGED managerVars
      /\ write(k, NoRun) \/ UNCHANGED <<runs, inFlight>>
  BY DEF ForgetOwner, At
<1>2. ManagerIInv /\ ClusterInv /\ GivenUp(k) /\ work[k].pc # "idle"
  BY <1>1 DEF WatcherInv, GivenUp
<1>3. /\ GoesOn(k) /\ OnlyWorkOf(k) /\ Owner(k) \in Owners
      /\ work'[k].pc = "idle"
  BY <1>1, <1>2, EndGoesOn, Callable, IdleIsWork DEF GoesOn, MovesOn, end, ClusterInv
<1>4. /\ Ages
      /\ runs'[k] = NoRun \/ runs'[k] = runs[k]
      /\ \A j \in Keys \ {k} : runs'[j] = runs[j]
  BY <1>1, <1>2, WriteAges, SameRunsAge, WriteChanges
<1>5. ASSUME NEW c \in Keys PROVE (Over(c)' => GivenUp(c)) /\ (Over(c) => Over(c)')
  <2>1. CASE c = k
    BY <1>2, <1>4, <2>1 DEF Over
  <2>2. CASE c # k
    BY <1>4, <2>2 DEF Over, GivenUp
  <2> QED
    BY <2>1, <2>2
<1>6. CASE UNCHANGED managerVars
  BY <1>1, <1>2, <1>3, <1>4, <1>5, <1>6, UnmanagedLoose
<1>7. CASE ForgetAdmission(Owner(k))
  <2> DEFINE o == Owner(k)
  <2>1. /\ Consistent(mgr) /\ o \in Owners
        /\ mgr' = [mgr EXCEPT !.admissions[o] = NoAdmission]
    BY <1>2, <1>3, <1>7 DEF ForgetAdmission, Forgettable, ManagerIInv
  <2> HIDE DEF o
  <2>2. /\ mgr'.queue = mgr.queue /\ mgr'.claims = mgr.claims
        /\ mgr'.admissions = [mgr.admissions EXCEPT ![o] = NoAdmission]
        /\ mgr.admissions \in [Owners -> Admission \cup {NoAdmission}]
    BY <2>1 DEF Consistent, Typed
  <2>3. ASSUME NEW p \in Owners, GaveUp(mgr', p) PROVE GaveUp(mgr, p)
    <3>1. p # o /\ mgr'.admissions[p] = mgr.admissions[p]
      BY <2>2, <2>3 DEF GaveUp
    <3> QED
      BY <2>3, <3>1 DEF GaveUp
  <2>4. \A c \in Keys : Loose(mgr', c) => Loose(mgr, c)
    BY <2>2 DEF Loose, Holds
  <2>5. ~InBatch(k)'
    BY <1>3 DEF InBatch
  <2> QED
    BY <1>1, <1>2, <1>3, <1>4, <1>5, <2>2, <2>3, <2>4, <2>5, ReconcileLoose
<1> QED
  BY <1>1, <1>6, <1>7

(* What preparing an admission gives up: the place of a run that may not   *)
(* start any more, unless it was given up before.                          *)
LEMMA AcquireTidies ==
  ASSUME WatcherInv, NEW k \in Keys, work[k].pc # "idle",
         Admissible(Owner(k), work[k].mode)
  PROVE  LET n == prepared(mgr, Owner(k), work[k].list, work[k].mode,
                           Finishing(work[k].run), work[k].limit)
         IN  /\ Consistent(n) /\ n.admissions[Owner(k)] # NoAdmission
             /\ Tidy(mgr, n, Owner(k))
             /\ work[k].mode = Promotion \/ GaveUp(n, Owner(k)) =>
                  GivenUp(k) \/ (Placeless(n, k, Owner(k)) /\ ~Startable(k))
<1> DEFINE o == Owner(k)
           list == work[k].list
           mode == work[k].mode
           limit == work[k].limit
           finishing == Finishing(work[k].run)
           n == prepared(mgr, o, list, mode, finishing, limit)
<1>1. /\ Consistent(mgr) /\ o \in Owners /\ list \in Seq(Keys) /\ limit \in Nat
  BY Callable DEF WatcherInv, ManagerIInv
<1>2. ~Busy(mgr, o) /\ ~WrongMode(o, mode)
  BY DEF Admissible, BeingProcessed, Busy
<1>3. mgr.admissions[o] # NoAdmission =>
        (mgr.admissions[o].promotion <=> mode = Promotion)
  <2>1. mgr.admissions[o] \in Admission \cup {NoAdmission}
    BY <1>1 DEF Consistent, Typed
  <2>2. mgr.admissions[o] # NoAdmission => mgr.admissions[o].promotion \in BOOLEAN
    BY <2>1 DEF Admission
  <2> QED
    BY <1>2, <2>2, Zenon DEF WrongMode
<1>4. mode = Promotion \/ (mode = Resume /\ finishing) => ~Startable(k)
  <2>1. KeyOf(o) = k
    BY DEF KeyOf, Owner
  <2> QED
    BY <2>1, LeavingMayNotStart DEF WatcherInv
<1>5. KeyOf(o) = k /\ (GaveUp(mgr, o) => GivenUp(k))
  BY <1>1 DEF GivenUp, KeyOf, Owner
<1> HIDE DEF o, list, mode, limit, finishing
<1>6. Consistent(n) /\ n.admissions[o] # NoAdmission
  BY <1>1, <1>2, PreparedOK
<1>7. Tidy(mgr, n, o)
  BY <1>1, <1>2, <1>3, PreparedTidy
<1>8. mode = Promotion \/ GaveUp(n, o) =>
        \/ GaveUp(mgr, o)
        \/ Placeless(n, KeyOf(o), o) /\ (mode = Promotion \/ (mode = Resume /\ finishing))
  BY <1>1, <1>2, <1>3, PreparedTidy
<1> HIDE DEF n
<1>9. mode = Promotion \/ GaveUp(n, o) =>
        GivenUp(k) \/ (Placeless(n, k, o) /\ ~Startable(k))
  BY <1>4, <1>5, <1>8
<1> QED
  BY <1>6, <1>7, <1>9 DEF n, o, list, mode, limit, finishing

LEMMA PlacelessUnplaced ==
  ASSUME WatcherInv, NEW k \in Keys, OnlyWorkOf(k), Ages, ~Startable(k),
         Placeless(mgr', k, Owner(k)), InBatch(k)' => work'[k].started = {}
  PROVE  Unplaced(k)'
<1>1. ASSUME NEW j \in Keys, InBatch(j)', k \in work'[j].started
      PROVE  mgr'.claims[k] # Owner(j)'
  <2>1. j # k
    BY <1>1
  <2>2. work'[j] = work[j]
    BY <2>1 DEF OnlyWorkOf
  <2>3. Owner(j)' = Owner(j) /\ work[j].pc # "idle"
    BY <1>1, <2>2 DEF Owner, InBatch
  <2>4. Owner(j) \in Owners \ {Owner(k)}
    BY <2>1, <2>3, Callable, OwnerOfOne DEF WatcherInv
  <2> QED
    BY <2>3, <2>4 DEF Placeless
<1> QED
  BY <1>1 DEF Unplaced, Placeless, Ages

LEMMA UnqueuedUnclaimed ==
  ASSUME NEW m, Consistent(m), NEW k \in Keys, ~Queued(m, k)
  PROVE  ~Holds(m, k) /\ \A o \in Owners : m.claims[k] # o
<1>1. ~Holds(m, k)
  BY DEF Queued, Holds, Tracked
<1>2. ASSUME NEW o \in Owners, m.claims[k] = o PROVE FALSE
  <2>1. m.admissions[o] # NoAdmission /\ k \in m.admissions[o].cands
    BY <1>2 DEF Consistent, ClaimsMatch
  <2>2. SlotsMatch(m.admissions[o], m.queue)
    BY <2>1 DEF Consistent
  <2> QED
    BY <2>1, <2>2 DEF SlotsMatch, Queued, Tracked
<1> QED
  BY <1>1, <1>2

(* A call of AcquireAdmission that hands no batch out.                     *)
LEMMA AcquireIdlyLoose ==
  ASSUME WatcherInv, LooseInv, NEW k \in Keys, At(k, "acquire"), GoesOn(k),
         UNCHANGED <<runs, phase>>,
         \/ AcquireNothing(Owner(k), work[k].mode, work[k].limit)
         \/ /\ work'[k].pc = "idle"
            /\ \/ AcquireRefused(Owner(k), work[k].mode, work[k].limit)
               \/ AcquireBlocked(Owner(k), work[k].list, work[k].mode,
                                 Finishing(work[k].run), work[k].limit)
  PROVE  LooseInv'
<1>1. /\ ClusterInv /\ Consistent(mgr) /\ work[k].pc # "idle" /\ phase = "up"
      /\ OnlyWorkOf(k) /\ ~InBatch(k)'
  BY DEF WatcherInv, ManagerIInv, At, GoesOn, MovesOn, Outside, InBatch
<1>2. work[k].limit \in Nat /\ Owner(k) \in Owners /\ KeyOf(Owner(k)) = k
  BY <1>1, Callable DEF KeyOf, Owner
<1>3. Ages /\ \A c \in Keys : (Over(c)' <=> Over(c)) /\ (Over(c) => GivenUp(c))
  BY SameRunsAge DEF Over, GivenUp
<1>4. CASE UNCHANGED managerVars /\ (work[k].mode = Resume \/ work'[k].pc = "idle")
  <2>1. work'[k].pc \in {"write", "forget"} => GivenUp(k)
    BY <1>4 DEF GoesOn, Resume, Promotion
  <2> QED
    BY <1>1, <1>3, <1>4, <2>1, UnmanagedLoose
<1>5. CASE /\ mgr' = getSemaphore(mgr, work[k].limit)
           /\ AlreadyHandedOff(Owner(k), work[k].mode) \/ work'[k].pc = "idle"
  <2>1. /\ mgr'.admissions = mgr.admissions /\ mgr'.claims = mgr.claims
        /\ TakesNone(mgr, mgr')
    BY <1>1, <1>2, <1>5, GetSemaphoreOK
  <2>2. /\ Tidy(mgr, mgr', Owner(k)) /\ \A o : GaveUp(mgr', o) <=> GaveUp(mgr, o)
    BY <2>1, QueueOnlyTidy
  <2>3. AlreadyHandedOff(Owner(k), work[k].mode) => Unplaced(k)'
    <3> SUFFICES ASSUME AlreadyHandedOff(Owner(k), work[k].mode) PROVE Unplaced(k)'
      OBVIOUS
    <3>1. ~Queued(mgr, k) /\ work[k].mode = Promotion
      BY <1>2 DEF AlreadyHandedOff
    <3>2. ~Holds(mgr, k) /\ \A o \in Owners : mgr.claims[k] # o
      BY <1>1, <3>1, UnqueuedUnclaimed
    <3>3. Placeless(mgr', k, Owner(k))
      BY <2>1, <3>2 DEF Placeless, Loose, TakesNone
    <3>4. ~Startable(k)
      BY <1>1, <1>2, <3>1, LeavingMayNotStart
    <3> QED
      BY <1>1, <1>3, <3>3, <3>4, PlacelessUnplaced
  <2>4. work'[k].pc \in {"write", "forget"} => Unplaced(k)'
    BY <1>5, <2>3
  <2>5. GaveUp(mgr', Owner(k)) => GivenUp(k)
    BY <1>2, <2>2 DEF GivenUp
  <2> QED
    BY <1>1, <1>3, <2>2, <2>4, <2>5, ReconcileLoose DEF Tidy, GoesOn
<1>6. CASE /\ AcquireBlocked(Owner(k), work[k].list, work[k].mode, Finishing(work[k].run),
                             work[k].limit)
           /\ work'[k].pc = "idle"
  <2>1. /\ Admissible(Owner(k), work[k].mode)
        /\ mgr' = prepared(mgr, Owner(k), work[k].list, work[k].mode,
                           Finishing(work[k].run), work[k].limit)
    BY <1>6 DEF AcquireBlocked
  <2>2. /\ Tidy(mgr, mgr', Owner(k))
        /\ GaveUp(mgr', Owner(k)) =>
             GivenUp(k) \/ (Placeless(mgr', k, Owner(k)) /\ ~Startable(k))
    BY <1>1, <2>1, AcquireTidies
  <2>3. GaveUp(mgr', Owner(k)) => GivenUp(k) \/ Unplaced(k)'
    BY <1>1, <1>3, <2>2, PlacelessUnplaced
  <2> QED
    BY <1>1, <1>3, <1>6, <2>2, <2>3, ReconcileLoose DEF Tidy
<1> QED
  BY <1>4, <1>5, <1>6 DEF AcquireNothing, AcquireRefused, NothingToResume

LEMMA TakenHasStartedNone ==
  ASSUME ClusterInv, NEW k \in Keys, TakesBatch(k)
  PROVE  work'[k].started = {}
<1> DEFINE w == work[k]
           x == [w EXCEPT !.pc = "batch", !.started = {}, !.gone = {},
                          !.empty = leases'[k].cands = {}, !.todo = leases'[k].cands \ w.seen,
                          !.failed = leases'[k].cands \cap w.seen # {},
                          !.seen = @ \cup leases'[k].cands, !.attempts = leases'[k].attempts]
<1>1. work \in [Keys -> Work] /\ w \in Work
  BY DEF ClusterInv
<1>2. work' = [work EXCEPT ![k] = x]
  BY DEF TakesBatch
<1> HIDE DEF w
<1>3. x.started = {}
  BY <1>1 DEF Work
<1> HIDE DEF x
<1> QED
  BY <1>1, <1>2, <1>3

LEMMA AcquireWorkLoose ==
  ASSUME WatcherInv, LooseInv, NEW k \in Keys, At(k, "acquire"),
         AcquireWork(k, Owner(k), work[k].list, work[k].mode, Finishing(work[k].run),
                     work[k].limit),
         TakesBatch(k), UNCHANGED <<runs, phase>>
  PROVE  LooseInv'
<1> DEFINE o == Owner(k)
           n == prepared(mgr, o, work[k].list, work[k].mode, Finishing(work[k].run),
                         work[k].limit)
<1>1. /\ ClusterInv /\ work[k].pc # "idle" /\ phase = "up" /\ Admissible(o, work[k].mode)
      /\ mgr' = [n EXCEPT !.admissions[o].busy = TRUE]
  BY DEF WatcherInv, At, AcquireWork
<1>2. /\ Batches(k) /\ work'[k].pc = "batch" /\ work'[k].started = {}
  BY <1>1, AcquireStarts, TakenHasStartedNone
<1>3. /\ OnlyWorkOf(k) /\ Owner(k)' = Owner(k) /\ work'[k].mode = work[k].mode
      /\ work'[k].run = work[k].run /\ o \in Owners
  BY <1>1, <1>2, Callable DEF Batches, Owner
<1>4. Ages /\ \A c \in Keys : (Over(c)' <=> Over(c)) /\ (Over(c) => GivenUp(c))
  BY SameRunsAge DEF Over, GivenUp
<1>5. /\ Consistent(n) /\ n.admissions[o] # NoAdmission
      /\ Tidy(mgr, n, o)
      /\ work[k].mode = Promotion \/ GaveUp(n, o) =>
           GivenUp(k) \/ (Placeless(n, k, o) /\ ~Startable(k))
  BY <1>1, AcquireTidies
<1> HIDE DEF n, o
<1>6. Tidy(n, mgr', o) /\ \A p \in Owners : GaveUp(mgr', p) => GaveUp(n, p)
  BY <1>1, <1>3, <1>5, LeasedTidy
<1>7. Tidy(mgr, mgr', o)
  BY <1>5, <1>6, TidyComposes
<1>8. work[k].mode = Promotion \/ GaveUp(mgr', o) =>
        GivenUp(k) \/ (Placeless(mgr', k, o) /\ ~Startable(k))
  BY <1>3, <1>5, <1>6, PlacelessStays
<1>9. work[k].mode = Promotion \/ GaveUp(mgr', o) => GivenUp(k) \/ Unplaced(k)'
  BY <1>2, <1>3, <1>4, <1>8, PlacelessUnplaced DEF o
<1>10. work'[k].run.state = StateCompleted => Over(k)'
  BY <1>1, <1>3, <1>4 DEF LooseInv
<1> QED
  BY <1>1, <1>2, <1>3, <1>4, <1>7, <1>9, <1>10, ReconcileLoose DEF Tidy, o

LEMMA AcquireLoose ==
  ASSUME WatcherInv, LooseInv, NEW k \in Keys, Acquire(k)
  PROVE  LooseInv'
<1>1. /\ At(k, "acquire") /\ UNCHANGED <<runs, phase>>
      /\ ClusterInv /\ work[k].pc # "idle"
  BY DEF Acquire, At, WatcherInv
<1>2. CASE AcquireNothing(Owner(k), work[k].mode, work[k].limit) /\ proceed(k)
  <2>1. GoesOn(k)
    BY <1>1, <1>2, ProceedGoesOn
  <2> QED
    BY <1>1, <1>2, <2>1, AcquireIdlyLoose
<1>3. CASE /\ \/ AcquireRefused(Owner(k), work[k].mode, work[k].limit)
              \/ AcquireBlocked(Owner(k), work[k].list, work[k].mode,
                                Finishing(work[k].run), work[k].limit)
           /\ end(k)
  <2>1. GoesOn(k)
    BY <1>1, <1>3, EndGoesOn
  <2>2. work'[k].pc = "idle"
    BY <1>1, <1>3, IdleIsWork DEF end, ClusterInv
  <2> QED
    BY <1>1, <1>3, <2>1, <2>2, AcquireIdlyLoose
<1>4. CASE /\ AcquireWork(k, Owner(k), work[k].list, work[k].mode, Finishing(work[k].run),
                          work[k].limit)
           /\ TakesBatch(k)
  BY <1>1, <1>4, AcquireWorkLoose
<1> QED
  BY <1>2, <1>3, <1>4 DEF Acquire, endWithError, TakesBatch

(* The end of a batch leaves the slots of the runs it started to them: no  *)
(* key whose place was given up is one of these.                           *)
LEMMA FinishBatchLoose ==
  ASSUME WatcherInv, SlotInv, LooseInv, NEW k \in Keys, FinishBatch(k)
  PROVE  LooseInv'
<1> DEFINE o == Owner(k)
           live == LiveOf(k)
<1>1. /\ ClusterInv /\ WorkMatches(k) /\ phase = "up" /\ UNCHANGED <<runs, phase>>
      /\ InBatch(k)
  BY DEF WatcherInv, SlotInv, FinishBatch, At, InBatch
<1>2. /\ mgr.queue # NoQueue
      /\ Leaves(mgr, mgr', o, live, work[k].started, work[k].gone, work[k].attempts)
      /\ \A p \in Owners : GaveUp(mgr', p) => GaveUp(mgr, p)
  BY <1>1, FinishRecords
<1>3. o \in Owners /\ KeyOf(o) = k
  BY <1>1, BatchIsLeased DEF KeyOf, Owner
<1> HIDE DEF live
<1>4. /\ mgr'.queue.running \subseteq mgr.queue.running
      /\ \A c \in live : c \in work[k].gone => c \notin mgr'.queue.running
      /\ \A c \in Keys : mgr'.claims[c] = IF c \in live \cap (work[k].started \cup work[k].gone)
                                          THEN NoOwner ELSE mgr.claims[c]
  BY <1>2 DEF Leaves
<1>5. \A c \in live : mgr.claims[c] = o
  BY DEF live, LiveOf
<1>6. ASSUME NEW c \in Keys, Loose(mgr', c) PROVE Loose(mgr, c) \/ ~GivenUp(c)
  <2>1. Holds(mgr, c)
    BY <1>2, <1>4, <1>6 DEF Loose, Holds
  <2>2. CASE c \in live \cap (work[k].started \cup work[k].gone)
    <3>1. c \in work[k].started /\ mgr.claims[c] = o
      BY <1>4, <1>5, <1>6, <2>2 DEF Loose, Holds
    <3> QED
      BY <1>1, <3>1 DEF LooseInv, Unplaced
  <2>3. CASE c \notin live \cap (work[k].started \cup work[k].gone)
    BY <1>4, <1>6, <2>1, <2>3 DEF Loose
  <2> QED
    BY <2>2, <2>3
<1>7. \A c \in Keys, p \in Owners \ {o} : mgr'.claims[c] = p => mgr.claims[c] = p
  BY <1>4, OwnersAreSome
<1>8. GoesOn(k) /\ OnlyWorkOf(k) /\ ~InBatch(k)'
  BY <1>1, FinishBatchGoesOn DEF GoesOn, MovesOn, Outside, InBatch
<1>9. Ages /\ \A c \in Keys : (Over(c)' <=> Over(c)) /\ (Over(c) => GivenUp(c))
  BY <1>1, SameRunsAge DEF Over, GivenUp
<1>10. GaveUp(mgr', o) => GivenUp(k)
  BY <1>2, <1>3 DEF GivenUp
<1>11. work'[k].pc \in {"write", "forget"} => GivenUp(k)
  BY <1>1, <1>8 DEF GoesOn, GivenUp
<1>12. work'[k].pc # "idle" /\ work'[k].run.state = StateCompleted => Over(k)'
  BY <1>8, <1>9 DEF GoesOn
<1> QED
  BY <1>1, <1>2, <1>6, <1>7, <1>8, <1>9, <1>10, <1>11, <1>12, ReconcileLoose

(* The steps of a batch: only a run that may start, or just did, is one    *)
(* the worker counts as started.                                           *)
LEMMA BatchLoose ==
  ASSUME WatcherInv, LooseInv, NEW k \in Keys, InBatch(k), Batches(k), Ages,
         UNCHANGED managerVars, phase' = phase, \A c \in Keys : Over(c)' <=> Over(c),
         \A c \in work'[k].started : c \in work[k].started \/ (c \in Keys /\ Startable(c))
  PROVE  LooseInv'
<1>1. /\ ClusterInv /\ work[k].pc # "idle" /\ phase = "up" /\ mgr' = mgr
      /\ Owner(k) \in Owners
  BY Callable DEF WatcherInv, InBatch, ClusterInv, managerVars
<1>2. /\ OnlyWorkOf(k) /\ Owner(k)' = Owner(k) /\ InBatch(k)'
      /\ work'[k].run = work[k].run /\ work'[k].mode = work[k].mode
      /\ work'[k].pc \notin {"write", "forget"}
  BY DEF Batches, Owner, InBatch
<1>3. \A c \in Keys : Over(c) => GivenUp(c)
  BY DEF GivenUp
<1>4. \A c \in Keys : Startable(c) => ~GivenUp(c)
  BY DEF LooseInv, Unplaced
<1>5. /\ GaveUp(mgr', Owner(k)) => GivenUp(k)
      /\ work[k].mode = Promotion => GivenUp(k)
  BY <1>1 DEF GivenUp, KeyOf, Owner
<1>6. work'[k].run.state = StateCompleted => Over(k)'
  BY <1>1, <1>2 DEF LooseInv
<1> QED
  BY <1>1, <1>2, <1>3, <1>4, <1>5, <1>6, ReconcileLoose

Judged(k, c, outcome) ==
  \E failed \in BOOLEAN : work' = [work EXCEPT ![k] = result(k, c, outcome, failed)]

LEMMA ResultLoose ==
  ASSUME WatcherInv, LooseInv, NEW k \in Keys, InBatch(k), Ages, UNCHANGED managerVars,
         phase' = phase, \A d \in Keys : Over(d)' <=> Over(d),
         NEW c \in Keys, NEW outcome, Judged(k, c, outcome),
         outcome = "started" => Startable(c)
  PROVE  LooseInv'
<1> PICK failed \in BOOLEAN : work' = [work EXCEPT ![k] = result(k, c, outcome, failed)]
  BY DEF Judged
<1> DEFINE x == result(k, c, outcome, failed)
<1>1. ClusterInv /\ work \in [Keys -> Work] /\ work[k] \in Work
  BY DEF WatcherInv, ClusterInv
<1>2. x.started = IF outcome = "started" THEN work[k].started \cup {c} ELSE work[k].started
  BY <1>1 DEF result, Work
<1>3. Batches(k)
  BY <1>1, ResultBatches DEF Ends
<1> HIDE DEF x
<1>4. work'[k] = x
  BY <1>1 DEF x
<1>5. \A d \in work'[k].started : d \in work[k].started \/ (d \in Keys /\ Startable(d))
  BY <1>2, <1>4
<1> QED
  BY <1>3, <1>5, BatchLoose

LEMMA SameRunsSameOver ==
  ASSUME UNCHANGED runs
  PROVE  \A c \in Keys : Over(c)' <=> Over(c)
BY DEF Over

LEMMA StartCandidateLoose ==
  ASSUME WatcherInv, LooseInv, NEW k \in Keys, NEW c \in Keys, StartCandidate(k, c)
  PROVE  LooseInv'
<1>1. /\ ClusterInv /\ InBatch(k) /\ UNCHANGED managerVars /\ UNCHANGED <<runs, phase>>
  BY DEF WatcherInv, StartCandidate, At, InBatch
<1>2. Ages /\ \A d \in Keys : Over(d)' <=> Over(d)
  BY <1>1, SameRunsAge, SameRunsSameOver
<1>3. CASE work' = [work EXCEPT ![k] = result(k, c, "gone", FALSE)]
  <2>1. Judged(k, c, "gone")
    BY <1>3 DEF Judged
  <2> QED
    BY <1>1, <1>2, <2>1, ResultLoose
<1>4. CASE work' = [work EXCEPT ![k] =
             [[work[k] EXCEPT !.attempts = @ \cup {<<c, runs[c].uid>>}]
                EXCEPT !.pc = "answer", !.trying = c]]
  <2> DEFINE w == work[k]
             x == [[w EXCEPT !.attempts = @ \cup {<<c, runs[c].uid>>}]
                     EXCEPT !.pc = "answer", !.trying = c]
  <2>1. work \in [Keys -> Work] /\ w \in Work /\ Batches(k)
    BY <1>1, StartCandidateStep DEF ClusterInv
  <2> HIDE DEF w
  <2>2. x.started = w.started
    BY <2>1 DEF Work
  <2> HIDE DEF x
  <2>3. work'[k] = x
    BY <1>4, <2>1 DEF x, w
  <2>4. \A d \in work'[k].started : d \in work[k].started
    BY <2>2, <2>3 DEF w
  <2> QED
    BY <1>1, <1>2, <2>1, <2>4, BatchLoose
<1> QED
  BY <1>3, <1>4 DEF StartCandidate

LEMMA CandidateUnreadLoose ==
  ASSUME WatcherInv, LooseInv, NEW k \in Keys, NEW c \in Keys, CandidateUnread(k, c)
  PROVE  LooseInv'
<1>1. /\ InBatch(k) /\ UNCHANGED managerVars /\ UNCHANGED <<runs, phase>>
      /\ Judged(k, c, "retry")
  BY DEF CandidateUnread, At, InBatch, Judged
<1>2. Ages /\ \A d \in Keys : Over(d)' <=> Over(d)
  BY <1>1, SameRunsAge, SameRunsSameOver
<1> QED
  BY <1>1, <1>2, ResultLoose

(* A start leaves no run over that was not, and begins none that was.      *)
LEMMA StartWriteSameOver ==
  ASSUME ClusterInv, NEW c \in inFlight, startWrite(c)
  PROVE  \A d \in Keys : Over(d)' <=> Over(d)
<1>1. /\ Startable(c) /\ c \in Keys
      /\ runs'[c] = [runs[c] EXCEPT !.state = StateStarted,
                                    !.spec = IF @ = Pending THEN None ELSE @]
      /\ \A j \in Keys \ {c} : runs'[j] = runs[j]
      /\ \A j \in Keys : Carries(j)
  BY StartWriteChanges DEF ClusterInv
<1>2. runs[c] # NoRun /\ runs[c] \in Run /\ runs[c].state # StateCompleted
  BY <1>1 DEF Startable, noLongerStartable, ClusterInv
<1>3. runs'[c] # NoRun /\ runs'[c].state = StateStarted
  BY <1>1, <1>2 DEF Carries, Run
<1>4. ~Over(c) /\ ~Over(c)'
  BY <1>2, <1>3 DEF Over, StateStarted, StateCompleted
<1>5. \A d \in Keys \ {c} : Over(d)' <=> Over(d)
  BY <1>1 DEF Over
<1> QED
  BY <1>4, <1>5

LEMMA ConfirmedLoose ==
  ASSUME WatcherInv, LooseInv, NEW k \in Keys, InBatch(k), Ages, UNCHANGED managerVars,
         phase' = phase, \A d \in Keys : Over(d)' <=> Over(d),
         NEW c \in Keys, confirmed(k, c), Startable(c)
  PROVE  LooseInv'
<1>1. Judged(k, c, "started")
  BY DEF confirmed, Judged
<1> QED
  BY <1>1, ResultLoose

LEMMA StartAnsweredLoose ==
  ASSUME WatcherInv, LooseInv, NEW k \in Keys, StartAnswered(k)
  PROVE  LooseInv'
<1> DEFINE c == work[k].trying
<1>1. /\ ClusterInv /\ InBatch(k) /\ UNCHANGED managerVars /\ phase' = phase
      /\ c \in inFlight /\ startWrite(c) /\ confirmed(k, c)
  BY DEF WatcherInv, StartAnswered, At, InBatch
<1>2. c \in Keys /\ Startable(c)
  BY <1>1 DEF ClusterInv
<1> HIDE DEF c
<1>3. Ages /\ \A d \in Keys : Over(d)' <=> Over(d)
  BY <1>1, StartWriteAges, StartWriteSameOver
<1> QED
  BY <1>1, <1>2, <1>3, ConfirmedLoose

LEMMA StartUnansweredLoose ==
  ASSUME WatcherInv, LooseInv, NEW k \in Keys, StartUnanswered(k)
  PROVE  LooseInv'
<1> DEFINE x == [work[k] EXCEPT !.pc = "readback"]
<1>1. /\ ClusterInv /\ InBatch(k) /\ UNCHANGED managerVars /\ UNCHANGED <<runs, phase>>
      /\ work' = [work EXCEPT ![k] = x]
  BY DEF WatcherInv, StartUnanswered, At, InBatch
<1>2. /\ Batches(k) /\ Ages /\ work \in [Keys -> Work]
      /\ \A d \in Keys : Over(d)' <=> Over(d)
  BY <1>1, StartUnansweredStep, SameRunsAge, SameRunsSameOver DEF ClusterInv
<1>3. x.started = work[k].started
  BY <1>2 DEF Work
<1> HIDE DEF x
<1>4. work'[k] = x
  BY <1>1, <1>2
<1>5. \A d \in work'[k].started : d \in work[k].started
  BY <1>3, <1>4
<1> QED
  BY <1>1, <1>2, <1>5, BatchLoose

LEMMA ReadbackLoose ==
  ASSUME WatcherInv, SlotInv, LooseInv, NEW k \in Keys, Readback(k)
  PROVE  LooseInv'
<1> DEFINE c == work[k].trying
           may == runs[c] # NoRun /\ ~noLongerStartable(runs[c])
<1>1. /\ ClusterInv /\ InBatch(k) /\ WorkMatches(k) /\ work[k].pc = "readback"
      /\ UNCHANGED managerVars /\ UNCHANGED <<runs, phase>>
      /\ \/ Judged(k, c, "gone") \/ Judged(k, c, "retry")
         \/ may /\ confirmed(k, c)
  BY DEF WatcherInv, Readback, At, InBatch, SlotInv, Judged
<1>2. c \in Keys
  BY <1>1, BatchIsLeased DEF WorkMatches
<1>3. may => Startable(c)
  BY DEF Startable
<1>4. Ages /\ \A d \in Keys : Over(d)' <=> Over(d)
  BY <1>1, SameRunsAge, SameRunsSameOver
<1> HIDE DEF c, may
<1>5. CASE may /\ confirmed(k, c)
  BY <1>1, <1>2, <1>3, <1>4, <1>5, ConfirmedLoose
<1>6. CASE Judged(k, c, "gone") \/ Judged(k, c, "retry")
  BY <1>1, <1>2, <1>4, <1>6, ResultLoose
<1> QED
  BY <1>1, <1>5, <1>6

----------------------------------------------------------------------------
(* A new process gives the slots it can to the runs that are started.      *)
LEMMA CrashLoose ==
  ASSUME WatcherInv, Crash
  PROVE  LooseInv'
<1>1. /\ mgr' = NewManager /\ work' = [k \in Keys |-> Idle] /\ phase' = "started"
      /\ runs' = runs
  BY DEF Crash, Restart
<1>2. /\ NewManager.queue = NoQueue /\ \A o \in Owners : NewManager.admissions[o] = NoAdmission
  BY DEF NewManager
<1>3. \A k \in Keys : work'[k].pc = "idle"
  BY <1>1, IdleIsWork
<1>4. ASSUME NEW k \in Keys, GivenUp(k)' PROVE Unplaced(k)'
  <2>1. Over(k)'
    BY <1>1, <1>2, <1>3, <1>4 DEF GivenUp, GaveUp, InBatch
  <2>2. ~Startable(k)'
    BY <2>1 DEF Over, Startable, noLongerStartable
  <2> QED
    BY <1>1, <1>2, <1>3, <2>2 DEF Unplaced, Loose, Holds, InBatch
<1> QED
  BY <1>1, <1>2, <1>3, <1>4 DEF LooseInv

LEMMA RebuildLoose ==
  ASSUME WatcherInv, LooseInv, RebuildStarted \/ RebuildQueued
  PROVE  LooseInv'
<1>1. /\ ClusterInv /\ ManagerIInv /\ UNCHANGED <<runs, work>>
      /\ phase # "up" /\ phase' \in {"up", "queued"}
  BY DEF WatcherInv, ClusterInv, RebuildStarted, RebuildQueued
<1>2. /\ \A k \in Keys : work[k].pc = "idle"
      /\ \A o \in Owners : mgr.admissions[o] = NoAdmission
  BY <1>1 DEF ClusterInv, LooseInv
<1>3. mgr'.admissions = mgr.admissions
  BY <1>1, ListingKeepsAdmissions DEF RebuildStarted, RebuildQueued, managerVars
<1>4. ASSUME NEW k \in Keys, Over(k) PROVE ~Startable(k) /\ ~Loose(mgr, k)
  BY <1>4 DEF LooseInv, GivenUp, Unplaced
<1>5. repository \in Limits /\ ~UNCHANGED managerVars => repository \in Nat
  BY QueueManagerAssumption
<1>6. ~UNCHANGED managerVars => repository \in Nat
  BY <1>1, <1>5 DEF ClusterInv, RebuildStarted, RebuildQueued, Initialised
<1>7. ASSUME NEW k \in Keys, Over(k) PROVE ~Loose(mgr', k)
  <2>1. CASE UNCHANGED managerVars
    BY <1>4, <1>7, <2>1 DEF managerVars
  <2>2. CASE RebuildStarted /\ ~UNCHANGED managerVars
    <3> DEFINE specs == {Pending, None, Cancelled}
               set == {j \in Keys : runs[j] # NoRun /\ runs[j].state = StateStarted
                                    /\ runs[j].spec \in specs}
               list == InState(StateStarted, specs)
    <3>1. list = Filtered(Order, set) /\ set \in SUBSET Keys
      BY DEF InState
    <3>2. k \notin set
      BY <1>7 DEF Over, StateStarted, StateCompleted
    <3>3. /\ mgr = NewManager
          /\ mgr' = acquireUnowned(listed(getSemaphore(mgr, repository), list), repository)
      BY <2>2 DEF RebuildStarted, AddListToRunningQueue, LooseInv
    <3> HIDE DEF set, list
    <3>4. list \in Seq(set)
      BY <3>1, FilterAssumption
    <3>5. \A j \in Keys : Holds(mgr', j) => j \in set
      <4>1. \A j \in Keys : Queued(mgr', j) => j \in set
        BY <1>6, <2>2, <3>1, <3>3, <3>4, RebuiltQueue
      <4> QED
        BY <4>1 DEF Queued, Holds, Tracked
    <3> QED
      BY <3>2, <3>5 DEF Loose
  <2>3. CASE RebuildQueued /\ ~UNCHANGED managerVars
    <3> DEFINE list == InState(StateQueued, {Pending})
               l == getSemaphore(mgr, repository)
    <3>1. mgr' = listed(l, list)
      BY <2>3 DEF RebuildQueued, AddToPendingQueue
    <3>3. list \in Seq(Keys)
      BY ListedRuns
    <3> HIDE DEF list
    <3>4. Consistent(mgr) /\ repository \in Nat
      BY <1>1, <1>6, <2>3 DEF ManagerIInv
    <3>5. /\ Consistent(l) /\ l.queue # NoQueue
          /\ l.admissions = mgr.admissions /\ l.claims = mgr.claims /\ TakesNone(mgr, l)
      BY <3>4, GetSemaphoreOK
    <3> HIDE DEF l
    <3>6. mgr'.claims = l.claims /\ TakesNone(l, mgr')
      BY <3>1, <3>3, <3>5, ListedOK
    <3> QED
      BY <1>4, <1>7, <3>5, <3>6 DEF Loose, TakesNone
  <2> QED
    BY <2>1, <2>2, <2>3
<1>8. ASSUME NEW k \in Keys, GivenUp(k)' PROVE Over(k) /\ Unplaced(k)'
  <2>1. Over(k)
    BY <1>1, <1>2, <1>3, <1>8 DEF GivenUp, GaveUp, InBatch, Over
  <2>2. ~Startable(k)' /\ ~Loose(mgr', k)
    BY <1>1, <1>4, <1>7, <2>1 DEF Startable
  <2> QED
    BY <1>1, <1>2, <2>1, <2>2 DEF Unplaced, InBatch
<1> QED
  BY <1>1, <1>2, <1>3, <1>8 DEF LooseInv

LEMMA UserAndTektonLoose ==
  ASSUME WatcherInv, LooseInv, NEW c \in Keys, TektonFinishes(c) \/ Cancel(c) \/ Delete(c)
  PROVE  LooseInv'
<1>1. /\ UNCHANGED managerVars /\ UNCHANGED <<work, phase>> /\ Ages
      /\ \A d \in Keys : Over(d)' <=> Over(d)
  BY UserAndTektonWrites
<1> QED
  BY <1>1, EnvironmentLoose DEF managerVars

LEMMA CommitLoose ==
  ASSUME WatcherInv, LooseInv, NEW c \in Keys, Commit(c) \/ Drop(c)
  PROVE  LooseInv'
<1>1. UNCHANGED <<mgr, work, phase>> /\ c \in inFlight /\ ClusterInv
  BY DEF Commit, Drop, managerVars, WatcherInv
<1>2. CASE Commit(c)
  <2>1. startWrite(c)
    BY <1>2 DEF Commit
  <2>2. Ages /\ \A d \in Keys : Over(d)' <=> Over(d)
    BY <1>1, <2>1, StartWriteAges, StartWriteSameOver
  <2> QED
    BY <1>1, <2>2, EnvironmentLoose
<1>3. CASE Drop(c)
  <2>1. UNCHANGED runs
    BY <1>3 DEF Drop
  <2> QED
    BY <1>1, <2>1, SameRunsAge, SameRunsSameOver, EnvironmentLoose
<1> QED
  BY <1>2, <1>3

LEMMA InitLoose == Init => LooseInv
<1> SUFFICES ASSUME Init PROVE LooseInv
  OBVIOUS
<1>1. PICK uid \in UIDs : runs = [k \in Keys |-> newRun(uid)]
  BY DEF Init
<1>2. mgr = NewManager /\ work = [k \in Keys |-> Idle] /\ phase = "up"
  BY DEF Init, ManagerInit
<1>3. \A k \in Keys : work[k].pc = "idle"
  BY <1>2, IdleIsWork
<1>4. ASSUME NEW k \in Keys PROVE ~GivenUp(k)
  <2>1. runs[k] = newRun(uid)
    BY <1>1
  <2>2. newRun(uid) # NoRun /\ newRun(uid).state # StateCompleted
    <3>1. IsRun(newRun(uid))
      BY DEF IsRun, newRun
    <3>2. newRun(uid) # NoRun
      BY <3>1, WatcherAssumption
    <3> QED
      BY <3>2 DEF newRun, StateQueued, StateCompleted
  <2>3. ~Over(k)
    BY <2>1, <2>2 DEF Over
  <2>4. \A o \in Owners : ~GaveUp(mgr, o)
    BY <1>2, NewManagerOK DEF GaveUp
  <2> QED
    BY <1>3, <2>3, <2>4 DEF GivenUp, InBatch
<1> QED
  BY <1>2, <1>3, <1>4 DEF LooseInv

LEMMA NextLoose ==
  ASSUME Undisturbed, WatcherInv, SlotInv, LooseInv, Next
  PROVE  LooseInv'
<1>1. ASSUME NEW k \in Keys, Reconcile(k)
      PROVE  LooseInv'
  <2>1. ASSUME NEW c \in Keys, StartCandidate(k, c)
        PROVE  LooseInv'
    BY <2>1, StartCandidateLoose
  <2>2. ~(BeginWithoutRepository(k) \/ ListWithoutRepository(k) \/ ReportWithoutRepository(k))
    BY DEF SlotInv, BeginWithoutRepository, ListWithoutRepository, ReportWithoutRepository
  <2> QED
    BY <1>1, <2>1, <2>2, BeginLoose, TerminalWriteLoose, ForgetOwnerLoose, AcquireLoose,
       FinishBatchLoose, StartAnsweredLoose, StartUnansweredLoose, ReadbackLoose
       DEF Reconcile
<1>2. ASSUME NEW k \in Keys, Fail(k) \/ TerminalWriteUnanswered(k)
      PROVE  LooseInv'
  BY <1>2, BeginLoose, TerminalWriteLoose
<1>3. ASSUME NEW k \in Keys, NEW c \in Keys, CandidateUnread(k, c)
      PROVE  LooseInv'
  BY <1>3, CandidateUnreadLoose
<1>4. ASSUME NEW c \in Keys, Commit(c) \/ Drop(c) \/ TektonFinishes(c) \/ Cancel(c) \/ Delete(c)
      PROVE  LooseInv'
  BY <1>4, CommitLoose, UserAndTektonLoose
<1>5. ASSUME NEW c \in Keys, NEW uid \in UIDs, Recreate(c, uid)
      PROVE  LooseInv'
  BY <1>5 DEF Undisturbed, Recreate
<1>6. ASSUME NEW l \in Limits \cup Removals, ChangeRepository(l)
      PROVE  LooseInv'
  <2>1. UNCHANGED <<mgr, work, phase>> /\ UNCHANGED runs
    BY <1>6 DEF ChangeRepository, managerVars
  <2> QED
    BY <2>1, SameRunsAge, SameRunsSameOver, EnvironmentLoose
<1>7. CASE TakeOver
  BY <1>7 DEF Undisturbed, TakeOver
<1> QED
  BY <1>1, <1>2, <1>3, <1>4, <1>5, <1>6, <1>7, CrashLoose, RebuildLoose DEF Next

LEMMA LooseInvariance ==
  ASSUME Undisturbed
  PROVE  Spec => [](WatcherInv /\ LooseInv)
<1>1. Init => LooseInv
  BY InitLoose
<1>2. SlotsInv /\ SlotsInv' /\ LooseInv /\ [Next]_vars => LooseInv'
  <2>1. ASSUME WatcherInv, SlotInv, LooseInv, UNCHANGED vars
        PROVE  LooseInv'
    <3>1. UNCHANGED <<mgr, work, phase>> /\ UNCHANGED runs
      BY <2>1 DEF vars
    <3> QED
      BY <2>1, <3>1, SameRunsAge, SameRunsSameOver, EnvironmentLoose
  <2> QED
    BY <2>1, NextLoose DEF SlotsInv
<1>3. SlotsInv => WatcherInv
  BY DEF SlotsInv
<1> QED
  BY <1>1, <1>2, <1>3, SlotInvariance, PTL DEF Spec

(* While the Repository stays and no run is made again under the name of   *)
(* another, a slot that no admission is starting a run in is the slot of a *)
(* run that is not over, for any number of runs, lost answers, replayed    *)
(* handoffs, limit changes and restarts (queue_pipelineruns.go:49).        *)
THEOREM SlotsStayWithRuns ==
  ASSUME Undisturbed
  PROVE  Spec => []SlotsBelongToRuns
<1>1. ASSUME WatcherInv, LooseInv
      PROVE  SlotsBelongToRuns
  <2> SUFFICES ASSUME mgr.queue # NoQueue, NEW k \in mgr.queue.running, mgr.claims[k] = NoOwner
               PROVE  runs[k] # NoRun /\ HasPlace(runs[k])
    BY DEF SlotsBelongToRuns
  <2>1. mgr.queue.running \in SUBSET Keys
    BY <1>1, Fields DEF WatcherInv, ManagerIInv, Consistent, Typed, Sound
  <2>2. k \in Keys /\ Loose(mgr, k)
    BY <2>1 DEF Loose, Holds
  <2>3. ~GivenUp(k)
    BY <1>1, <2>2 DEF LooseInv, Unplaced
  <2> QED
    BY <2>2, <2>3 DEF GivenUp, Over, HasPlace
<1>2. WatcherInv /\ LooseInv => SlotsBelongToRuns
  BY <1>1
<1> QED
  BY LooseInvariance, <1>2, PTL

(* With a limit that nobody changes, what the manager holds is the         *)
(* cluster's, through restarts too: the runs that are started are within   *)
(* the limit, and a slot nobody is working on is the slot of a run.        *)
THEOREM QueueAlwaysFollowsTheRuns ==
  ASSUME Steady
  PROVE  Spec => []QueueFollowsTheRuns
<1>1. Spec => []RunsWithinLimit
  BY RunsStayWithinLimit
<1>2. Spec => []SlotsBelongToRuns
  BY SlotsStayWithRuns DEF Steady
<1> QED
  BY <1>1, <1>2, WatcherTyped, PTL DEF QueueFollowsTheRuns

----------------------------------------------------------------------------
(* The watcher implements RunQueue.                                        *)

\* What may become of the run of a key: it is started, told to stop, over.
Moves(c, run) ==
  \/ run = runs[c]
  \/ /\ Startable(c) /\ run # NoRun
     /\ run.state = StateStarted /\ ~Finishing(run)
  \/ /\ runs[c] # NoRun /\ run # NoRun
     /\ run.state = runs[c].state /\ Finishing(run)
  \/ /\ runs[c] # NoRun /\ Finishing(runs[c])
     /\ run # NoRun => run.state = StateCompleted

Started(run) ==
  [run EXCEPT !.state = StateStarted, !.spec = IF @ = Pending THEN None ELSE @]

LEMMA StartedRun ==
  ASSUME NEW run \in Run
  PROVE  /\ Started(run) # NoRun /\ Started(run).state = StateStarted
         /\ Finishing(Started(run)) <=> Finishing(run)
<1>1. Started(run) \in Run
  BY RunChanges, Zenon DEF Started
<1>2. Started(run) # NoRun
  BY <1>1, NoRunIsNone
<1>3. /\ Started(run).state = StateStarted
      /\ Started(run).done = run.done /\ Started(run).deleting = run.deleting
      /\ Started(run).spec = IF run.spec = Pending THEN None ELSE run.spec
  BY DEF Run, Started
<1>4. Pending # Cancelled /\ None # Cancelled
  BY Zenon DEF Pending, None, Cancelled
<1> QED
  BY <1>2, <1>3, <1>4 DEF Finishing

LEMMA StartMoves ==
  ASSUME ClusterInv, NEW c \in inFlight, startWrite(c)
  PROVE  c \in Keys /\ runs' = [runs EXCEPT ![c] = runs'[c]] /\ Moves(c, runs'[c])
<1>1. c \in Keys /\ Startable(c) /\ runs[c] \in Run
  BY DEF ClusterInv, Startable
<1>2. runs' = [runs EXCEPT ![c] = Started(runs[c])]
  BY DEF startWrite, write, Started
<1>3. runs'[c] = Started(runs[c])
  BY <1>1, <1>2 DEF ClusterInv
<1>4. ~Finishing(runs[c])
  BY <1>1 DEF Startable, noLongerStartable
<1> QED
  BY <1>1, <1>2, <1>3, <1>4, StartedRun DEF Moves

LEMMA WriteMovesRun ==
  ASSUME ClusterInv, NEW c \in Keys, NEW run, write(c, run), Moves(c, run)
  PROVE  runs' = [runs EXCEPT ![c] = runs'[c]] /\ Moves(c, runs'[c])
<1>1. runs' = [runs EXCEPT ![c] = run] /\ runs'[c] = run
  BY DEF write, ClusterInv
<1> QED
  BY <1>1

LEMMA OneRunMoves ==
  ASSUME WatcherInv, Undisturbed, Next
  PROVE  \/ UNCHANGED runs
         \/ \E c \in Keys : runs' = [runs EXCEPT ![c] = runs'[c]] /\ Moves(c, runs'[c])
<1>1. ClusterInv
  BY DEF WatcherInv
<1>2. ASSUME NEW k \in Keys,
             \/ Begin(k) \/ ListRuns(k) \/ Report(k)
             \/ BeginWithoutRepository(k) \/ ListWithoutRepository(k)
             \/ ReportWithoutRepository(k)
             \/ Acquire(k) \/ FinishBatch(k) \/ StartUnanswered(k) \/ Readback(k)
             \/ Fail(k) \/ Drop(k)
      PROVE  UNCHANGED runs
  BY <1>2, Zenon DEF Begin, ListRuns, Report, BeginWithoutRepository, ListWithoutRepository,
     ReportWithoutRepository, Acquire, FinishBatch, StartUnanswered, Readback, Fail, Drop
<1>3. ASSUME NEW k \in Keys, NEW c \in Keys, StartCandidate(k, c) \/ CandidateUnread(k, c)
      PROVE  UNCHANGED runs
  BY <1>3 DEF StartCandidate, CandidateUnread
<1>4. ASSUME \/ Crash \/ RebuildStarted \/ RebuildQueued \/ TakeOver
             \/ \E l \in Limits \cup Removals : ChangeRepository(l)
      PROVE  UNCHANGED runs
  BY <1>4 DEF Crash, RebuildStarted, RebuildQueued, TakeOver, ChangeRepository
<1>5. ASSUME NEW k \in Keys, StartAnswered(k) \/ Commit(k)
      PROVE  \E c \in Keys : runs' = [runs EXCEPT ![c] = runs'[c]] /\ Moves(c, runs'[c])
  <2>1. PICK c \in inFlight : startWrite(c)
    BY <1>5 DEF StartAnswered, Commit
  <2> QED
    BY <1>1, <2>1, StartMoves
<1>6. ASSUME NEW c \in Keys, TerminalWrite(c) \/ TerminalWriteUnanswered(c)
      PROVE  runs' = [runs EXCEPT ![c] = runs'[c]] /\ Moves(c, runs'[c])
  <2>1. At(c, "write") /\ write(c, [runs[c] EXCEPT !.state = StateCompleted])
    BY <1>6 DEF TerminalWrite, TerminalWriteUnanswered
  <2>2. runs[c] # NoRun /\ Finishing(runs[c]) /\ runs[c] \in Run
    BY <1>1, <2>1 DEF At, ClusterInv, Knows
  <2>3. [runs[c] EXCEPT !.state = StateCompleted].state = StateCompleted
    BY <2>2 DEF Run
  <2> QED
    BY <1>1, <2>1, <2>2, <2>3, WriteMovesRun DEF Moves
<1>7. ASSUME NEW c \in Keys, ForgetOwner(c)
      PROVE  \/ UNCHANGED runs
             \/ runs' = [runs EXCEPT ![c] = runs'[c]] /\ Moves(c, runs'[c])
  <2>1. UNCHANGED runs \/ (work[c].pc = "forget" /\ work[c].run.deleting /\ write(c, NoRun))
    BY <1>7 DEF ForgetOwner, At
  <2>2. CASE work[c].pc = "forget" /\ work[c].run.deleting /\ write(c, NoRun)
    <3>1. runs[c] # NoRun /\ Finishing(runs[c])
      BY <1>1, <2>2 DEF ClusterInv, Knows, Finishing
    <3> QED
      BY <1>1, <2>2, <3>1, WriteMovesRun DEF Moves
  <2> QED
    BY <2>1, <2>2
<1>8. ASSUME NEW c \in Keys, TektonFinishes(c) \/ Cancel(c) \/ Delete(c)
      PROVE  runs' = [runs EXCEPT ![c] = runs'[c]] /\ Moves(c, runs'[c])
  <2>1. runs[c] # NoRun /\ \/ write(c, [runs[c] EXCEPT !.done = TRUE])
                           \/ write(c, [runs[c] EXCEPT !.spec = Cancelled])
                           \/ write(c, [runs[c] EXCEPT !.deleting = TRUE])
    BY <1>8, Zenon DEF TektonFinishes, Cancel, Delete
  <2>2. runs[c] \in Run
    BY <1>1, <2>1 DEF ClusterInv
  <2>3. PICK run \in Run : run.state = runs[c].state /\ Finishing(run) /\ write(c, run)
    <3>1. CASE write(c, [runs[c] EXCEPT !.done = TRUE])
      BY <2>2, <3>1 DEF Run, Finishing
    <3>2. CASE write(c, [runs[c] EXCEPT !.spec = Cancelled])
      BY <2>2, <3>2 DEF Run, Finishing
    <3>3. CASE write(c, [runs[c] EXCEPT !.deleting = TRUE])
      BY <2>2, <3>3 DEF Run, Finishing
    <3> QED
      BY <2>1, <3>1, <3>2, <3>3
  <2>4. run # NoRun
    BY NoRunIsNone
  <2> QED
    BY <1>1, <2>1, <2>3, <2>4, WriteMovesRun DEF Moves
<1>9. ASSUME NEW c \in Keys, NEW uid \in UIDs PROVE ~Recreate(c, uid)
  BY DEF Recreate, Undisturbed
<1> QED
  BY <1>2, <1>3, <1>4, <1>5, <1>6, <1>7, <1>8, <1>9, Zenon DEF Next, Reconcile

LEMMA StatusMoves ==
  ASSUME ClusterInv, NEW c \in Keys, NEW run, Moves(c, run)
  PROVE  LET old == statusOf(runs[c])
             new == statusOf(run)
         IN  \/ new = old
             \/ old = "waiting" /\ new = "running"
             \/ old \in {"waiting", "running"} /\ new = "stopping"
             \/ old = "stopping" /\ new = "over"
<1>1. StateStarted # StateCompleted /\ StateStarted # StateQueued
  BY DEF StateStarted, StateCompleted, StateQueued
<1>2. CASE Startable(c) /\ run # NoRun /\ run.state = StateStarted /\ ~Finishing(run)
  BY <1>1, <1>2 DEF Startable, noLongerStartable, statusOf, HasPlace
<1>3. CASE runs[c] # NoRun /\ run # NoRun /\ run.state = runs[c].state /\ Finishing(run)
  BY <1>3 DEF statusOf, HasPlace
<1>4. CASE runs[c] # NoRun /\ Finishing(runs[c]) /\ (run # NoRun => run.state = StateCompleted)
  BY <1>4 DEF statusOf, HasPlace
<1> QED
  BY <1>2, <1>3, <1>4 DEF Moves

Statuses == [k \in Keys |-> statusOf(runs[k])]

LEMMA StepsAsPromised ==
  ASSUME WatcherInv, Undisturbed, Next, repository' = repository, repository # NoRepository,
         RunsWithinLimit'
  PROVE  \/ Statuses' = Statuses
         \/ \E k \in Keys : Promise!Start(k) \/ Promise!Stop(k) \/ Promise!Leave(k)
<1>1. ClusterInv /\ ClusterInv'
  BY NextOrderly DEF WatcherInv, Orderly
<1>2. CASE UNCHANGED runs
  BY <1>2 DEF Statuses, statusOf
<1>3. ASSUME NEW c \in Keys, runs' = [runs EXCEPT ![c] = runs'[c]], Moves(c, runs'[c])
      PROVE  \/ Statuses' = Statuses
             \/ Promise!Start(c) \/ Promise!Stop(c) \/ Promise!Leave(c)
  <2> DEFINE old == statusOf(runs[c])
             new == statusOf(runs'[c])
  <2>1. \A k \in Keys \ {c} : runs'[k] = runs[k]
    BY <1>1, <1>3 DEF ClusterInv
  <2>2. Statuses' = [Statuses EXCEPT ![c] = new]
    BY <2>1 DEF Statuses
  <2>3. \/ new = old
        \/ old = "waiting" /\ new = "running"
        \/ old \in {"waiting", "running"} /\ new = "stopping"
        \/ old = "stopping" /\ new = "over"
    BY <1>1, <1>3, StatusMoves
  <2>4. CASE new = old
    BY <2>2, <2>4 DEF Statuses
  <2>5. CASE old = "waiting" /\ new = "running"
    <3> DEFINE with == {k \in Keys : Active(k)}
    <3>1. ~Active(c) /\ Active(c)'
      BY <2>5 DEF statusOf, HasPlace, Active
    <3>2. with' = with \cup {c} /\ c \notin with
      BY <2>1, <3>1 DEF Active
    <3>3. IsFiniteSet(with)
      BY FS_Subset, AdmissionsAssumption
    <3>4. Cardinality(with') = Cardinality(with) + 1 /\ Cardinality(with) \in Nat
      <4> HIDE DEF with
      <4> QED
        BY <3>2, <3>3, FS_AddElement, FS_CardinalityType
    <3>5. repository # 0 => Cardinality(with) < repository
      <4>1. repository # 0 => Cardinality(with') <= repository
        BY DEF RunsWithinLimit
      <4>2. repository \in Nat
        BY <1>1, QueueManagerAssumption DEF ClusterInv
      <4> HIDE DEF with
      <4> QED
        BY <3>4, <4>1, <4>2
    <3>6. \A k \in Keys : Active(k) <=> statusOf(runs[k]) = "running"
      BY DEF Active, statusOf, HasPlace, StateStarted, StateCompleted
    <3>7. Promise!With("running") = with
      BY <3>6 DEF Promise!With
    <3> HIDE DEF with
    <3>8. Statuses' = [Statuses EXCEPT ![c] = "running"] /\ Statuses[c] = "waiting"
      BY <2>2, <2>5 DEF Statuses
    <3>9. (IF repository = NoRepository THEN 0 ELSE repository) # 0 =>
            Cardinality(Promise!With("running")) <
              (IF repository = NoRepository THEN 0 ELSE repository)
      BY <3>5, <3>7
    <3>10. Promise!become(c, "running")
      BY <3>8 DEF Promise!become, Statuses
    <3>11. [k \in Keys |-> statusOf(runs[k])][c] = "waiting"
      BY <3>8 DEF Statuses
    <3>12. Promise!Start(c)
      <4>1. Promise!Cardinality(Promise!With("running")) = Cardinality(Promise!With("running"))
        BY DEF Promise!Cardinality, Cardinality
      <4> QED
        BY <3>9, <3>10, <3>11, <4>1 DEF Promise!Start
    <3> QED
      BY <3>12
  <2>6. CASE old \in {"waiting", "running"} /\ new = "stopping"
    BY <2>2, <2>6 DEF Promise!Stop, Promise!become, Statuses
  <2>7. CASE old = "stopping" /\ new = "over"
    BY <2>2, <2>7 DEF Promise!Leave, Promise!become, Statuses
  <2> QED
    BY <2>3, <2>4, <2>5, <2>6, <2>7
<1> QED
  BY <1>2, <1>3, OneRunMoves

(* All the watcher does to the runs is what RunQueue promises: no run is   *)
(* started but while fewer than the limit run, none twice, none after it   *)
(* was told to stop, and none comes back; of a restart it shows nothing.   *)
THEOREM WatcherImplementsRunQueue ==
  ASSUME Steady
  PROVE  Spec => ImplementsRunQueue
<1>1. Init => Promise!Init
  <2> SUFFICES ASSUME Init PROVE Promise!Init
    OBVIOUS
  <2>1. repository \in Nat /\ repository # NoRepository
    BY QueueManagerAssumption, WatcherAssumption DEF Init
  <2>2. \A k \in Keys : statusOf(runs[k]) = "waiting"
    <3>1. PICK uid \in UIDs : runs = [k \in Keys |-> newRun(uid)]
      BY DEF Init
    <3>2. newRun(uid) \in Run /\ newRun(uid).state = StateQueued /\ ~Finishing(newRun(uid))
      BY DEF newRun, Run, Finishing, Pending, Cancelled
    <3> QED
      BY <3>1, <3>2, NoRunIsNone DEF statusOf, HasPlace, StateQueued, StateStarted, StateCompleted
  <2> QED
    BY <2>1, <2>2 DEF Promise!Init
<1>2. ASSUME LimitsInv, RunsWithinLimit', [Next]_vars
      PROVE  [Promise!Next]_(Promise!runQueueVars)
  <2>1. CASE Next
    <3>1. repository' = repository /\ repository # NoRepository
      BY <1>2, <2>1, NextAbides DEF Abides, LimitsInv, SlotsInv, SlotInv
    <3>2. \/ Statuses' = Statuses
          \/ \E k \in Keys : Promise!Start(k) \/ Promise!Stop(k) \/ Promise!Leave(k)
      BY <1>2, <2>1, <3>1, StepsAsPromised DEF LimitsInv, SlotsInv, Steady
    <3> QED
      BY <3>1, <3>2 DEF Promise!Next, Promise!runQueueVars, Statuses
  <2>2. CASE UNCHANGED vars
    BY <2>2 DEF vars, Promise!runQueueVars, statusOf
  <2> QED
    BY <1>2, <2>1, <2>2
<1>3. Spec => []LimitsInv
  BY LimitInvariance
<1>4. Spec => []RunsWithinLimit
  BY RunsStayWithinLimit
<1>5. LimitsInv /\ RunsWithinLimit' /\ [Next]_vars => [Promise!Next]_(Promise!runQueueVars)
  BY <1>2
<1> QED
  BY <1>1, <1>3, <1>4, <1>5, PTL DEF Spec, ImplementsRunQueue, Promise!Spec
=============================================================================
