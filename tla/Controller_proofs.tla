------------------------- MODULE Controller_proofs -------------------------
(***************************************************************************)
(* Proofs about the controller, for any events, definitions, limits,       *)
(* numbers of deliveries, failures and crashes.                            *)
(***************************************************************************)
EXTENDS Controller, TLAPS

HandlerType ==
  [pc : {"expected", "matching", "cancelling", "starting", "ordering", "done", "dead"},
   batch : SUBSET Starts, todo : SUBSET Starts, before : SUBSET Starts]
StartType ==
  [pc : {"none", "secret", "create", "unsecret", "own", "report", "patch",
         "failed", "failed with run", "started", "list", "cancel", "done"},
   todo : SUBSET Starts]
RunType ==
  [spec : {Pending, None, CancelledRunFinally}, state : {None, "queued", "started"},
   order : SUBSET Starts, done : BOOLEAN, by : {<<>>} \cup Starts,
   known : BOOLEAN]

\* The types but for the order of the deliveries.
Typed ==
  /\ setup \in Setups
  /\ handler \in [Events -> HandlerType]
  /\ start \in [Starts -> StartType]
  /\ runs \in [Starts -> {NoRun} \cup RunType]
  /\ secrets \in [Starts -> {"none", "taken", "unowned", "owned", "lost"}]
  /\ reported \in [Starts -> {None, "queued", "in_progress", "failure"}]
  /\ failures \in 0..setup.failures
  /\ crashes \in 0..setup.crashes
  /\ overlapped \in BOOLEAN

Early == {"none", "secret", "create"}
WithRun == {"own", "report", "patch", "failed with run", "started", "list", "cancel"}
AfterMatch == {"starting", "ordering", "done", "dead"}

\* How far a start has come, and whether its run is there.
StartOK(s) ==
  /\ start[s].pc \in Early => ~Exists(s)
  /\ start[s].pc \in WithRun => Exists(s)
  /\ start[s].pc # "none" => handler[s[1]].pc \in AfterMatch
  /\ Settled(s) => start[s].pc \in {"none", "done"}
  /\ handler[s[1]].pc \in {"starting", "ordering"} => start[s].pc # "none"
  /\ \A r \in start[s].todo : Exists(r) /\ r[1] # s[1]

\* What a handler keeps names runs that are there.
HandlerOK(e) ==
  /\ \A s \in handler[e].batch : s[1] = e /\ Exists(s)
  /\ handler[e].batch # {} => ManagerEnabled /\ handler[e].pc \in AfterMatch
  /\ \A s \in handler[e].todo : Exists(s)
  /\ handler[e].pc = "ordering" => handler[e].todo \subseteq handler[e].batch
  /\ \A s \in handler[e].before : Exists(s)

Structure ==
  /\ Typed
  /\ \A s \in Starts : StartOK(s)
  /\ \A e \in Events : HandlerOK(e)

\* What an order names: all the runs of the event, once all were started.
OrderOK(s) ==
  Exists(s) =>
    /\ runs[s].order # {} =>
         /\ runs[s].order = handler[s[1]].batch
         /\ s \in handler[s[1]].batch
         /\ handler[s[1]].pc \in {"ordering", "done", "dead"}
         /\ \A r \in Starts : r[1] = s[1] => start[r].pc = "done"
    /\ runs[s].state = "queued" => Limited(s[2])

\* How many calls have failed.
Unfailing == failures = 0
Failed == failures >= 1
AtMostOne == failures <= 1

\* Where nothing fails every run joins the batch and gets the order.
UnfailingOK(s) ==
  Unfailing =>
    /\ start[s].pc \notin {"unsecret", "failed", "failed with run"}
    /\ start[s].pc \in {"list", "cancel", "done"} =>
         Exists(s) /\ (ManagerEnabled => s \in handler[s[1]].batch)
    /\ /\ s \in handler[s[1]].batch
       /\ \/ handler[s[1]].pc = "done"
          \/ handler[s[1]].pc = "ordering" /\ s \notin handler[s[1]].todo
       => runs[s].order = handler[s[1]].batch

\* The secret under the name of a start, and once it belongs to the run.
Made(s) == setup.secretAutoCreation => secrets[s] \in {"taken", "unowned"}
Owned(s) == setup.secretAutoCreation => secrets[s] = "owned"

\* What every step of a start leaves behind: its secret and its report.
ResourcesOK(s) ==
  /\ start[s].pc \in {"secret", "own", "unsecret"} \/ secrets[s] = "unowned" =>
       setup.secretAutoCreation
  /\ start[s].pc \in {"none", "secret"} => secrets[s] \in {"none", "taken"}
  /\ start[s].pc \in {"create", "own", "unsecret"} => Made(s)
  /\ start[s].pc \in {"report", "patch"} => Owned(s)
  /\ start[s].pc = "patch" => reported[s] # None
  /\ start[s].pc \in {"unsecret", "failed", "failed with run"} => Failed
  /\ start[s].pc \in {"own", "report", "unsecret", "failed", "failed with run"} /\ Exists(s) =>
       runs[s].state = None
  /\ start[s].pc = "unsecret" /\ Exists(s) => ~runs[s].known
  /\ Exists(s) /\ runs[s].state # None => Owned(s)
  /\ setup.secretAutoCreation /\ Exists(s) /\ runs[s].known => secrets[s] # "none"
  /\ AtMostOne =>
       /\ start[s].pc = "failed" => secrets[s] # "unowned"
       /\ start[s].pc = "done" /\ secrets[s] = "unowned" => Exists(s)
       /\ start[s].pc \in {"started", "list", "cancel", "done"} /\ Exists(s) => reported[s] # None

\* What the closing of the pull request of e is to cancel.
Left(e, s) ==
  /\ RepositoryOf[s[2]] = Home
  /\ EventOf[s[1]].pullRequest = EventOf[e].pullRequest
  /\ FromPullRequest(s)
  /\ Annotation[s[2]] = "true" \/ (setup.cancelOnPullRequest /\ Annotation[s[2]] = None)

\* What is not over yet is still to be cancelled.
ClosingOK(e) ==
  /\ EventOf[e].target = PullRequestClosed
  /\ handler[e].pc \notin {"expected", "matching", "dead"}
  /\ Unfailing
  => \A s \in handler[e].before :
       Left(e, s) => Over(s) \/ (handler[e].pc = "cancelling" /\ s \in handler[e].todo)

IInv ==
  /\ Structure
  /\ \A s \in Starts : OrderOK(s)
  /\ \A s \in Starts : UnfailingOK(s)
  /\ \A s \in Starts : ResourcesOK(s)
  /\ \A e \in Events : ClosingOK(e)

LEMMA StartsView == \A s \in Starts : s[1] \in Events /\ s[2] \in Definitions
BY DEF Starts

LEMMA RunChanges ==
  ASSUME NEW run \in RunType
  PROVE  /\ run # NoRun
         /\ [run EXCEPT !.spec = CancelledRunFinally] \in RunType
         /\ [run EXCEPT !.state = "queued"] \in RunType
         /\ [run EXCEPT !.state = "started"] \in RunType
         /\ [run EXCEPT !.done = TRUE] \in RunType
         /\ [run EXCEPT !.spec = None, !.state = "started"] \in RunType
         /\ \A s \in Starts : [run EXCEPT !.spec = CancelledRunFinally, !.by = s] \in RunType
         /\ \A b \in SUBSET Starts : [run EXCEPT !.order = b] \in RunType
<1>1. run # NoRun
  <2>1. run.spec \in {"Pending", "", "CancelledRunFinally"}
    BY DEF RunType, Pending, None, CancelledRunFinally
  <2>2. NoRun.spec = "none"
    BY DEF NoRun
  <2> QED BY <2>1, <2>2
<1> QED BY <1>1 DEF RunType

LEMMA NewRuns == \A d : newRun(d) \in RunType /\ newRun(d) # NoRun
<1>1. \A d : newRun(d) \in RunType
  BY DEF newRun, RunType
<1> QED BY <1>1, RunChanges

----------------------------------------------------------------------------
(* What each write does to the cluster                                     *)

\* Only the run of s may have changed.
OnlyRun(s) == \A t \in Starts \ {s} : runs'[t] = runs[t]
RunsTyped == runs' \in [Starts -> {NoRun} \cup RunType]

\* The run of s was there and is there, and keeps these of its fields.
Keeps(s) == Exists(s) /\ runs'[s] # NoRun /\ runs'[s].known = runs[s].known

KeepsSpec(s) == runs'[s].spec = runs[s].spec
KeepsState(s) == runs'[s].state = runs[s].state
KeepsOrder(s) == runs'[s].order = runs[s].order
KeepsDone(s) == runs'[s].done = runs[s].done
KeepsBy(s) == runs'[s].by = runs[s].by

\* The counter of the failures.
Counted == failures' \in 0..setup.failures /\ failures' \in {failures, failures + 1}

LEMMA MayFail ==
  ASSUME Typed, mayFail
  PROVE  failures' = failures + 1 /\ failures' \in 0..setup.failures /\ failures \in Nat
BY ControllerAssumption DEF Typed, mayFail

LEMMA Write ==
  ASSUME Typed, NEW s \in Starts, NEW run \in RunType, NEW cluster1,
         cluster1 = [runs EXCEPT ![s] = run],
         written(cluster1)
  PROVE  /\ RunsTyped /\ OnlyRun(s)
         /\ runs'[s] \in {runs[s], run}
         /\ Counted
         /\ Unfailing' => runs'[s] = run
<1>1. Counted
  BY MayFail, ControllerAssumption DEF Typed, Counted, written
<1>2. runs' \in {runs, cluster1}
  BY DEF written
<1>3. Unfailing' => runs' = cluster1
  BY MayFail DEF written, Unfailing
<1>4. cluster1[s] = run /\ \A t \in Starts \ {s} : cluster1[t] = runs[t]
  BY DEF Typed
<1>5. cluster1 \in [Starts -> {NoRun} \cup RunType] /\ runs \in [Starts -> {NoRun} \cup RunType]
  BY DEF Typed
<1> QED BY <1>1, <1>2, <1>3, <1>4, <1>5 DEF RunsTyped, OnlyRun

LEMMA CancelListedView ==
  ASSUME Structure, NEW e \in Events, NEW s \in Starts, CancelListed(e, s)
  PROVE  /\ RunsTyped /\ OnlyRun(s) /\ Counted
         /\ Keeps(s) /\ KeepsState(s) /\ KeepsOrder(s) /\ KeepsDone(s) /\ KeepsBy(s)
         /\ runs'[s].spec \in {runs[s].spec, CancelledRunFinally}
         /\ Unfailing' => runs'[s].spec = CancelledRunFinally
<1> DEFINE run == [runs[s] EXCEPT !.spec = CancelledRunFinally]
<1>1. Exists(s) /\ runs[s] \in RunType
  <2>1. s \in handler[e].todo
    BY DEF CancelListed
  <2>2. HandlerOK(e) /\ runs[s] \in {NoRun} \cup RunType
    BY DEF Structure, Typed
  <2> QED BY <2>1, <2>2 DEF HandlerOK, Exists
<1>2. run \in RunType
  BY <1>1, RunChanges
<1>3. written([runs EXCEPT ![s] = run])
  BY DEF CancelListed
<1>4. /\ run.spec = CancelledRunFinally /\ run.state = runs[s].state /\ run.order = runs[s].order
      /\ run.done = runs[s].done /\ run.by = runs[s].by /\ run.known = runs[s].known
  BY <1>1 DEF RunType
<1> HIDE DEF run
<1>5. /\ RunsTyped /\ OnlyRun(s) /\ runs'[s] \in {runs[s], run} /\ Counted
      /\ Unfailing' => runs'[s] = run
  BY <1>2, <1>3, Write DEF Structure
<1> QED BY <1>1, <1>2, <1>4, <1>5, RunChanges
       DEF Exists, Keeps, KeepsState, KeepsOrder, KeepsDone, KeepsBy

LEMMA PatchOrderView ==
  ASSUME Structure, NEW e \in Events, NEW s \in Starts, PatchOrder(e, s)
  PROVE  /\ RunsTyped /\ OnlyRun(s) /\ Counted
         /\ Keeps(s) /\ KeepsSpec(s) /\ KeepsState(s) /\ KeepsDone(s) /\ KeepsBy(s)
         /\ runs'[s].order \in {runs[s].order, handler[e].batch}
         /\ Unfailing' => runs'[s].order = handler[e].batch
<1> DEFINE run == [runs[s] EXCEPT !.order = handler[e].batch]
<1>1. Exists(s) /\ runs[s] \in RunType
  <2>1. s \in handler[e].todo
    BY DEF PatchOrder
  <2>2. HandlerOK(e) /\ runs[s] \in {NoRun} \cup RunType
    BY DEF Structure, Typed
  <2> QED BY <2>1, <2>2 DEF HandlerOK, Exists
<1>2. run \in RunType
  BY <1>1, RunChanges DEF Structure, Typed, HandlerType
<1>3. written([runs EXCEPT ![s] = run])
  BY DEF PatchOrder
<1>4. /\ run.spec = runs[s].spec /\ run.state = runs[s].state /\ run.order = handler[e].batch
      /\ run.done = runs[s].done /\ run.by = runs[s].by /\ run.known = runs[s].known
  BY <1>1 DEF RunType
<1> HIDE DEF run
<1>5. /\ RunsTyped /\ OnlyRun(s) /\ runs'[s] \in {runs[s], run} /\ Counted
      /\ Unfailing' => runs'[s] = run
  BY <1>2, <1>3, Write DEF Structure
<1> QED BY <1>1, <1>2, <1>4, <1>5, RunChanges
       DEF Exists, Keeps, KeepsSpec, KeepsState, KeepsDone, KeepsBy

LEMMA PatchStateView ==
  ASSUME Structure, NEW s \in Starts, PatchState(s)
  PROVE  /\ RunsTyped /\ OnlyRun(s) /\ Counted
         /\ Keeps(s) /\ KeepsSpec(s) /\ KeepsOrder(s) /\ KeepsDone(s) /\ KeepsBy(s)
         /\ runs'[s].state \in {runs[s].state, (IF Limited(s[2]) THEN "queued" ELSE "started")}
         /\ Unfailing' => runs'[s].state = (IF Limited(s[2]) THEN "queued" ELSE "started")
<1> DEFINE run == [runs[s] EXCEPT !.state = IF Limited(s[2]) THEN "queued" ELSE "started"]
<1>1. Exists(s) /\ runs[s] \in RunType
  BY DEF Structure, Typed, StartOK, HandlerOK, WithRun, Exists, PatchState, At
<1>2. run \in RunType
  BY <1>1, RunChanges
<1>3. written([runs EXCEPT ![s] = run])
  BY DEF PatchState
<1>4. /\ run.state = (IF Limited(s[2]) THEN "queued" ELSE "started")
      /\ run.spec = runs[s].spec /\ run.order = runs[s].order
      /\ run.done = runs[s].done /\ run.by = runs[s].by /\ run.known = runs[s].known
  BY <1>1 DEF RunType
<1> HIDE DEF run
<1>5. /\ RunsTyped /\ OnlyRun(s) /\ runs'[s] \in {runs[s], run} /\ Counted
      /\ Unfailing' => runs'[s] = run
  BY <1>2, <1>3, Write DEF Structure
<1> QED BY <1>1, <1>2, <1>4, <1>5, RunChanges
       DEF Exists, Keeps, KeepsSpec, KeepsOrder, KeepsDone, KeepsBy

LEMMA CancelReplacedView ==
  ASSUME Structure, NEW s \in Starts, NEW r \in Starts, CancelReplaced(s, r)
  PROVE  /\ RunsTyped /\ OnlyRun(r) /\ Counted
         /\ Keeps(r) /\ KeepsState(r) /\ KeepsOrder(r) /\ KeepsDone(r)
         /\ runs'[r].spec \in {runs[r].spec, CancelledRunFinally}
         /\ runs'[r].by \in {runs[r].by, s}
         /\ Unfailing' => runs'[r].spec = CancelledRunFinally /\ runs'[r].by = s
<1> DEFINE run == [runs[r] EXCEPT !.spec = CancelledRunFinally, !.by = s]
<1>1. Exists(r) /\ runs[r] \in RunType
  <2>1. r \in start[s].todo
    BY DEF CancelReplaced
  <2>2. StartOK(s) /\ runs[r] \in {NoRun} \cup RunType
    BY DEF Structure, Typed
  <2> QED BY <2>1, <2>2 DEF StartOK, Exists
<1>2. run \in RunType
  BY <1>1, RunChanges
<1>3. written([runs EXCEPT ![r] = run])
  <2>1. [runs EXCEPT ![r].spec = CancelledRunFinally, ![r].by = s] = [runs EXCEPT ![r] = run]
    BY <1>1 DEF Structure, Typed
  <2>2. written([runs EXCEPT ![r].spec = CancelledRunFinally, ![r].by = s])
    BY DEF CancelReplaced
  <2> HIDE DEF run
  <2> QED BY <2>1, <2>2
<1>4. /\ run.spec = CancelledRunFinally /\ run.state = runs[r].state /\ run.order = runs[r].order
      /\ run.done = runs[r].done /\ run.by = s /\ run.known = runs[r].known
  BY <1>1 DEF RunType
<1> HIDE DEF run
<1>5. /\ RunsTyped /\ OnlyRun(r) /\ runs'[r] \in {runs[r], run} /\ Counted
      /\ Unfailing' => runs'[r] = run
  BY <1>2, <1>3, Write DEF Structure
<1> QED BY <1>1, <1>2, <1>4, <1>5, RunChanges DEF Exists, Keeps, KeepsState, KeepsOrder, KeepsDone

LEMMA WatcherStartsView ==
  ASSUME Structure, NEW s \in Starts, WatcherStarts(s)
  PROVE  /\ RunsTyped /\ OnlyRun(s)
         /\ Keeps(s) /\ KeepsOrder(s) /\ KeepsDone(s) /\ KeepsBy(s)
         /\ runs[s].spec = Pending /\ runs[s].state = "queued" /\ ~runs[s].done
         /\ runs'[s].spec = None /\ runs'[s].state = "started"
<1>1. runs[s] \in RunType /\ runs \in [Starts -> {NoRun} \cup RunType]
  BY DEF Structure, Typed, Exists, WatcherStarts, Startable, Queued
<1>2. [runs[s] EXCEPT !.spec = None, !.state = "started"] \in RunType
  BY <1>1, RunChanges
<1>3. runs[s] # NoRun /\ runs'[s] # NoRun /\ runs' \in [Starts -> {NoRun} \cup RunType]
  BY <1>1, <1>2, RunChanges DEF WatcherStarts
<1> QED BY <1>1, <1>3
       DEF Exists, RunType, WatcherStarts, Startable, Queued, RunsTyped, OnlyRun, Keeps,
           KeepsOrder, KeepsDone, KeepsBy

LEMMA TektonFinishesView ==
  ASSUME Structure, NEW s \in Starts, TektonFinishes(s)
  PROVE  /\ RunsTyped /\ OnlyRun(s)
         /\ Keeps(s) /\ KeepsSpec(s) /\ KeepsState(s) /\ KeepsOrder(s) /\ KeepsBy(s)
         /\ ~runs[s].done /\ runs'[s].done
<1>1. runs[s] \in RunType /\ runs \in [Starts -> {NoRun} \cup RunType]
  BY DEF Structure, Typed, Exists, TektonFinishes
<1>2. [runs[s] EXCEPT !.done = TRUE] \in RunType
  BY <1>1, RunChanges
<1>3. runs[s] # NoRun /\ runs'[s] # NoRun /\ runs' \in [Starts -> {NoRun} \cup RunType]
  BY <1>1, <1>2, RunChanges DEF TektonFinishes
<1> QED BY <1>1, <1>3
       DEF Exists, RunType, TektonFinishes, RunsTyped, OnlyRun, Keeps, KeepsSpec, KeepsState,
           KeepsOrder, KeepsBy

\* The run of a definition as it is created.
LEMMA NewRunFields ==
  \A d : /\ newRun(d) \in RunType
         /\ newRun(d).spec # CancelledRunFinally /\ newRun(d).state = None
         /\ newRun(d).order = {} /\ ~newRun(d).done /\ newRun(d).by = <<>> /\ newRun(d).known
<1>1. Pending # CancelledRunFinally /\ None # CancelledRunFinally
  BY DEF Pending, None, CancelledRunFinally
<1> QED BY <1>1, NewRuns DEF newRun

LEMMA CreateRunView ==
  ASSUME Structure, NEW s \in Starts, CreateRun(s)
  PROVE  /\ RunsTyped /\ OnlyRun(s) /\ ~Exists(s) /\ runs'[s] = newRun(s[2])
BY NewRuns DEF Structure, StartOK, Typed, CreateRun, At, Early, RunsTyped, OnlyRun

\* The run of a creation whose answer is lost.
LEMMA UnknownRuns ==
  \A d : LET run == [newRun(d) EXCEPT !.known = FALSE]
         IN /\ run \in RunType /\ run # NoRun
            /\ run.state = None /\ run.order = {} /\ ~run.done /\ ~run.known /\ run.by = <<>>
<1> TAKE d
<1> DEFINE run == [newRun(d) EXCEPT !.known = FALSE]
<1>1. /\ run \in RunType /\ run.state = None /\ run.order = {}
      /\ ~run.done /\ ~run.known /\ run.by = <<>>
  BY NewRunFields DEF RunType
<1> QED BY <1>1, RunChanges

LEMMA CreateFailsView ==
  ASSUME Structure, NEW s \in Starts, CreateFails(s)
  PROVE  /\ RunsTyped /\ OnlyRun(s) /\ ~Exists(s)
         /\ runs'[s] # NoRun => /\ runs'[s].state = None /\ runs'[s].order = {}
                                /\ ~runs'[s].done /\ ~runs'[s].known /\ runs'[s].by = <<>>
<1> DEFINE run == [newRun(s[2]) EXCEPT !.known = FALSE]
<1>1. /\ run \in RunType /\ run # NoRun /\ run.state = None /\ run.order = {}
      /\ ~run.done /\ ~run.known /\ run.by = <<>>
  BY UnknownRuns
<1>2. runs' \in {runs, [runs EXCEPT ![s] = run]} /\ ~Exists(s)
  BY DEF CreateFails, At, Structure, StartOK, Early
<1> HIDE DEF run
<1> QED BY <1>1, <1>2 DEF Structure, Typed, RunsTyped, OnlyRun, Exists

USE DEF Early, WithRun, AfterMatch, Exists, Settled, OnlyRun, Keeps,
        KeepsSpec, KeepsState, KeepsOrder, KeepsDone, KeepsBy

----------------------------------------------------------------------------
(* The changes an action makes, one record at a time                       *)

HandlerStep(e, pc, batch, todo, before) ==
  /\ \A f \in Events \ {e} : handler'[f] = handler[f]
  /\ handler'[e].pc = pc /\ handler'[e].batch = batch
  /\ handler'[e].todo = todo /\ handler'[e].before = before

StartStep(s, pc, todo) ==
  /\ \A t \in Starts \ {s} : start'[t] = start[t]
  /\ start'[s].pc = pc /\ start'[s].todo = todo

\* A step of the start s alone.
OneStart(s, from, pc, todo) ==
  /\ handler[s[1]].pc = "starting" /\ handler' = handler
  /\ start[s].pc = from /\ StartStep(s, pc, todo)

Secret(s, value) ==
  /\ \A t \in Starts \ {s} : secrets'[t] = secrets[t]
  /\ secrets'[s] = value

Report(s, value) ==
  /\ \A t \in Starts \ {s} : reported'[t] = reported[t]
  /\ reported'[s] = value

Works == failures' = failures
Fails == failures' = failures + 1

\* What was so of the failures: the counter only grows.
Monotone == (Unfailing' => Unfailing) /\ (Failed => Failed') /\ (AtMostOne' => AtMostOne)
Broke == ~Unfailing' /\ Failed' /\ (AtMostOne' => Unfailing /\ ~Failed)

LEMMA Counts ==
  ASSUME Structure, Works \/ Fails \/ Counted
  PROVE  Monotone /\ (Fails => Broke)
<1>1. failures \in Nat
  BY ControllerAssumption DEF Structure, Typed
<1> QED BY <1>1 DEF Works, Fails, Counted, Monotone, Broke, Unfailing, Failed, AtMostOne
ClusterKept == runs' = runs /\ secrets' = secrets /\ reported' = reported
OnlyRuns == secrets' = secrets /\ reported' = reported

LEMMA ReplacedTyped == \A s \in Starts : Replaced(s) \in SUBSET Starts
BY DEF Replaced

LEMMA ListedTyped ==
  \A e \in Events : LeftByPullRequest(e) \in SUBSET Starts /\ Commanded(e) \in SUBSET Starts
BY DEF LeftByPullRequest, Commanded

\* The runs that are listed are there, and a start lists none of its own event.
LEMMA ReplacedOthers == \A s \in Starts : \A r \in Replaced(s) : Exists(r) /\ r[1] # s[1]
<1> TAKE s \in Starts
<1> TAKE r \in Replaced(s)
<1>1. r \in Starts /\ Exists(r) /\ r[2] = s[2] /\ r # s
  BY DEF Replaced
<1>2. r = <<r[1], r[2]>> /\ s = <<s[1], s[2]>>
  BY <1>1 DEF Starts
<1> QED BY <1>1, <1>2

LEMMA ListedExist ==
  \A e \in Events :
    /\ \A s \in LeftByPullRequest(e) : Exists(s)
    /\ \A s \in Commanded(e) : Exists(s)
BY DEF LeftByPullRequest, Commanded

\* The closing of a pull request lists all that is to be cancelled.
LEMMA LeftIsListed ==
  ASSUME NEW e \in Events, EventOf[e].target = PullRequestClosed,
         NEW s \in Starts, Exists(s), Left(e, s), ~Over(s)
  PROVE  s \in LeftByPullRequest(e)
<1>1. SamePullRequest(e, s) /\ FromPullRequest(s)
  BY DEF Left, SamePullRequest
<1>2. IF setup.cancelOnPullRequest THEN Annotation[s[2]] # "false" ELSE Annotation[s[2]] = "true"
  BY DEF Left, None
<1> QED BY <1>1, <1>2 DEF LeftByPullRequest, Left

\* All the starts of the event are done when they are awaited.
LEMMA Awaited ==
  ASSUME NEW e \in Events, AllStarted(e), NEW t \in Starts, t[1] = e
  PROVE  start[t].pc = "done"
<1>1. t = <<e, t[2]>> /\ t[2] \in MatchedBy[e]
  BY DEF Starts
<1> QED BY <1>1 DEF AllStarted

\* The pcs of a start.
Pcs == {"none", "secret", "create", "unsecret", "own", "report", "patch",
        "failed", "failed with run", "started", "list", "cancel", "done"}

LEMMA Goto ==
  ASSUME Structure, NEW s \in Starts, NEW pc \in Pcs, NEW from,
         At(s, from), goto(s, pc)
  PROVE  /\ start' \in [Starts -> StartType]
         /\ StartStep(s, pc, start[s].todo)
         /\ handler[s[1]].pc = "starting" /\ start[s].pc = from
<1>1. start' = [start EXCEPT ![s].pc = pc] /\ start[s] \in StartType /\ start \in [Starts -> StartType]
  BY DEF Structure, Typed, goto
<1>2. [start[s] EXCEPT !.pc = pc] \in StartType
  BY <1>1 DEF StartType, Pcs
<1>3. StartStep(s, pc, start[s].todo)
  BY <1>1 DEF StartStep, StartType
<1>4. handler[s[1]].pc = "starting" /\ start[s].pc = from
  BY DEF At
<1> QED BY <1>1, <1>2, <1>3, <1>4

LEMMA ReceiveStep ==
  ASSUME Structure, NEW e \in Events, Receive(e), setup' = setup
  PROVE  /\ Typed'
         /\ handler[e].pc = "expected"
         /\ HandlerStep(e, "matching", handler[e].batch, handler[e].todo, {s \in Starts : Exists(s)})
         /\ start' = start /\ ClusterKept /\ Works
BY StartsView, ZenonT(60)
   DEF Structure, Typed, HandlerType, StartType, HandlerStep, StartStep, OneStart, ClusterKept,
       OnlyRuns, Works, Fails, Receive, cluster

LEMMA ListToCancelStep ==
  ASSUME Structure, NEW e \in Events, ListToCancel(e), setup' = setup
  PROVE  /\ Typed'
         /\ handler[e].pc = "matching"
         /\ \E todo : /\ todo = IF EventOf[e].target = PullRequestClosed
                                THEN LeftByPullRequest(e) ELSE Commanded(e)
                      /\ HandlerStep(e, "cancelling", handler[e].batch, todo, handler[e].before)
         /\ start' = start /\ ClusterKept /\ Works
<1> DEFINE todo == IF EventOf[e].target = PullRequestClosed THEN LeftByPullRequest(e) ELSE Commanded(e)
<1>1. todo \in SUBSET Starts
  BY ListedTyped
<1>2. handler' = [handler EXCEPT ![e] = [@ EXCEPT !.pc = "cancelling", !.todo = todo]]
  BY DEF ListToCancel
<1>3. handler[e].pc = "matching" /\ start' = start /\ ClusterKept /\ Works
      /\ crashes' = crashes /\ overlapped' = overlapped
  BY DEF ListToCancel, ClusterKept, Works, cluster
<1> HIDE DEF todo
<1>4. /\ HandlerStep(e, "cancelling", handler[e].batch, todo, handler[e].before)
      /\ handler' \in [Events -> HandlerType]
  BY <1>1, <1>2, ZenonT(60) DEF Structure, Typed, HandlerType, HandlerStep
<1>5. Typed'
  BY <1>3, <1>4 DEF Structure, Typed, ClusterKept, Works
<1> QED BY <1>3, <1>4, <1>5 DEF todo

LEMMA CancelListedStep ==
  ASSUME Structure, NEW e \in Events, NEW s \in Starts, CancelListed(e, s), setup' = setup
  PROVE  /\ Typed'
         /\ handler[e].pc = "cancelling" /\ s \in handler[e].todo
         /\ HandlerStep(e, "cancelling", handler[e].batch, handler[e].todo \ {s}, handler[e].before)
         /\ start' = start /\ OnlyRuns
<1>1. /\ handler[e].pc = "cancelling" /\ s \in handler[e].todo
      /\ handler' = [handler EXCEPT ![e].todo = @ \ {s}]
      /\ start' = start /\ OnlyRuns /\ crashes' = crashes /\ overlapped' = overlapped
  BY DEF CancelListed, OnlyRuns
<1>2. /\ handler' \in [Events -> HandlerType]
      /\ HandlerStep(e, "cancelling", handler[e].batch, handler[e].todo \ {s}, handler[e].before)
  BY <1>1 DEF Structure, Typed, HandlerType, HandlerStep
<1>3. RunsTyped /\ Counted
  BY CancelListedView
<1>4. Typed'
  BY <1>1, <1>2, <1>3 DEF RunsTyped, Counted, OnlyRuns, Structure, Typed
<1> QED BY <1>1, <1>2, <1>4

LEMMA MatchedStep ==
  ASSUME Structure, NEW e \in Events, Matched(e), setup' = setup
  PROVE  /\ Typed'
         /\ handler[e].pc = "matching" /\ EventOf[e].target # PullRequestClosed
         /\ \E pc \in {"starting", "done"} :
              HandlerStep(e, pc, handler[e].batch, handler[e].todo, handler[e].before)
         /\ MatchedBy[e] # {} => handler'[e].pc = "starting"
         /\ \A s \in Starts :
             IF s[1] = e
             THEN /\ start'[s].pc = (IF setup.secretAutoCreation THEN "secret" ELSE "create")
                  /\ start'[s].todo = {}
             ELSE start'[s] = start[s]
         /\ ClusterKept /\ Works
BY StartsView, ZenonT(60)
   DEF Structure, Typed, HandlerType, StartType, HandlerStep, StartStep, OneStart, ClusterKept,
       OnlyRuns, Works, Fails, Matched, cluster, NewStart

LEMMA GiveUpStep ==
  ASSUME Structure, NEW e \in Events, GiveUp(e), setup' = setup
  PROVE  /\ Typed'
         /\ handler[e].pc = "matching"
         /\ HandlerStep(e, "done", handler[e].batch, handler[e].todo, handler[e].before)
         /\ start' = start /\ ClusterKept /\ Fails
BY MayFail, StartsView, ZenonT(60)
   DEF Structure, Typed, HandlerType, StartType, HandlerStep, StartStep, OneStart, ClusterKept,
       OnlyRuns, Works, Fails, GiveUp, cluster, mayFail

LEMMA HandlerDoneStep ==
  ASSUME Structure, NEW e \in Events, HandlerDone(e), setup' = setup
  PROVE  /\ Typed'
         /\ handler[e].pc \in {"cancelling", "ordering"} /\ handler[e].todo = {}
         /\ HandlerStep(e, "done", handler[e].batch, handler[e].todo, handler[e].before)
         /\ start' = start /\ ClusterKept /\ Works
BY StartsView, ZenonT(60)
   DEF Structure, Typed, HandlerType, StartType, HandlerStep, StartStep, OneStart, ClusterKept,
       OnlyRuns, Works, Fails, HandlerDone, cluster

LEMMA GetExecutionOrderStep ==
  ASSUME Structure, NEW e \in Events, GetExecutionOrder(e), setup' = setup
  PROVE  /\ Typed'
         /\ handler[e].pc = "starting" /\ AllStarted(e)
         /\ HandlerStep(e, "ordering", handler[e].batch, handler[e].batch, handler[e].before)
         /\ start' = start /\ ClusterKept /\ Works
BY StartsView, ZenonT(60)
   DEF Structure, Typed, HandlerType, StartType, HandlerStep, StartStep, OneStart, ClusterKept,
       OnlyRuns, Works, Fails, GetExecutionOrder, cluster

LEMMA PatchOrderStep ==
  ASSUME Structure, NEW e \in Events, NEW s \in Starts, PatchOrder(e, s), setup' = setup
  PROVE  /\ Typed'
         /\ handler[e].pc = "ordering" /\ s \in handler[e].todo
         /\ HandlerStep(e, "ordering", handler[e].batch, handler[e].todo \ {s}, handler[e].before)
         /\ start' = start /\ OnlyRuns
<1>1. /\ handler[e].pc = "ordering" /\ s \in handler[e].todo
      /\ handler' = [handler EXCEPT ![e].todo = @ \ {s}]
      /\ start' = start /\ OnlyRuns /\ crashes' = crashes /\ overlapped' = overlapped
  BY DEF PatchOrder, OnlyRuns
<1>2. /\ handler' \in [Events -> HandlerType]
      /\ HandlerStep(e, "ordering", handler[e].batch, handler[e].todo \ {s}, handler[e].before)
  BY <1>1 DEF Structure, Typed, HandlerType, HandlerStep
<1>3. RunsTyped /\ Counted
  BY PatchOrderView
<1>4. Typed'
  BY <1>1, <1>2, <1>3 DEF RunsTyped, Counted, OnlyRuns, Structure, Typed
<1> QED BY <1>1, <1>2, <1>4

LEMMA CrashStep ==
  ASSUME Structure, Crash, setup' = setup
  PROVE  /\ Typed'
         /\ \A e \in Events : /\ Active(e) => handler'[e].pc = "dead"
                              /\ ~Active(e) => handler'[e].pc = handler[e].pc
         /\ \A e \in Events : /\ handler'[e].batch = handler[e].batch /\ handler'[e].todo = handler[e].todo
                             /\ handler'[e].before = handler[e].before
         /\ start' = start /\ ClusterKept /\ Works
<1>1. handler' = [e \in Events |-> IF Active(e) THEN [handler[e] EXCEPT !.pc = "dead"] ELSE handler[e]]
  BY DEF Crash
<1>2. \A e \in Events : handler[e] \in HandlerType
  BY DEF Structure, Typed
<1>3. \A e \in Events :
        /\ handler'[e] \in HandlerType
        /\ Active(e) => handler'[e].pc = "dead"
        /\ ~Active(e) => handler'[e].pc = handler[e].pc
        /\ handler'[e].batch = handler[e].batch /\ handler'[e].todo = handler[e].todo
        /\ handler'[e].before = handler[e].before
  <2> TAKE e \in Events
  <2>1. handler'[e] = IF Active(e) THEN [handler[e] EXCEPT !.pc = "dead"] ELSE handler[e]
    BY <1>1
  <2> QED BY <1>2, <2>1 DEF HandlerType
<1>4. handler' \in [Events -> HandlerType]
  BY <1>1, <1>3
<1>5. start' = start /\ ClusterKept /\ Works /\ overlapped' = overlapped /\ crashes' \in 0..setup.crashes
  BY ControllerAssumption DEF Crash, ClusterKept, Works, cluster, Structure, Typed
<1>6. Typed'
  BY <1>4, <1>5 DEF Structure, Typed, ClusterKept, Works
<1> QED BY <1>3, <1>5, <1>6

LEMMA CreateSecretStep ==
  ASSUME Structure, NEW s \in Starts, CreateSecret(s), setup' = setup
  PROVE  /\ Typed'
         /\ \/ /\ OneStart(s, "secret", "create", start[s].todo) /\ Works
               /\ \E value \in {"taken", "unowned"} : Secret(s, value)
            \/ /\ OneStart(s, "secret", "failed", start[s].todo) /\ Fails
               /\ \E value \in {secrets[s], "lost"} : Secret(s, value)
         /\ runs' = runs /\ reported' = reported
<1>1. At(s, "secret") /\ handler' = handler /\ crashes' = crashes /\ overlapped' = overlapped
      /\ runs' = runs /\ reported' = reported
  BY DEF CreateSecret, unchangedHandler
<1>2. CASE /\ goto(s, "create") /\ failures' = failures
           /\ secrets' = IF secrets[s] = "taken" THEN secrets ELSE [secrets EXCEPT ![s] = "unowned"]
  <2>1. StartStep(s, "create", start[s].todo) /\ start' \in [Starts -> StartType]
        /\ handler[s[1]].pc = "starting" /\ start[s].pc = "secret"
    BY <1>1, <1>2, Goto DEF Pcs
  <2>2. \E value \in {"taken", "unowned"} : Secret(s, value)
    BY <1>2 DEF Structure, Typed, Secret
  <2>3. Typed'
    BY <1>1, <1>2, <2>1 DEF Structure, Typed
  <2> QED BY <1>1, <1>2, <2>1, <2>2, <2>3 DEF OneStart, Works
<1>3. CASE /\ mayFail /\ goto(s, "failed")
           /\ secrets' \in {secrets, [secrets EXCEPT ![s] = "lost"]}
  <2>1. StartStep(s, "failed", start[s].todo) /\ start' \in [Starts -> StartType]
        /\ handler[s[1]].pc = "starting" /\ start[s].pc = "secret"
    BY <1>1, <1>3, Goto DEF Pcs
  <2>2. \E value \in {secrets[s], "lost"} : Secret(s, value)
    BY <1>3 DEF Structure, Typed, Secret
  <2>3. Typed' /\ Fails
    BY <1>1, <1>3, <2>1, MayFail DEF Structure, Typed, Fails
  <2> QED BY <1>1, <2>1, <2>2, <2>3 DEF OneStart
<1> QED BY <1>2, <1>3 DEF CreateSecret

LEMMA CreateRunStep ==
  ASSUME Structure, NEW s \in Starts, CreateRun(s), setup' = setup
  PROVE  /\ Typed'
         /\ OneStart(s, "create",
                     IF setup.secretAutoCreation THEN "own" ELSE "report", start[s].todo)
         /\ OnlyRuns /\ Works
<1> DEFINE pc == IF setup.secretAutoCreation THEN "own" ELSE "report"
<1>1. At(s, "create") /\ goto(s, pc) /\ secrets' = secrets /\ reported' = reported
      /\ handler' = handler /\ crashes' = crashes /\ overlapped' = overlapped
  BY DEF CreateRun, unchangedHandler
<1>2. pc \in Pcs
  BY DEF Pcs
<1> HIDE DEF pc
<1>3. StartStep(s, pc, start[s].todo) /\ start' \in [Starts -> StartType]
      /\ handler[s[1]].pc = "starting" /\ start[s].pc = "create"
  BY <1>1, <1>2, Goto
<1>4. runs' \in [Starts -> {NoRun} \cup RunType]
  BY CreateRunView DEF RunsTyped
<1>5. Works /\ failures' \in 0..setup.failures
  BY ControllerAssumption DEF CreateRun, Works, Structure, Typed
<1>6. Typed'
  BY <1>1, <1>3, <1>4, <1>5 DEF RunsTyped, Counted, Structure, Typed
<1>7. OneStart(s, "create", pc, start[s].todo)
  BY <1>1, <1>3 DEF OneStart
<1> QED BY <1>1, <1>5, <1>6, <1>7 DEF pc, OnlyRuns

LEMMA CreateFailsStep ==
  ASSUME Structure, NEW s \in Starts, CreateFails(s), setup' = setup
  PROVE  /\ Typed'
         /\ OneStart(s, "create",
                     IF setup.secretAutoCreation THEN "unsecret" ELSE "failed", start[s].todo)
         /\ OnlyRuns /\ Fails
<1> DEFINE pc == IF setup.secretAutoCreation THEN "unsecret" ELSE "failed"
<1>1. At(s, "create") /\ goto(s, pc) /\ secrets' = secrets /\ reported' = reported
      /\ handler' = handler /\ crashes' = crashes /\ overlapped' = overlapped
  BY DEF CreateFails, unchangedHandler
<1>2. pc \in Pcs
  BY DEF Pcs
<1> HIDE DEF pc
<1>3. StartStep(s, pc, start[s].todo) /\ start' \in [Starts -> StartType]
      /\ handler[s[1]].pc = "starting" /\ start[s].pc = "create"
  BY <1>1, <1>2, Goto
<1>4. runs' \in [Starts -> {NoRun} \cup RunType]
  BY CreateFailsView DEF RunsTyped
<1>5. Fails /\ failures' \in 0..setup.failures
  BY MayFail, ControllerAssumption DEF CreateFails, Fails, Structure, Typed
<1>6. Typed'
  BY <1>1, <1>3, <1>4, <1>5 DEF RunsTyped, Counted, Structure, Typed
<1>7. OneStart(s, "create", pc, start[s].todo)
  BY <1>1, <1>3 DEF OneStart
<1> QED BY <1>1, <1>5, <1>6, <1>7 DEF pc, OnlyRuns

LEMMA DeleteSecretStep ==
  ASSUME Structure, NEW s \in Starts, DeleteSecret(s), setup' = setup
  PROVE  /\ Typed'
         /\ OneStart(s, "unsecret", "failed", start[s].todo)
         /\ (Secret(s, "none") /\ (Works \/ Fails)) \/ (secrets' = secrets /\ Fails)
         /\ runs' = runs /\ reported' = reported
<1>1. /\ At(s, "unsecret") /\ goto(s, "failed") /\ handler' = handler
      /\ crashes' = crashes /\ overlapped' = overlapped /\ runs' = runs /\ reported' = reported
  BY DEF DeleteSecret, unchangedHandler
<1>2. StartStep(s, "failed", start[s].todo) /\ start' \in [Starts -> StartType]
      /\ handler[s[1]].pc = "starting" /\ start[s].pc = "unsecret"
  BY <1>1, Goto DEF Pcs
<1>3. /\ (Works \/ Fails) /\ failures' \in 0..setup.failures
      /\ \/ secrets' = [secrets EXCEPT ![s] = "none"]
         \/ secrets' = secrets /\ Fails
  BY MayFail DEF DeleteSecret, Works, Fails, Structure, Typed
<1>4. Typed' /\ ((Secret(s, "none") /\ (Works \/ Fails)) \/ (secrets' = secrets /\ Fails))
  BY <1>1, <1>2, <1>3 DEF Structure, Typed, Secret
<1> QED BY <1>1, <1>2, <1>4 DEF OneStart

LEMMA UpdateSecretWithOwnerRefStep ==
  ASSUME Structure, NEW s \in Starts, UpdateSecretWithOwnerRef(s), setup' = setup
  PROVE  /\ Typed'
         /\ \/ OneStart(s, "own", "report", start[s].todo) /\ Secret(s, "owned") /\ Works
            \/ /\ OneStart(s, "own", "failed with run", start[s].todo) /\ Fails
               /\ \E value \in {secrets[s], "owned"} : Secret(s, value)
         /\ runs' = runs /\ reported' = reported
<1>1. At(s, "own") /\ handler' = handler /\ crashes' = crashes /\ overlapped' = overlapped
      /\ runs' = runs /\ reported' = reported
  BY DEF UpdateSecretWithOwnerRef, unchangedHandler
<1>2. CASE secrets' = [secrets EXCEPT ![s] = "owned"] /\ goto(s, "report") /\ failures' = failures
  <2>1. StartStep(s, "report", start[s].todo) /\ start' \in [Starts -> StartType]
        /\ handler[s[1]].pc = "starting" /\ start[s].pc = "own"
    BY <1>1, <1>2, Goto DEF Pcs
  <2> QED BY <1>1, <1>2, <2>1 DEF Structure, Typed, OneStart, Secret, Works
<1>3. CASE /\ mayFail /\ goto(s, "failed with run")
           /\ secrets' \in {secrets, [secrets EXCEPT ![s] = "owned"]}
  <2>1. StartStep(s, "failed with run", start[s].todo) /\ start' \in [Starts -> StartType]
        /\ handler[s[1]].pc = "starting" /\ start[s].pc = "own"
    BY <1>1, <1>3, Goto DEF Pcs
  <2>2. \E value \in {secrets[s], "owned"} : Secret(s, value)
    BY <1>3 DEF Structure, Typed, Secret
  <2>3. Typed' /\ Fails
    BY <1>1, <1>3, <2>1, MayFail DEF Structure, Typed, Fails
  <2> QED BY <1>1, <2>1, <2>2, <2>3 DEF OneStart
<1> QED BY <1>2, <1>3 DEF UpdateSecretWithOwnerRef

LEMMA ReportStartStep ==
  ASSUME Structure, NEW s \in Starts, ReportStart(s), setup' = setup
  PROVE  /\ Typed'
         /\ \/ /\ OneStart(s, "report", "patch", start[s].todo) /\ Works
               /\ Report(s, IF Limited(s[2]) THEN "queued" ELSE "in_progress")
            \/ /\ OneStart(s, "report", "failed with run", start[s].todo) /\ Fails
               /\ \E value : Report(s, value)
         /\ runs' = runs /\ secrets' = secrets
<1> DEFINE value == IF Limited(s[2]) THEN "queued" ELSE "in_progress"
<1>1. At(s, "report") /\ handler' = handler /\ crashes' = crashes /\ overlapped' = overlapped
      /\ runs' = runs /\ secrets' = secrets
  BY DEF ReportStart, unchangedHandler
<1>2. CASE reported' = [reported EXCEPT ![s] = value] /\ goto(s, "patch") /\ failures' = failures
  <2>1. StartStep(s, "patch", start[s].todo) /\ start' \in [Starts -> StartType]
        /\ handler[s[1]].pc = "starting" /\ start[s].pc = "report"
    BY <1>1, <1>2, Goto DEF Pcs
  <2>2. value \in {"queued", "in_progress"}
    OBVIOUS
  <2> HIDE DEF value
  <2>3. Typed' /\ Report(s, value)
    BY <1>1, <1>2, <2>1, <2>2 DEF Structure, Typed, Report
  <2>4. OneStart(s, "report", "patch", start[s].todo) /\ Works
    BY <1>1, <1>2, <2>1 DEF OneStart, Works
  <2> QED BY <1>1, <2>3, <2>4 DEF value
<1>3. CASE /\ mayFail /\ goto(s, "failed with run")
           /\ reported' \in {reported, [reported EXCEPT ![s] = value]}
  <2>1. StartStep(s, "failed with run", start[s].todo) /\ start' \in [Starts -> StartType]
        /\ handler[s[1]].pc = "starting" /\ start[s].pc = "report"
    BY <1>1, <1>3, Goto DEF Pcs
  <2>2. value \in {"queued", "in_progress"}
    OBVIOUS
  <2> HIDE DEF value
  <2>3. Report(s, reported[s]) \/ Report(s, value)
    BY <1>3 DEF Structure, Typed, Report
  <2>4. Typed' /\ Fails
    BY <1>1, <1>3, <2>1, <2>2, MayFail DEF Structure, Typed, Fails
  <2> QED BY <1>1, <2>1, <2>3, <2>4 DEF OneStart
<1> QED BY <1>2, <1>3 DEF ReportStart

LEMMA PatchStateStep ==
  ASSUME Structure, NEW s \in Starts, PatchState(s), setup' = setup
  PROVE  /\ Typed'
         /\ OneStart(s, "patch", "started", start[s].todo)
         /\ OnlyRuns
BY PatchStateView, StartsView, ZenonT(60)
   DEF RunsTyped, Counted, Structure, Typed, HandlerType, StartType, HandlerStep, StartStep,
       OneStart, ClusterKept, OnlyRuns, Works, Fails, PatchState, At, goto, unchangedHandler

LEMMA ReportFailureStep ==
  ASSUME Structure, NEW s \in Starts, ReportFailure(s), setup' = setup
  PROVE  /\ Typed'
         /\ start[s].pc \in {"failed", "failed with run"}
         /\ OneStart(s, start[s].pc,
                     IF start[s].pc = "failed" THEN "done" ELSE "started", start[s].todo)
         /\ (Report(s, "failure") /\ (Works \/ Fails)) \/ (reported' = reported /\ Fails)
         /\ runs' = runs /\ secrets' = secrets
<1> DEFINE pc == IF start[s].pc = "failed" THEN "done" ELSE "started"
<1>1. /\ handler[s[1]].pc = "starting" /\ start[s].pc \in {"failed", "failed with run"}
      /\ goto(s, pc) /\ handler' = handler
      /\ crashes' = crashes /\ overlapped' = overlapped /\ runs' = runs /\ secrets' = secrets
  BY DEF ReportFailure, unchangedHandler
<1>2. pc \in Pcs
  BY DEF Pcs
<1> HIDE DEF pc
<1>3. StartStep(s, pc, start[s].todo) /\ start' \in [Starts -> StartType]
  BY <1>1, <1>2, Goto DEF At
<1>4. /\ (Works \/ Fails) /\ failures' \in 0..setup.failures
      /\ \/ reported' = [reported EXCEPT ![s] = "failure"]
         \/ reported' = reported /\ Fails
  BY MayFail DEF ReportFailure, Works, Fails, Structure, Typed
<1>5. Typed' /\ ((Report(s, "failure") /\ (Works \/ Fails)) \/ (reported' = reported /\ Fails))
  BY <1>1, <1>3, <1>4 DEF Structure, Typed, Report
<1> QED BY <1>1, <1>3, <1>5 DEF OneStart, pc

LEMMA AddPipelineRunStep ==
  ASSUME Structure, NEW s \in Starts, AddPipelineRun(s), setup' = setup
  PROVE  /\ Typed'
         /\ handler[s[1]].pc = "starting" /\ start[s].pc = "started"
         /\ \E batch : /\ batch = IF ManagerEnabled THEN handler[s[1]].batch \cup {s}
                                                   ELSE handler[s[1]].batch
                      /\ HandlerStep(s[1], "starting", batch, handler[s[1]].todo, handler[s[1]].before)
         /\ \E pc \in {"list", "done"} : StartStep(s, pc, start[s].todo)
         /\ ClusterKept /\ Works
<1> DEFINE pc == IF cancelInProgress(s[1], s[2]) /\ setup.limit[Home] = 0 THEN "list" ELSE "done"
           batch == IF ManagerEnabled THEN handler[s[1]].batch \cup {s} ELSE handler[s[1]].batch
<1>1. At(s, "started") /\ goto(s, pc) /\ ClusterKept /\ Works
      /\ crashes' = crashes /\ overlapped' = overlapped
  BY DEF AddPipelineRun, ClusterKept, Works, cluster
<1>2. handler' = [handler EXCEPT ![s[1]].batch = batch]
  BY DEF AddPipelineRun
<1>3. pc \in {"list", "done"}
  OBVIOUS
<1>4. s[1] \in Events /\ handler[s[1]] \in HandlerType
  BY StartsView DEF Structure, Typed
<1>5. batch \in SUBSET Starts
  BY <1>4 DEF HandlerType
<1> HIDE DEF pc
<1>6. StartStep(s, pc, start[s].todo) /\ start' \in [Starts -> StartType]
      /\ handler[s[1]].pc = "starting" /\ start[s].pc = "started"
  BY <1>1, <1>3, Goto DEF Pcs
<1>7. batch = IF ManagerEnabled THEN handler[s[1]].batch \cup {s} ELSE handler[s[1]].batch
  OBVIOUS
<1> HIDE DEF batch
<1>8. /\ HandlerStep(s[1], "starting", batch, handler[s[1]].todo, handler[s[1]].before)
      /\ handler' \in [Events -> HandlerType]
  BY <1>2, <1>4, <1>5, <1>6 DEF Structure, Typed, HandlerType, HandlerStep
<1>9. Typed'
  BY <1>1, <1>6, <1>8 DEF Structure, Typed, ClusterKept, Works
<1> QED BY <1>1, <1>3, <1>6, <1>7, <1>8, <1>9

LEMMA ListReplacedStep ==
  ASSUME Structure, NEW s \in Starts, ListReplaced(s), setup' = setup
  PROVE  /\ Typed'
         /\ \/ OneStart(s, "list", "cancel", Replaced(s)) /\ Works
            \/ OneStart(s, "list", "done", start[s].todo) /\ Fails
         /\ ClusterKept
<1>1. At(s, "list") /\ handler' = handler /\ crashes' = crashes /\ overlapped' = overlapped /\ ClusterKept
  BY DEF ListReplaced, unchangedHandler, ClusterKept, cluster
<1>2. CASE start' = [start EXCEPT ![s] = [pc |-> "cancel", todo |-> Replaced(s)]] /\ failures' = failures
  <2>1. [pc |-> "cancel", todo |-> Replaced(s)] \in StartType
    BY ReplacedTyped DEF StartType
  <2>2. Typed'
    BY <1>1, <1>2, <2>1 DEF Structure, Typed, ClusterKept
  <2>3. OneStart(s, "list", "cancel", Replaced(s)) /\ Works
    BY <1>1, <1>2 DEF Structure, Typed, OneStart, StartStep, At, Works
  <2> QED BY <1>1, <2>2, <2>3
<1>3. CASE mayFail /\ goto(s, "done")
  <2>1. StartStep(s, "done", start[s].todo) /\ start' \in [Starts -> StartType]
        /\ handler[s[1]].pc = "starting" /\ start[s].pc = "list"
    BY <1>1, <1>3, Goto DEF Pcs
  <2> QED BY <1>1, <1>3, <2>1, MayFail DEF Structure, Typed, OneStart, Fails, ClusterKept
<1> QED BY <1>2, <1>3 DEF ListReplaced

LEMMA CancelReplacedStep ==
  ASSUME Structure, NEW s \in Starts, NEW r \in Starts, CancelReplaced(s, r), setup' = setup
  PROVE  /\ Typed'
         /\ OneStart(s, "cancel", "cancel", start[s].todo \ {r}) /\ r \in start[s].todo
         /\ OnlyRuns
<1>1. At(s, "cancel") /\ handler' = handler /\ crashes' = crashes /\ overlapped' = overlapped
      /\ secrets' = secrets /\ reported' = reported /\ r \in start[s].todo
      /\ start' = [start EXCEPT ![s].todo = @ \ {r}]
  BY DEF CancelReplaced, unchangedHandler
<1>2. OneStart(s, "cancel", "cancel", start[s].todo \ {r}) /\ start' \in [Starts -> StartType]
  BY <1>1, ZenonT(60) DEF RunsTyped, Counted, Structure, Typed, StartType, OneStart, StartStep, At
<1>3. runs' \in [Starts -> {NoRun} \cup RunType] /\ failures' \in 0..setup.failures
  BY CancelReplacedView DEF RunsTyped, Counted
<1>4. Typed'
  BY <1>1, <1>2, <1>3 DEF RunsTyped, Counted, Structure, Typed
<1> QED BY <1>1, <1>2, <1>4 DEF OnlyRuns

LEMMA AllReplacedStep ==
  ASSUME Structure, NEW s \in Starts, AllReplaced(s), setup' = setup
  PROVE  /\ Typed'
         /\ OneStart(s, "cancel", "done", start[s].todo) /\ start[s].todo = {}
         /\ ClusterKept /\ Works
BY StartsView
   DEF Structure, Typed, HandlerType, StartType, HandlerStep, StartStep, OneStart, ClusterKept,
       OnlyRuns, Works, Fails, AllReplaced, At, goto, unchangedHandler, cluster

LEMMA WatcherStartsStep ==
  ASSUME Structure, NEW s \in Starts, WatcherStarts(s), setup' = setup
  PROVE  /\ Typed'
         /\ handler' = handler /\ start' = start /\ OnlyRuns /\ Works
<1>1. RunsTyped
  BY WatcherStartsView
<1>2. /\ handler' = handler /\ start' = start /\ OnlyRuns /\ Works
      /\ crashes' = crashes /\ overlapped' = overlapped
  BY DEF WatcherStarts, OnlyRuns, Works
<1> QED BY <1>1, <1>2 DEF RunsTyped, OnlyRuns, Works, Structure, Typed

LEMMA TektonFinishesStep ==
  ASSUME Structure, NEW s \in Starts, TektonFinishes(s), setup' = setup
  PROVE  /\ Typed'
         /\ handler' = handler /\ start' = start /\ OnlyRuns /\ Works
BY TektonFinishesView, StartsView
   DEF RunsTyped, Counted, Structure, Typed, HandlerType, StartType, HandlerStep, StartStep,
       OneStart, ClusterKept, OnlyRuns, Works, Fails, TektonFinishes

----------------------------------------------------------------------------
(* Each action keeps the invariant                                         *)

\* The parts of the invariant for one start and one event.
StartParts(t) ==
  /\ t[1] \in Events /\ start[t].todo \in SUBSET Starts
  /\ StartOK(t) /\ OrderOK(t) /\ UnfailingOK(t) /\ ResourcesOK(t)

HandlerParts(f) ==
  /\ handler[f].batch \in SUBSET Starts /\ handler[f].todo \in SUBSET Starts
  /\ handler[f].before \in SUBSET Starts
  /\ HandlerOK(f) /\ ClosingOK(f)

LEMMA Parts ==
  ASSUME IInv
  PROVE  /\ Structure
         /\ \A t \in Starts : StartParts(t) /\ HandlerParts(t[1])
         /\ \A f \in Events : HandlerParts(f)
<1>1. \A t \in Starts : start[t].todo \in SUBSET Starts
  BY DEF IInv, Structure, Typed, StartType
<1>2. \A f \in Events : /\ handler[f].batch \in SUBSET Starts /\ handler[f].todo \in SUBSET Starts
                        /\ handler[f].before \in SUBSET Starts
  BY DEF IInv, Structure, Typed, HandlerType
<1> QED BY <1>1, <1>2, StartsView DEF IInv, Structure, StartParts, HandlerParts

\* A step that leaves the secrets, the reports, the stage of t and the state of
\* its run alone leaves its resources as they are.
LEMMA ResourcesStay ==
  ASSUME NEW t \in Starts, ResourcesOK(t), setup' = setup, Monotone,
         secrets' = secrets, reported' = reported, start'[t].pc = start[t].pc,
         Exists(t)' <=> Exists(t),
         Exists(t) => runs'[t].state = runs[t].state /\ runs'[t].known = runs[t].known
  PROVE  ResourcesOK(t)'
<1>1. (Failed => Failed') /\ (AtMostOne' => AtMostOne)
  BY DEF Monotone
<1>2. (Made(t)' <=> Made(t)) /\ (Owned(t)' <=> Owned(t))
  BY DEF Made, Owned
<1> QED BY <1>1, <1>2, ZenonT(60) DEF ResourcesOK

LEMMA ReceiveKeeps ==
  ASSUME IInv, NEW e \in Events, Receive(e), setup' = setup
  PROVE  IInv'
<1>1. Structure
  BY Parts
<1>2. /\ Typed'
      /\ handler[e].pc = "expected"
      /\ HandlerStep(e, "matching", handler[e].batch, handler[e].todo, {s \in Starts : Exists(s)})
      /\ start' = start /\ ClusterKept /\ Works
  BY <1>1, ReceiveStep
<1>3. Monotone /\ (Fails => Broke)
  BY <1>1, <1>2, Counts
<1>4. HandlerParts(e)
  BY Parts
<1>5. ASSUME NEW t \in Starts
      PROVE  StartOK(t)' /\ OrderOK(t)' /\ UnfailingOK(t)' /\ ResourcesOK(t)'
  <2>1. StartParts(t) /\ HandlerParts(t[1])
    BY Parts
  <2>2. StartOK(t)'
    BY <1>2, <1>3, <1>4, <2>1
       DEF StartOK, StartParts, HandlerParts, HandlerStep, ClusterKept, Monotone
  <2>3. OrderOK(t)'
    BY <1>2, <1>3, <1>4, <2>1
       DEF OrderOK, StartOK, HandlerOK, Limited, StartParts, HandlerParts, HandlerStep,
           ClusterKept, Monotone
  <2>4. UnfailingOK(t)'
    BY <1>2, <1>3, <1>4, <2>1
       DEF UnfailingOK, StartOK, HandlerOK, ManagerEnabled, StartParts, HandlerParts,
           HandlerStep, ClusterKept, Monotone
  <2>5. ResourcesOK(t)'
    BY <1>2, <1>3, <1>4, <2>1
       DEF ResourcesOK, StartOK, Made, Owned, StartParts, HandlerParts, HandlerStep,
           ClusterKept, Monotone
  <2> QED BY <2>2, <2>3, <2>4, <2>5
<1>6. ASSUME NEW f \in Events
      PROVE  HandlerOK(f)' /\ ClosingOK(f)'
  <2>1. HandlerParts(f)
    BY Parts
  <2>2. HandlerOK(f)'
    BY <1>2, <1>3, <1>4, <2>1
       DEF HandlerOK, ManagerEnabled, StartParts, HandlerParts, HandlerStep, ClusterKept,
           Monotone
  <2>3. ClosingOK(f)'
    BY <1>2, <1>3, <1>4, <2>1
       DEF ClosingOK, HandlerOK, Left, Over, StartParts, HandlerParts, HandlerStep, ClusterKept,
           Monotone
  <2> QED BY <2>2, <2>3
<1> QED BY <1>2, <1>5, <1>6 DEF IInv, Structure

LEMMA ListToCancelKeeps ==
  ASSUME IInv, NEW e \in Events, ListToCancel(e), setup' = setup
  PROVE  IInv'
<1>1. Structure
  BY Parts
<1>2. /\ Typed'
      /\ handler[e].pc = "matching"
      /\ \E todo : /\ todo = IF EventOf[e].target = PullRequestClosed
                             THEN LeftByPullRequest(e) ELSE Commanded(e)
                   /\ HandlerStep(e, "cancelling", handler[e].batch, todo, handler[e].before)
      /\ start' = start /\ ClusterKept /\ Works
  BY <1>1, ListToCancelStep
<1>3. Monotone /\ (Fails => Broke)
  BY <1>1, <1>2, Counts
<1>4. HandlerParts(e)
  BY Parts
<1>5. ASSUME NEW t \in Starts
      PROVE  StartOK(t)' /\ OrderOK(t)' /\ UnfailingOK(t)' /\ ResourcesOK(t)'
  <2>1. StartParts(t) /\ HandlerParts(t[1])
    BY Parts
  <2>2. StartOK(t)'
    BY <1>2, <1>3, <1>4, <2>1
       DEF StartOK, StartParts, HandlerParts, HandlerStep, ClusterKept, Monotone
  <2>3. OrderOK(t)'
    BY <1>2, <1>3, <1>4, <2>1
       DEF OrderOK, StartOK, HandlerOK, Limited, StartParts, HandlerParts, HandlerStep,
           ClusterKept, Monotone
  <2>4. UnfailingOK(t)'
    BY <1>2, <1>3, <1>4, <2>1
       DEF UnfailingOK, StartOK, HandlerOK, ManagerEnabled, StartParts, HandlerParts,
           HandlerStep, ClusterKept, Monotone
  <2>5. ResourcesOK(t)'
    BY <1>2, <1>3, <1>4, <2>1
       DEF ResourcesOK, StartOK, Made, Owned, StartParts, HandlerParts, HandlerStep,
           ClusterKept, Monotone
  <2> QED BY <2>2, <2>3, <2>4, <2>5
<1>6. ASSUME NEW f \in Events
      PROVE  HandlerOK(f)' /\ ClosingOK(f)'
  <2>1. HandlerParts(f)
    BY Parts
  <2>2. HandlerOK(f)'
    <3>1. PICK todo :
            /\ todo = IF EventOf[e].target = PullRequestClosed THEN LeftByPullRequest(e) ELSE Commanded(e)
            /\ HandlerStep(e, "cancelling", handler[e].batch, todo, handler[e].before)
      BY <1>2
    <3>2. \A s \in todo : Exists(s)
      BY <3>1, ListedExist
    <3>3. HandlerStep(e, "cancelling", handler[e].batch, todo, handler[e].before)
      BY <3>1
    <3> QED BY <1>2, <1>4, <2>1, <3>2, <3>3
           DEF HandlerOK, ManagerEnabled, HandlerParts, HandlerStep, ClusterKept
  <2>3. ClosingOK(f)'
    <3>1. PICK todo :
            /\ todo = IF EventOf[e].target = PullRequestClosed THEN LeftByPullRequest(e) ELSE Commanded(e)
            /\ HandlerStep(e, "cancelling", handler[e].batch, todo, handler[e].before)
      BY <1>2
    <3>2. ASSUME EventOf[e].target = PullRequestClosed, NEW s \in Starts, Exists(s), Left(e, s), ~Over(s)
          PROVE  s \in todo
      BY <3>1, <3>2, LeftIsListed
    <3>3. HandlerStep(e, "cancelling", handler[e].batch, todo, handler[e].before)
      BY <3>1
    <3> QED BY <1>2, <1>3, <1>4, <2>1, <3>2, <3>3
            DEF ClosingOK, HandlerOK, Left, Over, HandlerParts, HandlerStep, ClusterKept, Monotone
  <2> QED BY <2>2, <2>3
<1> QED BY <1>2, <1>5, <1>6 DEF IInv, Structure

LEMMA CancelListedKeeps ==
  ASSUME IInv, NEW e \in Events, NEW s \in Starts, CancelListed(e, s), setup' = setup
  PROVE  IInv'
<1>1. Structure
  BY Parts
<1>2. /\ Typed'
      /\ handler[e].pc = "cancelling" /\ s \in handler[e].todo
      /\ HandlerStep(e, "cancelling", handler[e].batch, handler[e].todo \ {s}, handler[e].before)
      /\ start' = start /\ OnlyRuns
  BY <1>1, CancelListedStep
<1>3. /\ RunsTyped /\ OnlyRun(s) /\ Counted
      /\ Keeps(s) /\ KeepsState(s) /\ KeepsOrder(s) /\ KeepsDone(s) /\ KeepsBy(s)
      /\ runs'[s].spec \in {runs[s].spec, CancelledRunFinally}
      /\ Unfailing' => runs'[s].spec = CancelledRunFinally
  BY <1>1, CancelListedView
<1>4. Monotone /\ (Fails => Broke)
  BY <1>1, <1>2, <1>3, Counts
<1>5. HandlerParts(e) /\ StartParts(s)
  BY Parts
<1>6. ASSUME NEW t \in Starts
      PROVE  StartOK(t)' /\ OrderOK(t)' /\ UnfailingOK(t)' /\ ResourcesOK(t)'
  <2>1. StartParts(t) /\ HandlerParts(t[1])
    BY Parts
  <2>2. StartOK(t)'
    BY <1>2, <1>3, <1>4, <1>5, <2>1, ZenonT(60)
       DEF StartOK, StartParts, HandlerParts, HandlerStep, OnlyRuns, Monotone
  <2>3. OrderOK(t)'
    <3>1. CASE t = s
      BY <1>2, <1>3, <1>4, <1>5, <2>1, <3>1, ZenonT(60)
         DEF OrderOK, StartOK, HandlerOK, Limited, StartParts, HandlerParts, HandlerStep,
             OnlyRuns, Monotone
    <3>2. CASE t # s
      BY <1>2, <1>3, <1>4, <1>5, <2>1, <3>2, ZenonT(60)
         DEF OrderOK, StartOK, HandlerOK, Limited, StartParts, HandlerParts, HandlerStep,
             OnlyRuns, Monotone
    <3> QED BY <3>1, <3>2
  <2>4. UnfailingOK(t)'
    <3>1. (Exists(t)' <=> Exists(t)) /\ runs'[t].order = runs[t].order
      BY <1>3 DEF OnlyRun, Keeps, KeepsOrder, Exists
    <3>2. /\ start' = start /\ handler'[t[1]].batch = handler[t[1]].batch
          /\ handler'[t[1]].pc = handler[t[1]].pc
          /\ handler[t[1]].pc = "ordering" => handler'[t[1]].todo = handler[t[1]].todo
      BY <1>2, <2>1 DEF HandlerStep, StartParts
    <3>3. Unfailing' => Unfailing
      BY <1>4 DEF Monotone
    <3> QED BY <2>1, <3>1, <3>2, <3>3 DEF UnfailingOK, ManagerEnabled, StartParts
  <2>5. ResourcesOK(t)'
    <3>1. CASE t = s
      BY <1>2, <1>3, <1>4, <1>5, <2>1, <3>1, ZenonT(60)
         DEF ResourcesOK, Made, Owned, StartParts, OnlyRuns, Monotone
    <3>2. CASE t # s
      BY <1>2, <1>3, <1>4, <1>5, <2>1, <3>2, ZenonT(60)
         DEF ResourcesOK, Made, Owned, StartParts, OnlyRuns, Monotone
    <3> QED BY <3>1, <3>2
  <2> QED BY <2>2, <2>3, <2>4, <2>5
<1>7. ASSUME NEW f \in Events
      PROVE  HandlerOK(f)' /\ ClosingOK(f)'
  <2>1. HandlerParts(f)
    BY Parts
  <2>2. HandlerOK(f)'
    BY <1>2, <1>3, <1>4, <1>5, <2>1
       DEF HandlerOK, ManagerEnabled, StartParts, HandlerParts, HandlerStep, OnlyRuns, Monotone
  <2>3. ClosingOK(f)'
    BY <1>2, <1>3, <1>4, <1>5, <2>1
       DEF ClosingOK, HandlerOK, Left, Over, StartParts, HandlerParts, HandlerStep, OnlyRuns,
           Monotone
  <2> QED BY <2>2, <2>3
<1> QED BY <1>2, <1>6, <1>7 DEF IInv, Structure

LEMMA MatchedKeeps ==
  ASSUME IInv, NEW e \in Events, Matched(e), setup' = setup
  PROVE  IInv'
<1>1. Structure
  BY Parts
<1>2. /\ Typed'
      /\ handler[e].pc = "matching" /\ EventOf[e].target # PullRequestClosed
      /\ \E pc \in {"starting", "done"} :
           HandlerStep(e, pc, handler[e].batch, handler[e].todo, handler[e].before)
      /\ MatchedBy[e] # {} => handler'[e].pc = "starting"
      /\ \A s \in Starts :
          IF s[1] = e
          THEN /\ start'[s].pc = (IF setup.secretAutoCreation THEN "secret" ELSE "create")
               /\ start'[s].todo = {}
          ELSE start'[s] = start[s]
      /\ ClusterKept /\ Works
  BY <1>1, MatchedStep
<1>3. Monotone /\ (Fails => Broke)
  BY <1>1, <1>2, Counts
<1>4. HandlerParts(e)
  BY Parts
<1>5. \A t \in Starts : t[1] = e => MatchedBy[e] # {}
  BY DEF Starts
<1>6. ASSUME NEW t \in Starts
      PROVE  StartOK(t)' /\ OrderOK(t)' /\ UnfailingOK(t)' /\ ResourcesOK(t)'
  <2>1. StartParts(t) /\ HandlerParts(t[1])
    BY Parts
  <2>2. StartOK(t)'
    <3>1. CASE t[1] = e
      BY <1>2, <1>3, <1>4, <1>5, <2>1, <3>1
         DEF StartOK, StartParts, HandlerParts, HandlerStep, ClusterKept, Monotone
    <3>2. CASE t[1] # e
      BY <1>2, <1>3, <1>4, <2>1, <3>2
         DEF StartOK, StartParts, HandlerParts, HandlerStep, ClusterKept, Monotone
    <3> QED BY <3>1, <3>2
  <2>3. OrderOK(t)'
    <3>1. CASE t[1] = e
      BY <1>2, <1>3, <1>4, <2>1, <3>1
         DEF OrderOK, StartOK, HandlerOK, Limited, StartParts, HandlerParts, HandlerStep,
             ClusterKept, Monotone
    <3>2. CASE t[1] # e
      BY <1>2, <1>3, <1>4, <2>1, <3>2, ZenonT(60)
         DEF OrderOK, StartOK, HandlerOK, Limited, StartParts, HandlerParts, HandlerStep,
             ClusterKept, Monotone
    <3> QED BY <3>1, <3>2
  <2>4. UnfailingOK(t)'
    BY <1>2, <1>3, <1>4, <1>5, <2>1
       DEF UnfailingOK, StartOK, HandlerOK, ManagerEnabled, StartParts, HandlerParts,
           HandlerStep, ClusterKept, Monotone
  <2>5. ResourcesOK(t)'
    BY <1>2, <1>3, <1>4, <1>5, <2>1, ZenonT(60)
       DEF ResourcesOK, StartOK, Made, Owned, StartParts, HandlerParts, HandlerStep,
           ClusterKept, Monotone
  <2> QED BY <2>2, <2>3, <2>4, <2>5
<1>7. ASSUME NEW f \in Events
      PROVE  HandlerOK(f)' /\ ClosingOK(f)'
  <2>1. HandlerParts(f)
    BY Parts
  <2>2. HandlerOK(f)'
    BY <1>2, <1>3, <1>4, <1>5, <2>1
       DEF HandlerOK, ManagerEnabled, StartParts, HandlerParts, HandlerStep, ClusterKept,
           Monotone
  <2>3. ClosingOK(f)'
    BY <1>2, <1>3, <1>4, <1>5, <2>1
       DEF ClosingOK, HandlerOK, Left, Over, StartParts, HandlerParts, HandlerStep, ClusterKept,
           Monotone
  <2> QED BY <2>2, <2>3
<1> QED BY <1>2, <1>6, <1>7 DEF IInv, Structure

LEMMA GiveUpKeeps ==
  ASSUME IInv, NEW e \in Events, GiveUp(e), setup' = setup
  PROVE  IInv'
<1>1. Structure
  BY Parts
<1>2. /\ Typed'
      /\ handler[e].pc = "matching"
      /\ HandlerStep(e, "done", handler[e].batch, handler[e].todo, handler[e].before)
      /\ start' = start /\ ClusterKept /\ Fails
  BY <1>1, GiveUpStep
<1>3. Monotone /\ (Fails => Broke)
  BY <1>1, <1>2, Counts
<1>4. HandlerParts(e)
  BY Parts
<1>5. ASSUME NEW t \in Starts
      PROVE  StartOK(t)' /\ OrderOK(t)' /\ UnfailingOK(t)' /\ ResourcesOK(t)'
  <2>1. StartParts(t) /\ HandlerParts(t[1])
    BY Parts
  <2>2. StartOK(t)'
    BY <1>2, <1>3, <1>4, <2>1
       DEF StartOK, StartParts, HandlerParts, HandlerStep, ClusterKept, Monotone, Broke
  <2>3. OrderOK(t)'
    BY <1>2, <1>3, <1>4, <2>1
       DEF OrderOK, StartOK, HandlerOK, Limited, StartParts, HandlerParts, HandlerStep,
           ClusterKept, Monotone, Broke
  <2>4. UnfailingOK(t)'
    BY <1>2, <1>3, <1>4, <2>1
       DEF UnfailingOK, StartOK, HandlerOK, ManagerEnabled, StartParts, HandlerParts,
           HandlerStep, ClusterKept, Monotone, Broke
  <2>5. ResourcesOK(t)'
    BY <1>2, <1>3, <1>4, <2>1
       DEF ResourcesOK, StartOK, Made, Owned, StartParts, HandlerParts, HandlerStep,
           ClusterKept, Monotone, Broke
  <2> QED BY <2>2, <2>3, <2>4, <2>5
<1>6. ASSUME NEW f \in Events
      PROVE  HandlerOK(f)' /\ ClosingOK(f)'
  <2>1. HandlerParts(f)
    BY Parts
  <2>2. HandlerOK(f)'
    BY <1>2, <1>3, <1>4, <2>1
       DEF HandlerOK, ManagerEnabled, StartParts, HandlerParts, HandlerStep, ClusterKept,
           Monotone, Broke
  <2>3. ClosingOK(f)'
    BY <1>2, <1>3, <1>4, <2>1
       DEF ClosingOK, HandlerOK, Left, Over, StartParts, HandlerParts, HandlerStep, ClusterKept,
           Monotone, Broke
  <2> QED BY <2>2, <2>3
<1> QED BY <1>2, <1>5, <1>6 DEF IInv, Structure

LEMMA HandlerDoneKeeps ==
  ASSUME IInv, NEW e \in Events, HandlerDone(e), setup' = setup
  PROVE  IInv'
<1>1. Structure
  BY Parts
<1>2. /\ Typed'
      /\ handler[e].pc \in {"cancelling", "ordering"} /\ handler[e].todo = {}
      /\ HandlerStep(e, "done", handler[e].batch, handler[e].todo, handler[e].before)
      /\ start' = start /\ ClusterKept /\ Works
  BY <1>1, HandlerDoneStep
<1>3. Monotone /\ (Fails => Broke)
  BY <1>1, <1>2, Counts
<1>4. HandlerParts(e)
  BY Parts
<1>5. ASSUME NEW t \in Starts
      PROVE  StartOK(t)' /\ OrderOK(t)' /\ UnfailingOK(t)' /\ ResourcesOK(t)'
  <2>1. StartParts(t) /\ HandlerParts(t[1])
    BY Parts
  <2>2. StartOK(t)'
    BY <1>2, <1>3, <1>4, <2>1
       DEF StartOK, StartParts, HandlerParts, HandlerStep, ClusterKept, Monotone
  <2>3. OrderOK(t)'
    BY <1>2, <1>3, <1>4, <2>1
       DEF OrderOK, StartOK, HandlerOK, Limited, StartParts, HandlerParts, HandlerStep,
           ClusterKept, Monotone
  <2>4. UnfailingOK(t)'
    BY <1>2, <1>3, <1>4, <2>1, ZenonT(60)
       DEF UnfailingOK, StartOK, HandlerOK, ManagerEnabled, StartParts, HandlerParts,
           HandlerStep, ClusterKept, Monotone
  <2>5. ResourcesOK(t)'
    BY <1>2, <1>3, <1>4, <2>1
       DEF ResourcesOK, StartOK, Made, Owned, StartParts, HandlerParts, HandlerStep,
           ClusterKept, Monotone
  <2> QED BY <2>2, <2>3, <2>4, <2>5
<1>6. ASSUME NEW f \in Events
      PROVE  HandlerOK(f)' /\ ClosingOK(f)'
  <2>1. HandlerParts(f)
    BY Parts
  <2>2. HandlerOK(f)'
    BY <1>2, <1>3, <1>4, <2>1
       DEF HandlerOK, ManagerEnabled, StartParts, HandlerParts, HandlerStep, ClusterKept,
           Monotone
  <2>3. ClosingOK(f)'
    BY <1>2, <1>3, <1>4, <2>1
       DEF ClosingOK, HandlerOK, Left, Over, StartParts, HandlerParts, HandlerStep, ClusterKept,
           Monotone
  <2> QED BY <2>2, <2>3
<1> QED BY <1>2, <1>5, <1>6 DEF IInv, Structure

LEMMA GetExecutionOrderKeeps ==
  ASSUME IInv, NEW e \in Events, GetExecutionOrder(e), setup' = setup
  PROVE  IInv'
<1>1. Structure
  BY Parts
<1>2. /\ Typed'
      /\ handler[e].pc = "starting" /\ AllStarted(e)
      /\ HandlerStep(e, "ordering", handler[e].batch, handler[e].batch, handler[e].before)
      /\ start' = start /\ ClusterKept /\ Works
  BY <1>1, GetExecutionOrderStep
<1>3. Monotone /\ (Fails => Broke)
  BY <1>1, <1>2, Counts
<1>4. HandlerParts(e)
  BY Parts
<1>5. ASSUME NEW t \in Starts
      PROVE  StartOK(t)' /\ OrderOK(t)' /\ UnfailingOK(t)' /\ ResourcesOK(t)'
  <2>1. StartParts(t) /\ HandlerParts(t[1])
    BY Parts
  <2>2. StartOK(t)'
    <3>1. CASE t[1] = e
      BY <1>2, <1>3, <1>4, <2>1, <3>1, Awaited
         DEF StartOK, StartParts, HandlerParts, HandlerStep, ClusterKept, Monotone
    <3>2. CASE t[1] # e
      BY <1>2, <1>3, <1>4, <2>1, <3>2
         DEF StartOK, StartParts, HandlerParts, HandlerStep, ClusterKept, Monotone
    <3> QED BY <3>1, <3>2
  <2>3. OrderOK(t)'
    BY <1>2, <1>3, <1>4, <2>1
       DEF OrderOK, StartOK, HandlerOK, Limited, StartParts, HandlerParts, HandlerStep,
           ClusterKept, Monotone
  <2>4. UnfailingOK(t)'
    BY <1>2, <1>3, <1>4, <2>1
       DEF UnfailingOK, StartOK, HandlerOK, ManagerEnabled, StartParts, HandlerParts,
           HandlerStep, ClusterKept, Monotone
  <2>5. ResourcesOK(t)'
    BY <1>2, <1>3, <1>4, <2>1
       DEF ResourcesOK, StartOK, Made, Owned, StartParts, HandlerParts, HandlerStep,
           ClusterKept, Monotone
  <2> QED BY <2>2, <2>3, <2>4, <2>5
<1>6. ASSUME NEW f \in Events
      PROVE  HandlerOK(f)' /\ ClosingOK(f)'
  <2>1. HandlerParts(f)
    BY Parts
  <2>2. HandlerOK(f)'
    BY <1>2, <1>3, <1>4, <2>1
       DEF HandlerOK, ManagerEnabled, StartParts, HandlerParts, HandlerStep, ClusterKept,
           Monotone
  <2>3. ClosingOK(f)'
    BY <1>2, <1>3, <1>4, <2>1
       DEF ClosingOK, HandlerOK, Left, Over, StartParts, HandlerParts, HandlerStep, ClusterKept,
           Monotone
  <2> QED BY <2>2, <2>3
<1> QED BY <1>2, <1>5, <1>6 DEF IInv, Structure

LEMMA PatchOrderKeeps ==
  ASSUME IInv, NEW e \in Events, NEW s \in Starts, PatchOrder(e, s), setup' = setup
  PROVE  IInv'
<1>1. Structure
  BY Parts
<1>2. /\ Typed'
      /\ handler[e].pc = "ordering" /\ s \in handler[e].todo
      /\ HandlerStep(e, "ordering", handler[e].batch, handler[e].todo \ {s}, handler[e].before)
      /\ start' = start /\ OnlyRuns
  BY <1>1, PatchOrderStep
<1>3. /\ RunsTyped /\ OnlyRun(s) /\ Counted
      /\ Keeps(s) /\ KeepsSpec(s) /\ KeepsState(s) /\ KeepsDone(s) /\ KeepsBy(s)
      /\ runs'[s].order \in {runs[s].order, handler[e].batch}
      /\ Unfailing' => runs'[s].order = handler[e].batch
  BY <1>1, PatchOrderView
<1>4. Monotone /\ (Fails => Broke)
  BY <1>1, <1>2, <1>3, Counts
<1>5. HandlerParts(e) /\ StartParts(s)
  BY Parts
<1>6. /\ s \in handler[e].batch /\ s[1] = e
      /\ \A q \in Starts : q[1] = e => start[q].pc = "done"
  <2>1. s \in handler[e].batch /\ s[1] = e
    BY <1>2, <1>5 DEF HandlerParts, HandlerOK
  <2>2. ASSUME NEW q \in Starts, q[1] = e
        PROVE  start[q].pc = "done"
    BY <1>2, <2>2, Parts DEF StartParts, StartOK
  <2> QED BY <2>1, <2>2
<1>7. ASSUME NEW t \in Starts
      PROVE  StartOK(t)' /\ OrderOK(t)' /\ UnfailingOK(t)' /\ ResourcesOK(t)'
  <2>1. StartParts(t) /\ HandlerParts(t[1])
    BY Parts
  <2>2. StartOK(t)'
    BY <1>2, <1>3, <1>4, <1>5, <2>1, ZenonT(60)
       DEF StartOK, StartParts, HandlerParts, HandlerStep, OnlyRuns, Monotone
  <2>3. OrderOK(t)'
    <3>1. CASE t = s
      BY <1>2, <1>3, <1>4, <1>5, <1>6, <2>1, <3>1
         DEF OrderOK, StartOK, HandlerOK, Limited, StartParts, HandlerParts, HandlerStep,
             OnlyRuns, Monotone
    <3>2. CASE t # s
      BY <1>2, <1>3, <1>4, <1>5, <2>1, <3>2, ZenonT(60)
         DEF OrderOK, StartOK, HandlerOK, Limited, StartParts, HandlerParts, HandlerStep,
             OnlyRuns, Monotone
    <3> QED BY <3>1, <3>2
  <2>4. UnfailingOK(t)'
    <3>1. CASE t = s
      BY <1>2, <1>3, <1>4, <1>5, <1>6, <2>1, <3>1
         DEF UnfailingOK, StartOK, HandlerOK, ManagerEnabled, StartParts, HandlerParts,
             HandlerStep, OnlyRuns, Monotone
    <3>2. CASE t # s
      <4>1. /\ runs'[t] = runs[t] /\ start'[t] = start[t] /\ handler'[t[1]].batch = handler[t[1]].batch
            /\ handler'[t[1]].pc = handler[t[1]].pc
            /\ t \notin handler'[t[1]].todo => t \notin handler[t[1]].todo
            /\ Unfailing' => Unfailing
        BY <1>2, <1>3, <1>4, <2>1, <3>2 DEF HandlerStep, StartParts, Monotone
      <4> QED BY <2>1, <4>1 DEF UnfailingOK, ManagerEnabled, StartParts
    <3> QED BY <3>1, <3>2
  <2>5. ResourcesOK(t)'
    <3>1. /\ Exists(t)' <=> Exists(t)
          /\ runs'[t].state = runs[t].state /\ runs'[t].known = runs[t].known
      BY <1>3 DEF OnlyRun, Keeps, KeepsState, Exists
    <3>2. start'[t].pc = start[t].pc /\ secrets' = secrets /\ reported' = reported
      BY <1>2 DEF OnlyRuns
    <3> QED BY <1>4, <2>1, <3>1, <3>2, ResourcesStay DEF StartParts
  <2> QED BY <2>2, <2>3, <2>4, <2>5
<1>8. ASSUME NEW f \in Events
      PROVE  HandlerOK(f)' /\ ClosingOK(f)'
  <2>1. HandlerParts(f)
    BY Parts
  <2>2. HandlerOK(f)'
    BY <1>2, <1>3, <1>4, <1>5, <1>6, <2>1
       DEF HandlerOK, ManagerEnabled, StartParts, HandlerParts, HandlerStep, OnlyRuns, Monotone
  <2>3. ClosingOK(f)'
    BY <1>2, <1>3, <1>4, <1>5, <1>6, <2>1
       DEF ClosingOK, HandlerOK, Left, Over, StartParts, HandlerParts, HandlerStep, OnlyRuns,
           Monotone
  <2> QED BY <2>2, <2>3
<1> QED BY <1>2, <1>7, <1>8 DEF IInv, Structure

LEMMA CrashKeeps ==
  ASSUME IInv, Crash, setup' = setup
  PROVE  IInv'
<1>1. Structure
  BY Parts
<1>2. /\ Typed'
      /\ \A e \in Events : /\ Active(e) => handler'[e].pc = "dead"
                           /\ ~Active(e) => handler'[e].pc = handler[e].pc
      /\ \A e \in Events : /\ handler'[e].batch = handler[e].batch /\ handler'[e].todo = handler[e].todo
                          /\ handler'[e].before = handler[e].before
      /\ start' = start /\ ClusterKept /\ Works
  BY <1>1, CrashStep
<1>3. Monotone /\ (Fails => Broke)
  BY <1>1, <1>2, Counts
<1>4. ASSUME NEW t \in Starts
      PROVE  StartOK(t)' /\ OrderOK(t)' /\ UnfailingOK(t)' /\ ResourcesOK(t)'
  <2>1. StartParts(t) /\ HandlerParts(t[1])
    BY Parts
  <2>2. StartOK(t)'
    BY <1>2, <1>3, <2>1 DEF StartOK, StartParts, HandlerParts, ClusterKept, Monotone, Active
  <2>3. OrderOK(t)'
    BY <1>2, <1>3, <2>1
       DEF OrderOK, StartOK, HandlerOK, Limited, StartParts, HandlerParts, ClusterKept,
           Monotone, Active
  <2>4. UnfailingOK(t)'
    BY <1>2, <1>3, <2>1
       DEF UnfailingOK, StartOK, HandlerOK, ManagerEnabled, StartParts, HandlerParts,
           ClusterKept, Monotone, Active
  <2>5. ResourcesOK(t)'
    BY <1>2, <1>3, <2>1
       DEF ResourcesOK, StartOK, Made, Owned, StartParts, HandlerParts, ClusterKept, Monotone,
           Active
  <2> QED BY <2>2, <2>3, <2>4, <2>5
<1>5. ASSUME NEW f \in Events
      PROVE  HandlerOK(f)' /\ ClosingOK(f)'
  <2>1. HandlerParts(f)
    BY Parts
  <2>2. HandlerOK(f)'
    BY <1>2, <1>3, <2>1
       DEF HandlerOK, ManagerEnabled, StartParts, HandlerParts, ClusterKept, Monotone, Active
  <2>3. ClosingOK(f)'
    BY <1>2, <1>3, <2>1
       DEF ClosingOK, HandlerOK, Left, Over, StartParts, HandlerParts, ClusterKept, Monotone,
           Active
  <2> QED BY <2>2, <2>3
<1> QED BY <1>2, <1>4, <1>5 DEF IInv, Structure

LEMMA CreateSecretKeeps ==
  ASSUME IInv, NEW s \in Starts, CreateSecret(s), setup' = setup
  PROVE  IInv'
<1>1. Structure
  BY Parts
<1>2. /\ Typed'
      /\ \/ /\ OneStart(s, "secret", "create", start[s].todo) /\ Works
            /\ \E value \in {"taken", "unowned"} : Secret(s, value)
         \/ /\ OneStart(s, "secret", "failed", start[s].todo) /\ Fails
            /\ \E value \in {secrets[s], "lost"} : Secret(s, value)
      /\ runs' = runs /\ reported' = reported
  BY <1>1, CreateSecretStep
<1>3. Monotone /\ (Fails => Broke)
  BY <1>1, <1>2, Counts
<1>4. StartParts(s) /\ HandlerParts(s[1])
  BY Parts
<1>5. ASSUME NEW t \in Starts
      PROVE  StartOK(t)' /\ OrderOK(t)' /\ UnfailingOK(t)' /\ ResourcesOK(t)'
  <2>1. StartParts(t) /\ HandlerParts(t[1])
    BY Parts
  <2>2. StartOK(t)'
    BY <1>2, <1>3, <1>4, <2>1, ZenonT(60)
       DEF StartOK, StartParts, HandlerParts, StartStep, OneStart, Secret, Monotone, Broke
  <2>3. OrderOK(t)'
    BY <1>2, <1>3, <1>4, <2>1, ZenonT(60)
       DEF OrderOK, StartOK, HandlerOK, Limited, StartParts, HandlerParts, StartStep, OneStart,
           Secret, Monotone, Broke
  <2>4. UnfailingOK(t)'
    BY <1>2, <1>3, <1>4, <2>1
       DEF UnfailingOK, StartOK, HandlerOK, ManagerEnabled, StartParts, HandlerParts, StartStep,
           OneStart, Secret, Monotone, Broke
  <2>5. ResourcesOK(t)'
    <3>1. CASE t = s
      <4>1. /\ ~Exists(s) /\ ~Exists(s)' /\ secrets[s] \in {"none", "taken"}
            /\ start[s].pc = "secret" /\ setup.secretAutoCreation
        BY <1>2, <1>4 DEF StartParts, StartOK, ResourcesOK, OneStart
      <4> QED BY <1>2, <1>3, <3>1, <4>1
              DEF ResourcesOK, Made, Owned, StartStep, OneStart, Secret, Monotone, Broke
    <3>2. CASE t # s
      BY <1>2, <1>3, <1>4, <2>1, <3>2, ZenonT(60)
         DEF ResourcesOK, StartOK, Made, Owned, StartParts, HandlerParts, StartStep, OneStart,
             Secret, Monotone, Broke
    <3> QED BY <3>1, <3>2
  <2> QED BY <2>2, <2>3, <2>4, <2>5
<1>6. ASSUME NEW f \in Events
      PROVE  HandlerOK(f)' /\ ClosingOK(f)'
  <2>1. HandlerParts(f)
    BY Parts
  <2>2. HandlerOK(f)'
    BY <1>2, <1>3, <1>4, <2>1
       DEF HandlerOK, ManagerEnabled, StartParts, HandlerParts, StartStep, OneStart, Secret,
           Monotone, Broke
  <2>3. ClosingOK(f)'
    BY <1>2, <1>3, <1>4, <2>1
       DEF ClosingOK, HandlerOK, Left, Over, StartParts, HandlerParts, StartStep, OneStart,
           Secret, Monotone, Broke
  <2> QED BY <2>2, <2>3
<1> QED BY <1>2, <1>5, <1>6 DEF IInv, Structure

LEMMA CreateRunKeeps ==
  ASSUME IInv, NEW s \in Starts, CreateRun(s), setup' = setup
  PROVE  IInv'
<1>1. Structure
  BY Parts
<1>2. /\ Typed'
      /\ OneStart(s, "create",
                  IF setup.secretAutoCreation THEN "own" ELSE "report", start[s].todo)
      /\ OnlyRuns /\ Works
  BY <1>1, CreateRunStep
<1>3. /\ RunsTyped /\ OnlyRun(s) /\ ~Exists(s) /\ runs'[s] = newRun(s[2])
  BY <1>1, CreateRunView
<1>4. Monotone /\ (Fails => Broke)
  BY <1>1, <1>2, <1>3, Counts
<1>5. StartParts(s) /\ HandlerParts(s[1])
  BY Parts
<1>6. /\ newRun(s[2]) # NoRun /\ newRun(s[2]).state = None
      /\ newRun(s[2]).order = {} /\ ~newRun(s[2]).done /\ newRun(s[2]).known
  BY NewRunFields, RunChanges
<1>7. ASSUME NEW t \in Starts
      PROVE  StartOK(t)' /\ OrderOK(t)' /\ UnfailingOK(t)' /\ ResourcesOK(t)'
  <2>1. StartParts(t) /\ HandlerParts(t[1])
    BY Parts
  <2>2. StartOK(t)'
    <3>1. CASE t = s
      BY <1>2, <1>3, <1>4, <1>5, <1>6, <2>1, <3>1, ZenonT(60)
         DEF StartOK, StartParts, HandlerParts, StartStep, OneStart, OnlyRuns, Monotone
    <3>2. CASE t # s
      BY <1>2, <1>3, <1>4, <1>5, <2>1, <3>2
         DEF StartOK, StartParts, HandlerParts, StartStep, OneStart, OnlyRuns, Monotone
    <3> QED BY <3>1, <3>2
  <2>3. OrderOK(t)'
    <3>1. CASE t = s
      BY <1>2, <1>3, <1>4, <1>5, <1>6, <2>1, <3>1
         DEF OrderOK, StartOK, HandlerOK, Limited, StartParts, HandlerParts, StartStep,
             OneStart, OnlyRuns, Monotone, None
    <3>2. CASE t # s
      BY <1>2, <1>3, <1>4, <1>5, <2>1, <3>2, ZenonT(60)
         DEF OrderOK, StartOK, HandlerOK, Limited, StartParts, HandlerParts, StartStep,
             OneStart, OnlyRuns, Monotone
    <3> QED BY <3>1, <3>2
  <2>4. UnfailingOK(t)'
    BY <1>2, <1>3, <1>4, <1>5, <1>6, <2>1, ZenonT(60)
       DEF UnfailingOK, StartOK, HandlerOK, ManagerEnabled, StartParts, HandlerParts, StartStep,
           OneStart, OnlyRuns, Monotone
  <2>5. ResourcesOK(t)'
    <3>1. CASE t = s
      BY <1>2, <1>3, <1>4, <1>5, <1>6, <2>1, <3>1
         DEF ResourcesOK, StartOK, Made, Owned, StartParts, HandlerParts, StartStep, OneStart,
             OnlyRuns, Monotone
    <3>2. CASE t # s
      BY <1>2, <1>3, <1>4, <1>5, <2>1, <3>2, ZenonT(60)
         DEF ResourcesOK, StartOK, Made, Owned, StartParts, HandlerParts, StartStep, OneStart,
             OnlyRuns, Monotone
    <3> QED BY <3>1, <3>2
  <2> QED BY <2>2, <2>3, <2>4, <2>5
<1>8. ASSUME NEW f \in Events
      PROVE  HandlerOK(f)' /\ ClosingOK(f)'
  <2>1. HandlerParts(f)
    BY Parts
  <2>2. HandlerOK(f)'
    BY <1>2, <1>3, <1>4, <1>5, <1>6, <2>1
       DEF HandlerOK, ManagerEnabled, StartParts, HandlerParts, StartStep, OneStart, OnlyRuns,
           Monotone
  <2>3. ClosingOK(f)'
    BY <1>2, <1>3, <1>4, <1>5, <1>6, <2>1
       DEF ClosingOK, HandlerOK, Left, Over, StartParts, HandlerParts, StartStep, OneStart,
           OnlyRuns, Monotone
  <2> QED BY <2>2, <2>3
<1> QED BY <1>2, <1>7, <1>8 DEF IInv, Structure

LEMMA CreateFailsKeeps ==
  ASSUME IInv, NEW s \in Starts, CreateFails(s), setup' = setup
  PROVE  IInv'
<1>1. Structure
  BY Parts
<1>2. /\ Typed'
      /\ OneStart(s, "create",
                  IF setup.secretAutoCreation THEN "unsecret" ELSE "failed", start[s].todo)
      /\ OnlyRuns /\ Fails
  BY <1>1, CreateFailsStep
<1>3. /\ RunsTyped /\ OnlyRun(s) /\ ~Exists(s)
      /\ runs'[s] # NoRun => /\ runs'[s].state = None /\ runs'[s].order = {}
                             /\ ~runs'[s].done /\ ~runs'[s].known /\ runs'[s].by = <<>>
  BY <1>1, CreateFailsView
<1>4. Monotone /\ (Fails => Broke)
  BY <1>1, <1>2, <1>3, Counts
<1>5. StartParts(s) /\ HandlerParts(s[1])
  BY Parts
<1>6. ASSUME NEW t \in Starts
      PROVE  StartOK(t)' /\ OrderOK(t)' /\ UnfailingOK(t)' /\ ResourcesOK(t)'
  <2>1. StartParts(t) /\ HandlerParts(t[1])
    BY Parts
  <2>2. StartOK(t)'
    <3>1. CASE t = s
      BY <1>2, <1>3, <1>4, <1>5, <2>1, <3>1
         DEF StartOK, StartParts, HandlerParts, StartStep, OneStart, OnlyRuns, Monotone, Broke
    <3>2. CASE t # s
      BY <1>2, <1>3, <1>4, <1>5, <2>1, <3>2
         DEF StartOK, StartParts, HandlerParts, StartStep, OneStart, OnlyRuns, Monotone, Broke
    <3> QED BY <3>1, <3>2
  <2>3. OrderOK(t)'
    <3>1. CASE t = s
      BY <1>2, <1>3, <1>4, <1>5, <2>1, <3>1
         DEF OrderOK, StartOK, HandlerOK, Limited, StartParts, HandlerParts, StartStep,
             OneStart, OnlyRuns, Monotone, Broke, None
    <3>2. CASE t # s
      BY <1>2, <1>3, <1>4, <1>5, <2>1, <3>2, ZenonT(60)
         DEF OrderOK, StartOK, HandlerOK, Limited, StartParts, HandlerParts, StartStep,
             OneStart, OnlyRuns, Monotone, Broke
    <3> QED BY <3>1, <3>2
  <2>4. UnfailingOK(t)'
    BY <1>2, <1>3, <1>4, <1>5, <2>1
       DEF UnfailingOK, StartOK, HandlerOK, ManagerEnabled, StartParts, HandlerParts, StartStep,
           OneStart, OnlyRuns, Monotone, Broke
  <2>5. ResourcesOK(t)'
    <3>1. CASE t = s
      <4>1. /\ secrets'[s] = secrets[s] /\ start[s].pc = "create" /\ Broke
            /\ start'[s].pc = IF setup.secretAutoCreation THEN "unsecret" ELSE "failed"
        BY <1>2, <1>4 DEF StartStep, OneStart, OnlyRuns
      <4>2. Made(s)
        BY <1>5, <4>1 DEF StartParts, ResourcesOK
      <4>3. ~setup.secretAutoCreation => secrets[s] # "unowned"
        BY <1>5, <4>1 DEF StartParts, ResourcesOK
      <4> QED BY <1>3, <3>1, <4>1, <4>2, <4>3 DEF ResourcesOK, Made, Owned, Broke
    <3>2. CASE t # s
      BY <1>2, <1>3, <1>4, <1>5, <2>1, <3>2, ZenonT(60)
         DEF ResourcesOK, StartOK, Made, Owned, StartParts, HandlerParts, StartStep, OneStart,
             OnlyRuns, Monotone, Broke
    <3> QED BY <3>1, <3>2
  <2> QED BY <2>2, <2>3, <2>4, <2>5
<1>7. ASSUME NEW f \in Events
      PROVE  HandlerOK(f)' /\ ClosingOK(f)'
  <2>1. HandlerParts(f)
    BY Parts
  <2>2. HandlerOK(f)'
    BY <1>2, <1>3, <1>4, <1>5, <2>1
       DEF HandlerOK, ManagerEnabled, StartParts, HandlerParts, StartStep, OneStart, OnlyRuns,
           Monotone, Broke
  <2>3. ClosingOK(f)'
    BY <1>2, <1>3, <1>4, <1>5, <2>1
       DEF ClosingOK, HandlerOK, Left, Over, StartParts, HandlerParts, StartStep, OneStart,
           OnlyRuns, Monotone, Broke
  <2> QED BY <2>2, <2>3
<1> QED BY <1>2, <1>6, <1>7 DEF IInv, Structure

LEMMA DeleteSecretKeeps ==
  ASSUME IInv, NEW s \in Starts, DeleteSecret(s), setup' = setup
  PROVE  IInv'
<1>1. Structure
  BY Parts
<1>2. /\ Typed'
      /\ OneStart(s, "unsecret", "failed", start[s].todo)
      /\ (Secret(s, "none") /\ (Works \/ Fails)) \/ (secrets' = secrets /\ Fails)
      /\ runs' = runs /\ reported' = reported
  BY <1>1, DeleteSecretStep
<1>3. Monotone /\ (Fails => Broke)
  BY <1>1, <1>2, Counts
<1>4. StartParts(s) /\ HandlerParts(s[1])
  BY Parts
<1>5. ASSUME NEW t \in Starts
      PROVE  StartOK(t)' /\ OrderOK(t)' /\ UnfailingOK(t)' /\ ResourcesOK(t)'
  <2>1. StartParts(t) /\ HandlerParts(t[1])
    BY Parts
  <2>2. StartOK(t)'
    BY <1>2, <1>3, <1>4, <2>1
       DEF StartOK, StartParts, HandlerParts, StartStep, OneStart, Secret, Monotone, Broke
  <2>3. OrderOK(t)'
    BY <1>2, <1>3, <1>4, <2>1, ZenonT(60)
       DEF OrderOK, StartOK, HandlerOK, Limited, StartParts, HandlerParts, StartStep, OneStart,
           Secret, Monotone, Broke
  <2>4. UnfailingOK(t)'
    BY <1>2, <1>3, <1>4, <2>1
       DEF UnfailingOK, StartOK, HandlerOK, ManagerEnabled, StartParts, HandlerParts, StartStep,
           OneStart, Secret, Monotone, Broke
  <2>5. ResourcesOK(t)'
    BY <1>2, <1>3, <1>4, <2>1, ZenonT(60)
       DEF ResourcesOK, StartOK, Made, Owned, StartParts, HandlerParts, StartStep, OneStart,
           Secret, Monotone, Broke
  <2> QED BY <2>2, <2>3, <2>4, <2>5
<1>6. ASSUME NEW f \in Events
      PROVE  HandlerOK(f)' /\ ClosingOK(f)'
  <2>1. HandlerParts(f)
    BY Parts
  <2>2. HandlerOK(f)'
    BY <1>2, <1>3, <1>4, <2>1
       DEF HandlerOK, ManagerEnabled, StartParts, HandlerParts, StartStep, OneStart, Secret,
           Monotone, Broke
  <2>3. ClosingOK(f)'
    BY <1>2, <1>3, <1>4, <2>1
       DEF ClosingOK, HandlerOK, Left, Over, StartParts, HandlerParts, StartStep, OneStart,
           Secret, Monotone, Broke
  <2> QED BY <2>2, <2>3
<1> QED BY <1>2, <1>5, <1>6 DEF IInv, Structure

LEMMA UpdateSecretWithOwnerRefKeeps ==
  ASSUME IInv, NEW s \in Starts, UpdateSecretWithOwnerRef(s), setup' = setup
  PROVE  IInv'
<1>1. Structure
  BY Parts
<1>2. /\ Typed'
      /\ \/ OneStart(s, "own", "report", start[s].todo) /\ Secret(s, "owned") /\ Works
         \/ /\ OneStart(s, "own", "failed with run", start[s].todo) /\ Fails
            /\ \E value \in {secrets[s], "owned"} : Secret(s, value)
      /\ runs' = runs /\ reported' = reported
  BY <1>1, UpdateSecretWithOwnerRefStep
<1>3. Monotone /\ (Fails => Broke)
  BY <1>1, <1>2, Counts
<1>4. StartParts(s) /\ HandlerParts(s[1])
  BY Parts
<1>5. ASSUME NEW t \in Starts
      PROVE  StartOK(t)' /\ OrderOK(t)' /\ UnfailingOK(t)' /\ ResourcesOK(t)'
  <2>1. StartParts(t) /\ HandlerParts(t[1])
    BY Parts
  <2>2. StartOK(t)'
    BY <1>2, <1>3, <1>4, <2>1
       DEF StartOK, StartParts, HandlerParts, StartStep, OneStart, Secret, Monotone, Broke
  <2>3. OrderOK(t)'
    BY <1>2, <1>3, <1>4, <2>1, ZenonT(60)
       DEF OrderOK, StartOK, HandlerOK, Limited, StartParts, HandlerParts, StartStep, OneStart,
           Secret, Monotone, Broke
  <2>4. UnfailingOK(t)'
    BY <1>2, <1>3, <1>4, <2>1
       DEF UnfailingOK, StartOK, HandlerOK, ManagerEnabled, StartParts, HandlerParts, StartStep,
           OneStart, Secret, Monotone, Broke
  <2>5. ResourcesOK(t)'
    <3>1. CASE t = s
      <4>1. start[s].pc = "own" /\ setup.secretAutoCreation
            /\ Exists(s)' /\ runs'[s].state = None /\ secrets'[s] # "none"
        BY <1>2, <1>4 DEF StartParts, StartOK, ResourcesOK, Made, OneStart, Secret
      <4> QED BY <1>2, <1>3, <3>1, <4>1
              DEF ResourcesOK, Made, Owned, StartStep, OneStart, Secret, Monotone, Broke
    <3>2. CASE t # s
      BY <1>2, <1>3, <1>4, <2>1, <3>2, ZenonT(60)
         DEF ResourcesOK, Made, Owned, StartParts, StartStep, OneStart, Secret, Monotone, Broke
    <3> QED BY <3>1, <3>2
  <2> QED BY <2>2, <2>3, <2>4, <2>5
<1>6. ASSUME NEW f \in Events
      PROVE  HandlerOK(f)' /\ ClosingOK(f)'
  <2>1. HandlerParts(f)
    BY Parts
  <2>2. HandlerOK(f)'
    BY <1>2, <1>3, <1>4, <2>1
       DEF HandlerOK, ManagerEnabled, StartParts, HandlerParts, StartStep, OneStart, Secret,
           Monotone, Broke
  <2>3. ClosingOK(f)'
    BY <1>2, <1>3, <1>4, <2>1
       DEF ClosingOK, HandlerOK, Left, Over, StartParts, HandlerParts, StartStep, OneStart,
           Secret, Monotone, Broke
  <2> QED BY <2>2, <2>3
<1> QED BY <1>2, <1>5, <1>6 DEF IInv, Structure

LEMMA ReportStartKeeps ==
  ASSUME IInv, NEW s \in Starts, ReportStart(s), setup' = setup
  PROVE  IInv'
<1>1. Structure
  BY Parts
<1>2. /\ Typed'
      /\ \/ /\ OneStart(s, "report", "patch", start[s].todo) /\ Works
            /\ Report(s, IF Limited(s[2]) THEN "queued" ELSE "in_progress")
         \/ /\ OneStart(s, "report", "failed with run", start[s].todo) /\ Fails
            /\ \E value : Report(s, value)
      /\ runs' = runs /\ secrets' = secrets
  BY <1>1, ReportStartStep
<1>3. Monotone /\ (Fails => Broke)
  BY <1>1, <1>2, Counts
<1>4. StartParts(s) /\ HandlerParts(s[1])
  BY Parts
<1>5. ASSUME NEW t \in Starts
      PROVE  StartOK(t)' /\ OrderOK(t)' /\ UnfailingOK(t)' /\ ResourcesOK(t)'
  <2>1. StartParts(t) /\ HandlerParts(t[1])
    BY Parts
  <2>2. StartOK(t)'
    BY <1>2, <1>3, <1>4, <2>1
       DEF StartOK, StartParts, HandlerParts, StartStep, OneStart, Report, Monotone, Broke
  <2>3. OrderOK(t)'
    BY <1>2, <1>3, <1>4, <2>1, ZenonT(60)
       DEF OrderOK, StartOK, HandlerOK, Limited, StartParts, HandlerParts, StartStep, OneStart,
           Report, Monotone, Broke
  <2>4. UnfailingOK(t)'
    BY <1>2, <1>3, <1>4, <2>1
       DEF UnfailingOK, StartOK, HandlerOK, ManagerEnabled, StartParts, HandlerParts, StartStep,
           OneStart, Report, Monotone, Broke
  <2>5. ResourcesOK(t)'
    <3>1. CASE t = s
      BY <1>2, <1>3, <1>4, <2>1, <3>1
         DEF ResourcesOK, StartOK, Made, Owned, StartParts, HandlerParts, StartStep, OneStart,
             Report, Monotone, Broke, None
    <3>2. CASE t # s
      BY <1>2, <1>3, <1>4, <2>1, <3>2, ZenonT(60)
         DEF ResourcesOK, StartOK, Made, Owned, StartParts, HandlerParts, StartStep, OneStart,
             Report, Monotone, Broke
    <3> QED BY <3>1, <3>2
  <2> QED BY <2>2, <2>3, <2>4, <2>5
<1>6. ASSUME NEW f \in Events
      PROVE  HandlerOK(f)' /\ ClosingOK(f)'
  <2>1. HandlerParts(f)
    BY Parts
  <2>2. HandlerOK(f)'
    BY <1>2, <1>3, <1>4, <2>1
       DEF HandlerOK, ManagerEnabled, StartParts, HandlerParts, StartStep, OneStart, Report,
           Monotone, Broke
  <2>3. ClosingOK(f)'
    BY <1>2, <1>3, <1>4, <2>1
       DEF ClosingOK, HandlerOK, Left, Over, StartParts, HandlerParts, StartStep, OneStart,
           Report, Monotone, Broke
  <2> QED BY <2>2, <2>3
<1> QED BY <1>2, <1>5, <1>6 DEF IInv, Structure

LEMMA PatchStateKeeps ==
  ASSUME IInv, NEW s \in Starts, PatchState(s), setup' = setup
  PROVE  IInv'
<1>1. Structure
  BY Parts
<1>2. /\ Typed'
      /\ OneStart(s, "patch", "started", start[s].todo)
      /\ OnlyRuns
  BY <1>1, PatchStateStep
<1>3. /\ RunsTyped /\ OnlyRun(s) /\ Counted
      /\ Keeps(s) /\ KeepsSpec(s) /\ KeepsOrder(s) /\ KeepsDone(s) /\ KeepsBy(s)
      /\ runs'[s].state \in {runs[s].state, (IF Limited(s[2]) THEN "queued" ELSE "started")}
      /\ Unfailing' => runs'[s].state = (IF Limited(s[2]) THEN "queued" ELSE "started")
  BY <1>1, PatchStateView
<1>4. Monotone /\ (Fails => Broke)
  BY <1>1, <1>2, <1>3, Counts
<1>5. StartParts(s) /\ HandlerParts(s[1])
  BY Parts
<1>6. ASSUME NEW t \in Starts
      PROVE  StartOK(t)' /\ OrderOK(t)' /\ UnfailingOK(t)' /\ ResourcesOK(t)'
  <2>1. StartParts(t) /\ HandlerParts(t[1])
    BY Parts
  <2>2. StartOK(t)'
    BY <1>2, <1>3, <1>4, <1>5, <2>1, ZenonT(60)
       DEF StartOK, StartParts, HandlerParts, StartStep, OneStart, OnlyRuns, Monotone
  <2>3. OrderOK(t)'
    BY <1>2, <1>3, <1>4, <1>5, <2>1, ZenonT(60)
       DEF OrderOK, StartOK, HandlerOK, Limited, StartParts, HandlerParts, StartStep, OneStart,
           OnlyRuns, Monotone
  <2>4. UnfailingOK(t)'
    BY <1>2, <1>3, <1>4, <1>5, <2>1, ZenonT(60)
       DEF UnfailingOK, StartOK, HandlerOK, ManagerEnabled, StartParts, HandlerParts, StartStep,
           OneStart, OnlyRuns, Monotone
  <2>5. ResourcesOK(t)'
    BY <1>2, <1>3, <1>4, <1>5, <2>1, ZenonT(60)
       DEF ResourcesOK, StartOK, Made, Owned, StartParts, HandlerParts, StartStep, OneStart,
           OnlyRuns, Monotone
  <2> QED BY <2>2, <2>3, <2>4, <2>5
<1>7. ASSUME NEW f \in Events
      PROVE  HandlerOK(f)' /\ ClosingOK(f)'
  <2>1. HandlerParts(f)
    BY Parts
  <2>2. HandlerOK(f)'
    BY <1>2, <1>3, <1>4, <1>5, <2>1
       DEF HandlerOK, ManagerEnabled, StartParts, HandlerParts, StartStep, OneStart, OnlyRuns,
           Monotone
  <2>3. ClosingOK(f)'
    BY <1>2, <1>3, <1>4, <1>5, <2>1
       DEF ClosingOK, HandlerOK, Left, Over, StartParts, HandlerParts, StartStep, OneStart,
           OnlyRuns, Monotone
  <2> QED BY <2>2, <2>3
<1> QED BY <1>2, <1>6, <1>7 DEF IInv, Structure

LEMMA ReportFailureKeeps ==
  ASSUME IInv, NEW s \in Starts, ReportFailure(s), setup' = setup
  PROVE  IInv'
<1>1. Structure
  BY Parts
<1>2. /\ Typed'
      /\ start[s].pc \in {"failed", "failed with run"}
      /\ OneStart(s, start[s].pc,
                  IF start[s].pc = "failed" THEN "done" ELSE "started", start[s].todo)
      /\ (Report(s, "failure") /\ (Works \/ Fails)) \/ (reported' = reported /\ Fails)
      /\ runs' = runs /\ secrets' = secrets
  BY <1>1, ReportFailureStep
<1>3. Monotone /\ (Fails => Broke)
  BY <1>1, <1>2, Counts
<1>4. StartParts(s) /\ HandlerParts(s[1])
  BY Parts
<1>5. ASSUME NEW t \in Starts
      PROVE  StartOK(t)' /\ OrderOK(t)' /\ UnfailingOK(t)' /\ ResourcesOK(t)'
  <2>1. StartParts(t) /\ HandlerParts(t[1])
    BY Parts
  <2>2. StartOK(t)'
    BY <1>2, <1>3, <1>4, <2>1
       DEF StartOK, StartParts, HandlerParts, StartStep, OneStart, Report, Monotone, Broke
  <2>3. OrderOK(t)'
    BY <1>2, <1>3, <1>4, <2>1
       DEF OrderOK, StartOK, HandlerOK, Limited, StartParts, HandlerParts, StartStep, OneStart,
           Report, Monotone, Broke
  <2>4. UnfailingOK(t)'
    BY <1>2, <1>3, <1>4, <2>1
       DEF UnfailingOK, StartOK, HandlerOK, ManagerEnabled, StartParts, HandlerParts, StartStep,
           OneStart, Report, Monotone, Broke
  <2>5. ResourcesOK(t)'
    <3>1. CASE t = s
      BY <1>2, <1>3, <1>4, <2>1, <3>1
         DEF ResourcesOK, StartOK, Made, Owned, StartParts, HandlerParts, StartStep, OneStart,
             Report, Monotone, Broke, None
    <3>2. CASE t # s
      BY <1>2, <1>3, <1>4, <2>1, <3>2, ZenonT(60)
         DEF ResourcesOK, StartOK, Made, Owned, StartParts, HandlerParts, StartStep, OneStart,
             Report, Monotone, Broke
    <3> QED BY <3>1, <3>2
  <2> QED BY <2>2, <2>3, <2>4, <2>5
<1>6. ASSUME NEW f \in Events
      PROVE  HandlerOK(f)' /\ ClosingOK(f)'
  <2>1. HandlerParts(f)
    BY Parts
  <2>2. HandlerOK(f)'
    BY <1>2, <1>3, <1>4, <2>1
       DEF HandlerOK, ManagerEnabled, StartParts, HandlerParts, StartStep, OneStart, Report,
           Monotone, Broke
  <2>3. ClosingOK(f)'
    BY <1>2, <1>3, <1>4, <2>1
       DEF ClosingOK, HandlerOK, Left, Over, StartParts, HandlerParts, StartStep, OneStart,
           Report, Monotone, Broke
  <2> QED BY <2>2, <2>3
<1> QED BY <1>2, <1>5, <1>6 DEF IInv, Structure

LEMMA AddPipelineRunKeeps ==
  ASSUME IInv, NEW s \in Starts, AddPipelineRun(s), setup' = setup
  PROVE  IInv'
<1>1. Structure
  BY Parts
<1>2. /\ Typed'
      /\ handler[s[1]].pc = "starting" /\ start[s].pc = "started"
      /\ \E batch : /\ batch = IF ManagerEnabled THEN handler[s[1]].batch \cup {s}
                                                ELSE handler[s[1]].batch
                   /\ HandlerStep(s[1], "starting", batch, handler[s[1]].todo, handler[s[1]].before)
      /\ \E pc \in {"list", "done"} : StartStep(s, pc, start[s].todo)
      /\ ClusterKept /\ Works
  BY <1>1, AddPipelineRunStep
<1>3. Monotone /\ (Fails => Broke)
  BY <1>1, <1>2, Counts
<1>4. StartParts(s) /\ HandlerParts(s[1])
  BY Parts
<1>5. PICK batch :
        /\ batch = IF ManagerEnabled THEN handler[s[1]].batch \cup {s} ELSE handler[s[1]].batch
        /\ HandlerStep(s[1], "starting", batch, handler[s[1]].todo, handler[s[1]].before)
  BY <1>2
<1>6. PICK pc \in {"list", "done"} : StartStep(s, pc, start[s].todo)
  BY <1>2
<1>7. /\ handler[s[1]].batch \subseteq batch
      /\ ManagerEnabled => s \in batch
      /\ ~ManagerEnabled => batch = handler[s[1]].batch
      /\ \A r \in batch : r = s \/ r \in handler[s[1]].batch
  BY <1>5
<1>8. /\ HandlerStep(s[1], "starting", batch, handler[s[1]].todo, handler[s[1]].before)
       /\ StartStep(s, pc, start[s].todo) /\ ClusterKept
       /\ handler[s[1]].pc = "starting" /\ start[s].pc = "started"
  BY <1>2, <1>5, <1>6
<1>9. ASSUME NEW t \in Starts
      PROVE  StartOK(t)' /\ OrderOK(t)' /\ UnfailingOK(t)' /\ ResourcesOK(t)'
  <2>1. StartParts(t) /\ HandlerParts(t[1])
    BY Parts
  <2>2. StartOK(t)'
    BY <1>3, <1>4, <1>7, <1>8, <2>1
       DEF StartOK, StartParts, HandlerParts, HandlerStep, StartStep, ClusterKept, Monotone
  <2>3. OrderOK(t)'
    BY <1>3, <1>4, <1>7, <1>8, <2>1, ZenonT(60)
       DEF OrderOK, StartOK, HandlerOK, Limited, StartParts, HandlerParts, HandlerStep,
           StartStep, ClusterKept, Monotone
  <2>4. UnfailingOK(t)'
    <3>1. CASE t[1] = s[1]
      BY <1>3, <1>4, <1>7, <1>8, <2>1, <3>1
         DEF UnfailingOK, StartOK, HandlerOK, ManagerEnabled, StartParts, HandlerParts,
             HandlerStep, StartStep, ClusterKept, Monotone, AfterMatch
    <3>2. CASE t[1] # s[1]
      BY <1>3, <1>4, <1>7, <1>8, <2>1, <3>2, ZenonT(60)
         DEF UnfailingOK, StartOK, HandlerOK, ManagerEnabled, StartParts, HandlerParts,
             HandlerStep, StartStep, ClusterKept, Monotone
    <3> QED BY <3>1, <3>2
  <2>5. ResourcesOK(t)'
    <3>1. CASE t = s
      BY <1>3, <1>4, <1>7, <1>8, <2>1, <3>1
         DEF ResourcesOK, StartOK, Made, Owned, StartParts, StartStep, ClusterKept, Monotone
    <3>2. CASE t # s
      BY <1>3, <1>4, <1>7, <1>8, <2>1, <3>2, ZenonT(60)
         DEF ResourcesOK, StartOK, Made, Owned, StartParts, HandlerParts, HandlerStep, StartStep,
             ClusterKept, Monotone
    <3> QED BY <3>1, <3>2
  <2> QED BY <2>2, <2>3, <2>4, <2>5
<1>10. ASSUME NEW f \in Events
      PROVE  HandlerOK(f)' /\ ClosingOK(f)'
  <2>1. HandlerParts(f)
    BY Parts
  <2>2. HandlerOK(f)'
    <3>1. CASE f = s[1]
      <4>1. handler'[f].batch = batch /\ handler'[f].todo = handler[f].todo
            /\ handler'[f].before = handler[f].before /\ handler'[f].pc = "starting" /\ runs' = runs
        BY <1>8, <3>1 DEF HandlerStep, ClusterKept
      <4>2. Exists(s) /\ s[1] = f
        BY <1>4, <1>8, <3>1 DEF StartParts, StartOK
      <4>3. \A r \in batch : r[1] = f /\ Exists(r)
        BY <1>7, <2>1, <3>1, <4>2 DEF HandlerParts, HandlerOK
      <4>4. batch # {} => ManagerEnabled
        BY <1>7, <2>1, <3>1 DEF HandlerParts, HandlerOK
      <4> QED BY <2>1, <4>1, <4>3, <4>4 DEF HandlerOK, HandlerParts, ManagerEnabled
    <3>2. CASE f # s[1]
      BY <1>3, <1>4, <1>7, <1>8, <2>1, <3>2
         DEF HandlerOK, ManagerEnabled, StartParts, HandlerParts, HandlerStep, StartStep,
             ClusterKept, Monotone
    <3> QED BY <3>1, <3>2
  <2>3. ClosingOK(f)'
    <3>1. CASE f = s[1]
      BY <1>3, <1>4, <1>7, <1>8, <2>1, <3>1
         DEF ClosingOK, HandlerOK, Left, Over, StartParts, HandlerParts, HandlerStep, StartStep,
             ClusterKept, Monotone, AfterMatch
    <3>2. CASE f # s[1]
      BY <1>3, <1>4, <1>7, <1>8, <2>1, <3>2
         DEF ClosingOK, HandlerOK, Left, Over, StartParts, HandlerParts, HandlerStep, StartStep,
             ClusterKept, Monotone
    <3> QED BY <3>1, <3>2
  <2> QED BY <2>2, <2>3
<1> QED BY <1>2, <1>9, <1>10 DEF IInv, Structure

LEMMA ListReplacedKeeps ==
  ASSUME IInv, NEW s \in Starts, ListReplaced(s), setup' = setup
  PROVE  IInv'
<1>1. Structure
  BY Parts
<1>2. /\ Typed'
      /\ \/ OneStart(s, "list", "cancel", Replaced(s)) /\ Works
         \/ OneStart(s, "list", "done", start[s].todo) /\ Fails
      /\ ClusterKept
  BY <1>1, ListReplacedStep
<1>3. Monotone /\ (Fails => Broke)
  BY <1>1, <1>2, Counts
<1>4. StartParts(s) /\ HandlerParts(s[1])
  BY Parts
<1>5. ASSUME NEW t \in Starts
      PROVE  StartOK(t)' /\ OrderOK(t)' /\ UnfailingOK(t)' /\ ResourcesOK(t)'
  <2>1. StartParts(t) /\ HandlerParts(t[1])
    BY Parts
  <2>2. StartOK(t)'
    <3>1. CASE t = s
      BY <1>2, <1>3, <1>4, <2>1, <3>1, ReplacedOthers
         DEF StartOK, StartParts, HandlerParts, StartStep, OneStart, ClusterKept, Monotone,
             Broke
    <3>2. CASE t # s
      BY <1>2, <1>3, <1>4, <2>1, <3>2
         DEF StartOK, StartParts, HandlerParts, StartStep, OneStart, ClusterKept, Monotone,
             Broke
    <3> QED BY <3>1, <3>2
  <2>3. OrderOK(t)'
    BY <1>2, <1>3, <1>4, <2>1
       DEF OrderOK, StartOK, HandlerOK, Limited, StartParts, HandlerParts, StartStep, OneStart,
           ClusterKept, Monotone, Broke
  <2>4. UnfailingOK(t)'
    BY <1>2, <1>3, <1>4, <2>1
       DEF UnfailingOK, StartOK, HandlerOK, ManagerEnabled, StartParts, HandlerParts, StartStep,
           OneStart, ClusterKept, Monotone, Broke
  <2>5. ResourcesOK(t)'
    <3>1. CASE t = s
      <4>1. start[s].pc = "list" /\ start'[s].pc \in {"cancel", "done"}
        BY <1>2 DEF StartStep, OneStart
      <4>2. Exists(s) /\ ResourcesOK(s)
        BY <1>4, <4>1 DEF StartParts, StartOK
      <4>3. /\ secrets' = secrets /\ reported' = reported /\ (Exists(s)' <=> Exists(s))
            /\ runs' = runs
        BY <1>2 DEF ClusterKept, Exists
      <4> QED BY <1>3, <3>1, <4>1, <4>2, <4>3 DEF ResourcesOK, Made, Owned, Monotone
    <3>2. CASE t # s
      <4>1. start'[t].pc = start[t].pc /\ secrets' = secrets /\ reported' = reported
            /\ runs' = runs /\ (Exists(t)' <=> Exists(t))
        BY <1>2, <3>2 DEF StartStep, OneStart, ClusterKept, Exists
      <4> QED BY <1>3, <2>1, <4>1, ResourcesStay DEF StartParts
    <3> QED BY <3>1, <3>2
  <2> QED BY <2>2, <2>3, <2>4, <2>5
<1>6. ASSUME NEW f \in Events
      PROVE  HandlerOK(f)' /\ ClosingOK(f)'
  <2>1. HandlerParts(f)
    BY Parts
  <2>2. HandlerOK(f)'
    BY <1>2, <1>3, <1>4, <2>1
       DEF HandlerOK, ManagerEnabled, StartParts, HandlerParts, StartStep, OneStart,
           ClusterKept, Monotone, Broke
  <2>3. ClosingOK(f)'
    BY <1>2, <1>3, <1>4, <2>1
       DEF ClosingOK, HandlerOK, Left, Over, StartParts, HandlerParts, StartStep, OneStart,
           ClusterKept, Monotone, Broke
  <2> QED BY <2>2, <2>3
<1> QED BY <1>2, <1>5, <1>6 DEF IInv, Structure

LEMMA CancelReplacedKeeps ==
  ASSUME IInv, NEW s \in Starts, NEW r \in Starts, CancelReplaced(s, r), setup' = setup
  PROVE  IInv'
<1>1. Structure
  BY Parts
<1>2. /\ Typed'
      /\ OneStart(s, "cancel", "cancel", start[s].todo \ {r}) /\ r \in start[s].todo
      /\ OnlyRuns
  BY <1>1, CancelReplacedStep
<1>3. /\ RunsTyped /\ OnlyRun(r) /\ Counted
      /\ Keeps(r) /\ KeepsState(r) /\ KeepsOrder(r) /\ KeepsDone(r)
      /\ runs'[r].spec \in {runs[r].spec, CancelledRunFinally}
      /\ runs'[r].by \in {runs[r].by, s}
      /\ Unfailing' => runs'[r].spec = CancelledRunFinally /\ runs'[r].by = s
  BY <1>1, CancelReplacedView
<1>4. Monotone /\ (Fails => Broke)
  BY <1>1, <1>2, <1>3, Counts
<1>5. StartParts(s) /\ HandlerParts(s[1])
  BY Parts
<1>6. \A q \in Starts : start'[q].pc = start[q].pc
  BY <1>2 DEF OneStart, StartStep
<1>7. ASSUME NEW t \in Starts
      PROVE  StartOK(t)' /\ OrderOK(t)' /\ UnfailingOK(t)' /\ ResourcesOK(t)'
  <2>1. StartParts(t) /\ HandlerParts(t[1])
    BY Parts
  <2>2. StartOK(t)'
    BY <1>2, <1>3, <1>4, <1>5, <1>6, <2>1, ZenonT(60)
       DEF StartOK, StartParts, HandlerParts, StartStep, OneStart, OnlyRuns, Monotone
  <2>3. OrderOK(t)'
    <3>1. handler' = handler /\ (Exists(t)' <=> Exists(t))
          /\ (Exists(t) => runs'[t].order = runs[t].order /\ runs'[t].state = runs[t].state)
      BY <1>2, <1>3 DEF OneStart
    <3> QED BY <1>6, <2>1, <3>1 DEF OrderOK, Limited, StartParts
  <2>4. UnfailingOK(t)'
    BY <1>2, <1>3, <1>4, <1>5, <1>6, <2>1, ZenonT(60)
       DEF UnfailingOK, StartOK, HandlerOK, ManagerEnabled, StartParts, HandlerParts, StartStep,
           OneStart, OnlyRuns, Monotone
  <2>5. ResourcesOK(t)'
    <3>1. /\ Exists(t)' <=> Exists(t)
          /\ runs'[t].state = runs[t].state /\ runs'[t].known = runs[t].known
      BY <1>3 DEF OnlyRun, Keeps, KeepsState, Exists
    <3>2. start'[t].pc = start[t].pc /\ secrets' = secrets /\ reported' = reported
      BY <1>2, <1>6 DEF OnlyRuns
    <3> QED BY <1>4, <2>1, <3>1, <3>2, ResourcesStay DEF StartParts
  <2> QED BY <2>2, <2>3, <2>4, <2>5
<1>8. ASSUME NEW f \in Events
      PROVE  HandlerOK(f)' /\ ClosingOK(f)'
  <2>1. HandlerParts(f)
    BY Parts
  <2>2. HandlerOK(f)'
    BY <1>2, <1>3, <1>4, <1>5, <1>6, <2>1
       DEF HandlerOK, ManagerEnabled, StartParts, HandlerParts, StartStep, OneStart, OnlyRuns,
           Monotone
  <2>3. ClosingOK(f)'
    BY <1>2, <1>3, <1>4, <1>5, <1>6, <2>1
       DEF ClosingOK, HandlerOK, Left, Over, StartParts, HandlerParts, StartStep, OneStart,
           OnlyRuns, Monotone
  <2> QED BY <2>2, <2>3
<1> QED BY <1>2, <1>7, <1>8 DEF IInv, Structure

LEMMA AllReplacedKeeps ==
  ASSUME IInv, NEW s \in Starts, AllReplaced(s), setup' = setup
  PROVE  IInv'
<1>1. Structure
  BY Parts
<1>2. /\ Typed'
      /\ OneStart(s, "cancel", "done", start[s].todo) /\ start[s].todo = {}
      /\ ClusterKept /\ Works
  BY <1>1, AllReplacedStep
<1>3. Monotone /\ (Fails => Broke)
  BY <1>1, <1>2, Counts
<1>4. StartParts(s) /\ HandlerParts(s[1])
  BY Parts
<1>5. ASSUME NEW t \in Starts
      PROVE  StartOK(t)' /\ OrderOK(t)' /\ UnfailingOK(t)' /\ ResourcesOK(t)'
  <2>1. StartParts(t) /\ HandlerParts(t[1])
    BY Parts
  <2>2. StartOK(t)'
    BY <1>2, <1>3, <1>4, <2>1
       DEF StartOK, StartParts, HandlerParts, StartStep, OneStart, ClusterKept, Monotone
  <2>3. OrderOK(t)'
    BY <1>2, <1>3, <1>4, <2>1, ZenonT(60)
       DEF OrderOK, StartOK, HandlerOK, Limited, StartParts, HandlerParts, StartStep, OneStart,
           ClusterKept, Monotone
  <2>4. UnfailingOK(t)'
    BY <1>2, <1>3, <1>4, <2>1
       DEF UnfailingOK, StartOK, HandlerOK, ManagerEnabled, StartParts, HandlerParts, StartStep,
           OneStart, ClusterKept, Monotone
  <2>5. ResourcesOK(t)'
    BY <1>2, <1>3, <1>4, <2>1, ZenonT(60)
       DEF ResourcesOK, StartOK, Made, Owned, StartParts, HandlerParts, StartStep, OneStart,
           ClusterKept, Monotone
  <2> QED BY <2>2, <2>3, <2>4, <2>5
<1>6. ASSUME NEW f \in Events
      PROVE  HandlerOK(f)' /\ ClosingOK(f)'
  <2>1. HandlerParts(f)
    BY Parts
  <2>2. HandlerOK(f)'
    BY <1>2, <1>3, <1>4, <2>1
       DEF HandlerOK, ManagerEnabled, StartParts, HandlerParts, StartStep, OneStart,
           ClusterKept, Monotone
  <2>3. ClosingOK(f)'
    BY <1>2, <1>3, <1>4, <2>1
       DEF ClosingOK, HandlerOK, Left, Over, StartParts, HandlerParts, StartStep, OneStart,
           ClusterKept, Monotone
  <2> QED BY <2>2, <2>3
<1> QED BY <1>2, <1>5, <1>6 DEF IInv, Structure

LEMMA WatcherStartsKeeps ==
  ASSUME IInv, NEW s \in Starts, WatcherStarts(s), setup' = setup
  PROVE  IInv'
<1>1. Structure
  BY Parts
<1>2. /\ Typed'
      /\ handler' = handler /\ start' = start /\ OnlyRuns /\ Works
  BY <1>1, WatcherStartsStep
<1>3. /\ RunsTyped /\ OnlyRun(s)
      /\ Keeps(s) /\ KeepsOrder(s) /\ KeepsDone(s) /\ KeepsBy(s)
      /\ runs[s].spec = Pending /\ runs[s].state = "queued" /\ ~runs[s].done
      /\ runs'[s].spec = None /\ runs'[s].state = "started"
  BY <1>1, WatcherStartsView
<1>4. Monotone /\ (Fails => Broke)
  BY <1>1, <1>2, <1>3, Counts
<1>5. StartParts(s) /\ HandlerParts(s[1])
  BY Parts
<1>6. ~Over(s)
  BY <1>3 DEF Over, Pending, CancelledRunFinally
<1>7. ASSUME NEW t \in Starts
      PROVE  StartOK(t)' /\ OrderOK(t)' /\ UnfailingOK(t)' /\ ResourcesOK(t)'
  <2>1. StartParts(t) /\ HandlerParts(t[1])
    BY Parts
  <2>2. StartOK(t)'
    BY <1>2, <1>3, <1>4, <1>5, <1>6, <2>1
       DEF StartOK, StartParts, HandlerParts, OnlyRuns, Monotone
  <2>3. OrderOK(t)'
    BY <1>2, <1>3, <1>4, <1>5, <1>6, <2>1, ZenonT(60)
       DEF OrderOK, StartOK, HandlerOK, Limited, StartParts, HandlerParts, OnlyRuns, Monotone
  <2>4. UnfailingOK(t)'
    BY <1>2, <1>3, <1>4, <1>5, <1>6, <2>1, ZenonT(60)
       DEF UnfailingOK, StartOK, HandlerOK, ManagerEnabled, StartParts, HandlerParts, OnlyRuns,
           Monotone
  <2>5. ResourcesOK(t)'
    <3>1. CASE t = s
      BY <1>2, <1>3, <1>4, <1>5, <2>1, <3>1
         DEF ResourcesOK, StartOK, Made, Owned, StartParts, HandlerParts, OnlyRuns, Monotone,
             None
    <3>2. CASE t # s
      BY <1>2, <1>3, <1>4, <1>5, <2>1, <3>2, ZenonT(60)
         DEF ResourcesOK, StartOK, Made, Owned, StartParts, HandlerParts, OnlyRuns, Monotone
    <3> QED BY <3>1, <3>2
  <2> QED BY <2>2, <2>3, <2>4, <2>5
<1>8. ASSUME NEW f \in Events
      PROVE  HandlerOK(f)' /\ ClosingOK(f)'
  <2>1. HandlerParts(f)
    BY Parts
  <2>2. HandlerOK(f)'
    BY <1>2, <1>3, <1>4, <1>5, <1>6, <2>1
       DEF HandlerOK, ManagerEnabled, StartParts, HandlerParts, OnlyRuns, Monotone
  <2>3. ClosingOK(f)'
    BY <1>2, <1>3, <1>4, <1>5, <1>6, <2>1
       DEF ClosingOK, HandlerOK, Left, Over, StartParts, HandlerParts, OnlyRuns, Monotone
  <2> QED BY <2>2, <2>3
<1> QED BY <1>2, <1>7, <1>8 DEF IInv, Structure

LEMMA TektonFinishesKeeps ==
  ASSUME IInv, NEW s \in Starts, TektonFinishes(s), setup' = setup
  PROVE  IInv'
<1>1. Structure
  BY Parts
<1>2. /\ Typed'
      /\ handler' = handler /\ start' = start /\ OnlyRuns /\ Works
  BY <1>1, TektonFinishesStep
<1>3. /\ RunsTyped /\ OnlyRun(s)
      /\ Keeps(s) /\ KeepsSpec(s) /\ KeepsState(s) /\ KeepsOrder(s) /\ KeepsBy(s)
      /\ ~runs[s].done /\ runs'[s].done
  BY <1>1, TektonFinishesView
<1>4. Monotone /\ (Fails => Broke)
  BY <1>1, <1>2, <1>3, Counts
<1>5. StartParts(s) /\ HandlerParts(s[1])
  BY Parts
<1>6. ASSUME NEW t \in Starts
      PROVE  StartOK(t)' /\ OrderOK(t)' /\ UnfailingOK(t)' /\ ResourcesOK(t)'
  <2>1. StartParts(t) /\ HandlerParts(t[1])
    BY Parts
  <2>2. StartOK(t)'
    BY <1>2, <1>3, <1>4, <1>5, <2>1, ZenonT(60) DEF StartOK, StartParts, HandlerParts, OnlyRuns, Monotone
  <2>3. OrderOK(t)'
    <3>1. CASE t = s
      BY <1>2, <1>3, <1>4, <1>5, <2>1, <3>1
         DEF OrderOK, StartOK, HandlerOK, Limited, StartParts, HandlerParts, OnlyRuns, Monotone
    <3>2. CASE t # s
      BY <1>2, <1>3, <1>4, <1>5, <2>1, <3>2, ZenonT(60)
         DEF OrderOK, StartOK, HandlerOK, Limited, StartParts, HandlerParts, OnlyRuns, Monotone
    <3> QED BY <3>1, <3>2
  <2>4. UnfailingOK(t)'
    BY <1>2, <1>3, <1>4, <1>5, <2>1, ZenonT(60)
       DEF UnfailingOK, StartOK, HandlerOK, ManagerEnabled, StartParts, HandlerParts, OnlyRuns,
           Monotone
  <2>5. ResourcesOK(t)'
    BY <1>2, <1>3, <1>4, <1>5, <2>1, ZenonT(60)
       DEF ResourcesOK, StartOK, Made, Owned, StartParts, HandlerParts, OnlyRuns, Monotone
  <2> QED BY <2>2, <2>3, <2>4, <2>5
<1>7. ASSUME NEW f \in Events
      PROVE  HandlerOK(f)' /\ ClosingOK(f)'
  <2>1. HandlerParts(f)
    BY Parts
  <2>2. HandlerOK(f)'
    BY <1>2, <1>3, <1>4, <1>5, <2>1
       DEF HandlerOK, ManagerEnabled, StartParts, HandlerParts, OnlyRuns, Monotone
  <2>3. ClosingOK(f)'
    BY <1>2, <1>3, <1>4, <1>5, <2>1
       DEF ClosingOK, HandlerOK, Left, Over, StartParts, HandlerParts, OnlyRuns, Monotone
  <2> QED BY <2>2, <2>3
<1> QED BY <1>2, <1>6, <1>7 DEF IInv, Structure

----------------------------------------------------------------------------
(* Every step keeps the invariant                                          *)

LEMMA InitIInv == Init => IInv
<1> SUFFICES ASSUME Init PROVE IInv
  OBVIOUS
<1>1. Typed
  <2>1. 0 \in 0..setup.failures /\ 0 \in 0..setup.crashes /\ setup \in Setups
    BY ControllerAssumption DEF Init
  <2>2. NewHandler \in HandlerType /\ NewStart \in StartType
    BY DEF NewHandler, NewStart, HandlerType, StartType
  <2> QED BY <2>1, <2>2 DEF Init, Typed
<1>2. /\ \A t \in Starts : /\ start[t].pc = "none" /\ start[t].todo = {} /\ ~Exists(t)
                           /\ secrets[t] \in {"none", "taken"}
      /\ \A f \in Events : /\ handler[f].pc = "expected" /\ handler[f].batch = {}
                           /\ handler[f].todo = {} /\ handler[f].before = {}
  BY DEF Init, NewHandler, NewStart
<1>3. ASSUME NEW t \in Starts
      PROVE  StartOK(t) /\ OrderOK(t) /\ UnfailingOK(t) /\ ResourcesOK(t)
  BY <1>2, StartsView DEF StartOK, OrderOK, UnfailingOK, ResourcesOK
<1>4. ASSUME NEW f \in Events
      PROVE  HandlerOK(f) /\ ClosingOK(f)
  BY <1>2 DEF HandlerOK, ClosingOK
<1> QED BY <1>1, <1>3, <1>4 DEF IInv, Structure

LEMMA StutterIInv == IInv /\ UNCHANGED vars => IInv'
<1> SUFFICES ASSUME IInv, UNCHANGED vars PROVE IInv'
  OBVIOUS
<1> USE DEF vars, cluster
<1>1. Typed'
  BY DEF IInv, Structure, Typed
<1>2. ASSUME NEW t \in Starts
      PROVE  StartOK(t)' /\ OrderOK(t)' /\ UnfailingOK(t)' /\ ResourcesOK(t)'
  <2>1. StartOK(t)' /\ OrderOK(t)'
    BY Parts DEF StartParts, StartOK, OrderOK, Limited
  <2>2. UnfailingOK(t)'
    BY Parts DEF StartParts, UnfailingOK, ManagerEnabled, Unfailing
  <2>3. ResourcesOK(t)'
    BY Parts DEF StartParts, ResourcesOK, Made, Owned, Failed, AtMostOne
  <2> QED BY <2>1, <2>2, <2>3
<1>3. ASSUME NEW f \in Events
      PROVE  HandlerOK(f)' /\ ClosingOK(f)'
  BY Parts DEF HandlerParts, HandlerOK, ClosingOK, Left, Over, ManagerEnabled, Unfailing
<1> QED BY <1>1, <1>2, <1>3 DEF IInv, Structure

LEMMA StepIInv == IInv /\ [Next]_vars => IInv'
<1> SUFFICES ASSUME IInv, Next PROVE IInv'
  BY StutterIInv
<1>1. setup' = setup
  BY DEF Next
<1>2. ASSUME NEW e \in Events, Handle(e) PROVE IInv'
  BY <1>1, <1>2, ListToCancelKeeps, MatchedKeeps, HandlerDoneKeeps, GetExecutionOrderKeeps,
     CancelListedKeeps, PatchOrderKeeps DEF Handle
<1>3. ASSUME NEW s \in Starts, StartPR(s) PROVE IInv'
  BY <1>1, <1>3, CreateSecretKeeps, CreateRunKeeps, DeleteSecretKeeps,
     UpdateSecretWithOwnerRefKeeps, ReportStartKeeps, PatchStateKeeps, ReportFailureKeeps,
     AddPipelineRunKeeps, ListReplacedKeeps, AllReplacedKeeps, CancelReplacedKeeps
     DEF StartPR
<1>4. ASSUME NEW e \in Events, Receive(e) \/ GiveUp(e) PROVE IInv'
  BY <1>1, <1>4, ReceiveKeeps, GiveUpKeeps
<1>5. ASSUME NEW s \in Starts, CreateFails(s) \/ WatcherStarts(s) \/ TektonFinishes(s) PROVE IInv'
  BY <1>1, <1>5, CreateFailsKeeps, WatcherStartsKeeps, TektonFinishesKeeps
<1>6. CASE Crash
  BY <1>1, <1>6, CrashKeeps
<1> QED BY <1>2, <1>3, <1>4, <1>5, <1>6 DEF Next, Goroutines

----------------------------------------------------------------------------
(* The order of the deliveries                                             *)

\* Events arrive once; while none was handled beside another, the one that is
\* being handled is the last that arrived.
ArrivalsOK ==
  /\ received \in Seq(Events)
  /\ \A i \in 1..Len(received) : handler[received[i]].pc # "expected"
  /\ \A e \in Events :
       handler[e].pc # "expected" => \E i \in 1..Len(received) : received[i] = e
  /\ \A i, j \in 1..Len(received) : received[i] = received[j] => i = j

Latest(e) == Len(received) > 0 /\ received[Len(received)] = e

LastOK == ~overlapped => \A e \in Events : Active(e) => Latest(e)

\* What is cancelled is older than what cancels it.
OlderOK(s) ==
  ~overlapped /\ Exists(s) /\ runs[s].by # <<>> => Newer(runs[s].by[1], s[1])

\* The runs a start is to cancel.
Aims(s, r) ==
  /\ cancelInProgress(s[1], s[2]) /\ setup.limit[Home] = 0
  /\ r[2] = s[2] /\ EventOf[r[1]].branch = EventOf[s[1]].branch
  /\ EventOf[s[1]].target = PullRequest => SamePullRequest(s[1], r) /\ FromPullRequest(r)

\* What a newer start has listed, or would have, is over or still listed.
NewestOK(s, r) ==
  /\ ~overlapped /\ Unfailing /\ crashes = 0
  /\ Exists(s) /\ Exists(r) /\ Newer(s[1], r[1]) /\ Aims(s, r)
  /\ start[s].pc \in {"cancel", "done"}
  => Over(r) \/ (start[s].pc = "cancel" /\ r \in start[s].todo)

OrderInv ==
  /\ ArrivalsOK
  /\ LastOK
  /\ \A s \in Starts : OlderOK(s)
  /\ \A s, r \in Starts : NewestOK(s, r)

\* A step that no delivery is accepted in, nor an event handled anew.
Quiet ==
  /\ received' = received /\ overlapped' = overlapped
  /\ \A f \in Events : /\ handler'[f].pc = "expected" <=> handler[f].pc = "expected"
                       /\ Active(f)' => Active(f)

LEMMA QuietKeeps ==
  ASSUME ArrivalsOK, LastOK, Quiet
  PROVE  ArrivalsOK' /\ LastOK'
<1>1. ArrivalsOK'
  BY DEF ArrivalsOK, Quiet
<1>2. LastOK'
  BY DEF LastOK, Latest, Quiet
<1> QED BY <1>1, <1>2

LEMMA SameNewer ==
  ASSUME received' = received
  PROVE  \A e1, e2 : Newer(e1, e2)' <=> Newer(e1, e2)
BY DEF Newer

LEMMA SameAims ==
  ASSUME setup' = setup
  PROVE  \A s, r : Aims(s, r)' <=> Aims(s, r)
BY DEF Aims, cancelInProgress, SamePullRequest, FromPullRequest

\* A step that creates no run and brings no start to where it has cancelled what
\* it replaces, and in which what is over stays so.
Calm ==
  /\ \A t \in Starts :
       start'[t].pc \in {"cancel", "done"} /\ Unfailing' /\ crashes' = 0 =>
         start'[t].pc = start[t].pc /\ start'[t].todo = start[t].todo
  /\ \A t \in Starts :
       /\ Exists(t)' <=> Exists(t)
       /\ Exists(t) => runs'[t].by = runs[t].by /\ (Over(t) => Over(t)')
  /\ (Unfailing' => Unfailing) /\ (crashes' = 0 => crashes = 0)

LEMMA CalmKeeps ==
  ASSUME OrderInv, Quiet, Calm, setup' = setup
  PROVE  OrderInv'
<1>1. ArrivalsOK' /\ LastOK'
  BY QuietKeeps DEF OrderInv
<1>2. received' = received /\ overlapped' = overlapped
  BY DEF Quiet
<1>3. ASSUME NEW s \in Starts PROVE OlderOK(s)'
  BY <1>2, SameNewer DEF OrderInv, OlderOK, Calm
<1>4. ASSUME NEW s \in Starts, NEW r \in Starts PROVE NewestOK(s, r)'
  <2>1. NewestOK(s, r)
    BY DEF OrderInv
  <2>2. (Newer(s[1], r[1])' <=> Newer(s[1], r[1])) /\ (Aims(s, r)' <=> Aims(s, r))
    BY <1>2, SameNewer, SameAims
  <2> QED BY <1>2, <2>1, <2>2 DEF NewestOK, Calm
<1> QED BY <1>1, <1>3, <1>4 DEF OrderInv

LEMMA NewerDiffer ==
  ASSUME ArrivalsOK, NEW e1, NEW e2, Newer(e1, e2)
  PROVE  e1 # e2
<1>1. PICK i, j \in 1..Len(received) : i > j /\ received[i] = e1 /\ received[j] = e2
  BY DEF Newer
<1> QED BY <1>1 DEF ArrivalsOK

LEMMA LastIsNewest ==
  ASSUME ArrivalsOK, NEW e, Latest(e), NEW x
  PROVE  /\ ~Newer(x, e)
         /\ x # e /\ (\E j \in 1..Len(received) : received[j] = x) => Newer(e, x)
<1>1. Len(received) \in Nat /\ Len(received) > 0 /\ received[Len(received)] = e
  BY DEF Latest, ArrivalsOK
<1>2. Len(received) \in 1..Len(received)
  BY <1>1
<1>3. ASSUME Newer(x, e) PROVE FALSE
  <2>1. PICK i, j \in 1..Len(received) : i > j /\ received[i] = x /\ received[j] = e
    BY <1>3 DEF Newer
  <2>2. j = Len(received)
    BY <1>1, <1>2, <2>1 DEF ArrivalsOK
  <2> QED BY <1>1, <2>1, <2>2
<1>4. ASSUME x # e, NEW j \in 1..Len(received), received[j] = x PROVE Newer(e, x)
  <2>1. Len(received) > j
    BY <1>1, <1>4
  <2> QED BY <1>1, <1>2, <1>4, <2>1 DEF Newer
<1> QED BY <1>3, <1>4

\* A run that is there is of an event that arrived.
LEMMA RunsArrived ==
  ASSUME IInv, ArrivalsOK, NEW r \in Starts, Exists(r)
  PROVE  \E j \in 1..Len(received) : received[j] = r[1]
<1>1. r[1] \in Events /\ StartOK(r)
  BY Parts DEF StartParts
<1>2. handler[r[1]].pc # "expected"
  BY <1>1 DEF StartOK
<1> QED BY <1>1, <1>2 DEF ArrivalsOK

----------------------------------------------------------------------------
(* Each action keeps the order of the deliveries                           *)

LEMMA ListToCancelCalm ==
  ASSUME IInv, NEW e \in Events, ListToCancel(e), setup' = setup
  PROVE  Quiet /\ Calm
<1>1. Structure
  BY Parts
<1>2. /\ Typed'
      /\ handler[e].pc = "matching"
      /\ \E todo : /\ todo = IF EventOf[e].target = PullRequestClosed
                             THEN LeftByPullRequest(e) ELSE Commanded(e)
                   /\ HandlerStep(e, "cancelling", handler[e].batch, todo, handler[e].before)
      /\ start' = start /\ ClusterKept /\ Works
  BY <1>1, ListToCancelStep
<1>3. received' = received /\ overlapped' = overlapped /\ crashes' = crashes
  BY DEF ListToCancel
<1>4. Monotone /\ (Fails => Broke)
  BY <1>1, <1>2, Counts
<1>5. Quiet
  BY <1>2, <1>3 DEF Quiet, Active, HandlerStep, ClusterKept
<1>6. Calm
  BY <1>2, <1>3, <1>4 DEF Calm, Over, Monotone, HandlerStep, ClusterKept
<1> QED BY <1>5, <1>6

LEMMA CancelListedCalm ==
  ASSUME IInv, NEW e \in Events, NEW s \in Starts, CancelListed(e, s), setup' = setup
  PROVE  Quiet /\ Calm
<1>1. Structure
  BY Parts
<1>2. /\ Typed'
      /\ handler[e].pc = "cancelling" /\ s \in handler[e].todo
      /\ HandlerStep(e, "cancelling", handler[e].batch, handler[e].todo \ {s}, handler[e].before)
      /\ start' = start /\ OnlyRuns
  BY <1>1, CancelListedStep
<1>3. /\ RunsTyped /\ OnlyRun(s) /\ Counted
      /\ Keeps(s) /\ KeepsState(s) /\ KeepsOrder(s) /\ KeepsDone(s) /\ KeepsBy(s)
      /\ runs'[s].spec \in {runs[s].spec, CancelledRunFinally}
      /\ Unfailing' => runs'[s].spec = CancelledRunFinally
  BY <1>1, CancelListedView
<1>4. received' = received /\ overlapped' = overlapped /\ crashes' = crashes
  BY DEF CancelListed
<1>5. Monotone /\ (Fails => Broke)
  BY <1>1, <1>2, <1>3, Counts
<1>6. Quiet
  BY <1>2, <1>4 DEF Quiet, Active, HandlerStep, OnlyRuns
<1>7. Calm
  BY <1>2, <1>3, <1>4, <1>5 DEF Calm, Over, Monotone, HandlerStep, OnlyRuns
<1> QED BY <1>6, <1>7

LEMMA MatchedCalm ==
  ASSUME IInv, NEW e \in Events, Matched(e), setup' = setup
  PROVE  Quiet /\ Calm
<1>1. Structure
  BY Parts
<1>2. /\ Typed'
      /\ handler[e].pc = "matching" /\ EventOf[e].target # PullRequestClosed
      /\ \E pc \in {"starting", "done"} :
           HandlerStep(e, pc, handler[e].batch, handler[e].todo, handler[e].before)
      /\ MatchedBy[e] # {} => handler'[e].pc = "starting"
      /\ \A s \in Starts :
          IF s[1] = e
          THEN /\ start'[s].pc = (IF setup.secretAutoCreation THEN "secret" ELSE "create")
               /\ start'[s].todo = {}
          ELSE start'[s] = start[s]
      /\ ClusterKept /\ Works
  BY <1>1, MatchedStep
<1>3. received' = received /\ overlapped' = overlapped /\ crashes' = crashes
  BY DEF Matched
<1>4. Monotone /\ (Fails => Broke)
  BY <1>1, <1>2, Counts
<1>5. Quiet
  BY <1>2, <1>3 DEF Quiet, Active, HandlerStep, ClusterKept
<1>6. Calm
  BY <1>2, <1>3, <1>4 DEF Calm, Over, Monotone, HandlerStep, ClusterKept
<1> QED BY <1>5, <1>6

LEMMA GiveUpCalm ==
  ASSUME IInv, NEW e \in Events, GiveUp(e), setup' = setup
  PROVE  Quiet /\ Calm
<1>1. Structure
  BY Parts
<1>2. /\ Typed'
      /\ handler[e].pc = "matching"
      /\ HandlerStep(e, "done", handler[e].batch, handler[e].todo, handler[e].before)
      /\ start' = start /\ ClusterKept /\ Fails
  BY <1>1, GiveUpStep
<1>3. received' = received /\ overlapped' = overlapped /\ crashes' = crashes
  BY DEF GiveUp
<1>4. Monotone /\ (Fails => Broke)
  BY <1>1, <1>2, Counts
<1>5. Quiet
  BY <1>2, <1>3 DEF Quiet, Active, HandlerStep, ClusterKept
<1>6. Calm
  BY <1>2, <1>3, <1>4 DEF Calm, Over, Monotone, Broke, HandlerStep, ClusterKept
<1> QED BY <1>5, <1>6

LEMMA HandlerDoneCalm ==
  ASSUME IInv, NEW e \in Events, HandlerDone(e), setup' = setup
  PROVE  Quiet /\ Calm
<1>1. Structure
  BY Parts
<1>2. /\ Typed'
      /\ handler[e].pc \in {"cancelling", "ordering"} /\ handler[e].todo = {}
      /\ HandlerStep(e, "done", handler[e].batch, handler[e].todo, handler[e].before)
      /\ start' = start /\ ClusterKept /\ Works
  BY <1>1, HandlerDoneStep
<1>3. received' = received /\ overlapped' = overlapped /\ crashes' = crashes
  BY DEF HandlerDone
<1>4. Monotone /\ (Fails => Broke)
  BY <1>1, <1>2, Counts
<1>5. Quiet
  BY <1>2, <1>3 DEF Quiet, Active, HandlerStep, ClusterKept
<1>6. Calm
  BY <1>2, <1>3, <1>4 DEF Calm, Over, Monotone, HandlerStep, ClusterKept
<1> QED BY <1>5, <1>6

LEMMA GetExecutionOrderCalm ==
  ASSUME IInv, NEW e \in Events, GetExecutionOrder(e), setup' = setup
  PROVE  Quiet /\ Calm
<1>1. Structure
  BY Parts
<1>2. /\ Typed'
      /\ handler[e].pc = "starting" /\ AllStarted(e)
      /\ HandlerStep(e, "ordering", handler[e].batch, handler[e].batch, handler[e].before)
      /\ start' = start /\ ClusterKept /\ Works
  BY <1>1, GetExecutionOrderStep
<1>3. received' = received /\ overlapped' = overlapped /\ crashes' = crashes
  BY DEF GetExecutionOrder
<1>4. Monotone /\ (Fails => Broke)
  BY <1>1, <1>2, Counts
<1>5. Quiet
  BY <1>2, <1>3 DEF Quiet, Active, HandlerStep, ClusterKept
<1>6. Calm
  BY <1>2, <1>3, <1>4 DEF Calm, Over, Monotone, HandlerStep, ClusterKept
<1> QED BY <1>5, <1>6

LEMMA PatchOrderCalm ==
  ASSUME IInv, NEW e \in Events, NEW s \in Starts, PatchOrder(e, s), setup' = setup
  PROVE  Quiet /\ Calm
<1>1. Structure
  BY Parts
<1>2. /\ Typed'
      /\ handler[e].pc = "ordering" /\ s \in handler[e].todo
      /\ HandlerStep(e, "ordering", handler[e].batch, handler[e].todo \ {s}, handler[e].before)
      /\ start' = start /\ OnlyRuns
  BY <1>1, PatchOrderStep
<1>3. /\ RunsTyped /\ OnlyRun(s) /\ Counted
      /\ Keeps(s) /\ KeepsSpec(s) /\ KeepsState(s) /\ KeepsDone(s) /\ KeepsBy(s)
      /\ runs'[s].order \in {runs[s].order, handler[e].batch}
      /\ Unfailing' => runs'[s].order = handler[e].batch
  BY <1>1, PatchOrderView
<1>4. received' = received /\ overlapped' = overlapped /\ crashes' = crashes
  BY DEF PatchOrder
<1>5. Monotone /\ (Fails => Broke)
  BY <1>1, <1>2, <1>3, Counts
<1>6. Quiet
  BY <1>2, <1>4 DEF Quiet, Active, HandlerStep, OnlyRuns
<1>7. Calm
  BY <1>2, <1>3, <1>4, <1>5 DEF Calm, Over, Monotone, HandlerStep, OnlyRuns
<1> QED BY <1>6, <1>7

LEMMA CrashCalm ==
  ASSUME IInv, Crash, setup' = setup
  PROVE  Quiet /\ Calm
<1>1. Structure
  BY Parts
<1>2. /\ Typed'
      /\ \A e \in Events : /\ Active(e) => handler'[e].pc = "dead"
                           /\ ~Active(e) => handler'[e].pc = handler[e].pc
      /\ \A e \in Events : /\ handler'[e].batch = handler[e].batch /\ handler'[e].todo = handler[e].todo
                          /\ handler'[e].before = handler[e].before
      /\ start' = start /\ ClusterKept /\ Works
  BY <1>1, CrashStep
<1>3. received' = received /\ overlapped' = overlapped /\ crashes' = crashes + 1 /\ crashes \in Nat
  BY <1>1, ControllerAssumption DEF Crash, Structure, Typed
<1>4. Monotone /\ (Fails => Broke)
  BY <1>1, <1>2, Counts
<1>5. Quiet
  BY <1>2, <1>3 DEF Quiet, Active, ClusterKept
<1>6. Calm
  BY <1>2, <1>3, <1>4 DEF Calm, Over, Monotone, ClusterKept
<1> QED BY <1>5, <1>6

LEMMA CreateSecretCalm ==
  ASSUME IInv, NEW s \in Starts, CreateSecret(s), setup' = setup
  PROVE  Quiet /\ Calm
<1>1. Structure
  BY Parts
<1>2. /\ Typed'
      /\ \/ /\ OneStart(s, "secret", "create", start[s].todo) /\ Works
            /\ \E value \in {"taken", "unowned"} : Secret(s, value)
         \/ /\ OneStart(s, "secret", "failed", start[s].todo) /\ Fails
            /\ \E value \in {secrets[s], "lost"} : Secret(s, value)
      /\ runs' = runs /\ reported' = reported
  BY <1>1, CreateSecretStep
<1>3. received' = received /\ overlapped' = overlapped /\ crashes' = crashes
  BY DEF CreateSecret, unchangedHandler
<1>4. Monotone /\ (Fails => Broke)
  BY <1>1, <1>2, Counts
<1>5. Quiet
  BY <1>2, <1>3 DEF Quiet, Active, OneStart, StartStep
<1>6. Calm
  BY <1>2, <1>3, <1>4 DEF Calm, Over, Monotone, Broke, OneStart, StartStep
<1> QED BY <1>5, <1>6

LEMMA CreateRunQuiet ==
  ASSUME IInv, NEW s \in Starts, CreateRun(s), setup' = setup
  PROVE  Quiet /\ Monotone /\ crashes' = crashes
<1>1. Structure
  BY Parts
<1>2. /\ Typed'
      /\ OneStart(s, "create",
                  IF setup.secretAutoCreation THEN "own" ELSE "report", start[s].todo)
      /\ OnlyRuns /\ Works
  BY <1>1, CreateRunStep
<1>3. /\ RunsTyped /\ OnlyRun(s) /\ ~Exists(s) /\ runs'[s] = newRun(s[2])
  BY <1>1, CreateRunView
<1>4. received' = received /\ overlapped' = overlapped /\ crashes' = crashes
  BY DEF CreateRun, unchangedHandler
<1>5. Monotone /\ (Fails => Broke)
  BY <1>1, <1>2, <1>3, Counts
<1>6. Quiet
  BY <1>2, <1>4 DEF Quiet, Active, OneStart, StartStep, OnlyRuns
<1> QED BY <1>4, <1>5, <1>6

LEMMA CreateFailsQuiet ==
  ASSUME IInv, NEW s \in Starts, CreateFails(s), setup' = setup
  PROVE  Quiet /\ Monotone /\ crashes' = crashes
<1>1. Structure
  BY Parts
<1>2. /\ Typed'
      /\ OneStart(s, "create",
                  IF setup.secretAutoCreation THEN "unsecret" ELSE "failed", start[s].todo)
      /\ OnlyRuns /\ Fails
  BY <1>1, CreateFailsStep
<1>3. /\ RunsTyped /\ OnlyRun(s) /\ ~Exists(s)
      /\ runs'[s] # NoRun => /\ runs'[s].state = None /\ runs'[s].order = {}
                             /\ ~runs'[s].done /\ ~runs'[s].known /\ runs'[s].by = <<>>
  BY <1>1, CreateFailsView
<1>4. received' = received /\ overlapped' = overlapped /\ crashes' = crashes
  BY DEF CreateFails, unchangedHandler
<1>5. Monotone /\ (Fails => Broke)
  BY <1>1, <1>2, <1>3, Counts
<1>6. Quiet
  BY <1>2, <1>4 DEF Quiet, Active, OneStart, StartStep, OnlyRuns
<1> QED BY <1>4, <1>5, <1>6

LEMMA DeleteSecretCalm ==
  ASSUME IInv, NEW s \in Starts, DeleteSecret(s), setup' = setup
  PROVE  Quiet /\ Calm
<1>1. Structure
  BY Parts
<1>2. /\ Typed'
      /\ OneStart(s, "unsecret", "failed", start[s].todo)
      /\ (Secret(s, "none") /\ (Works \/ Fails)) \/ (secrets' = secrets /\ Fails)
      /\ runs' = runs /\ reported' = reported
  BY <1>1, DeleteSecretStep
<1>3. received' = received /\ overlapped' = overlapped /\ crashes' = crashes
  BY DEF DeleteSecret, unchangedHandler
<1>4. Monotone /\ (Fails => Broke)
  BY <1>1, <1>2, Counts
<1>5. Quiet
  BY <1>2, <1>3 DEF Quiet, Active, OneStart, StartStep
<1>6. Calm
  BY <1>2, <1>3, <1>4 DEF Calm, Over, Monotone, Broke, OneStart, StartStep
<1> QED BY <1>5, <1>6

LEMMA UpdateSecretWithOwnerRefCalm ==
  ASSUME IInv, NEW s \in Starts, UpdateSecretWithOwnerRef(s), setup' = setup
  PROVE  Quiet /\ Calm
<1>1. Structure
  BY Parts
<1>2. /\ Typed'
      /\ \/ OneStart(s, "own", "report", start[s].todo) /\ Secret(s, "owned") /\ Works
         \/ /\ OneStart(s, "own", "failed with run", start[s].todo) /\ Fails
            /\ \E value \in {secrets[s], "owned"} : Secret(s, value)
      /\ runs' = runs /\ reported' = reported
  BY <1>1, UpdateSecretWithOwnerRefStep
<1>3. received' = received /\ overlapped' = overlapped /\ crashes' = crashes
  BY DEF UpdateSecretWithOwnerRef, unchangedHandler
<1>4. Monotone /\ (Fails => Broke)
  BY <1>1, <1>2, Counts
<1>5. Quiet
  BY <1>2, <1>3 DEF Quiet, Active, OneStart, StartStep
<1>6. Calm
  BY <1>2, <1>3, <1>4 DEF Calm, Over, Monotone, Broke, OneStart, StartStep
<1> QED BY <1>5, <1>6

LEMMA ReportStartCalm ==
  ASSUME IInv, NEW s \in Starts, ReportStart(s), setup' = setup
  PROVE  Quiet /\ Calm
<1>1. Structure
  BY Parts
<1>2. /\ Typed'
      /\ \/ /\ OneStart(s, "report", "patch", start[s].todo) /\ Works
            /\ Report(s, IF Limited(s[2]) THEN "queued" ELSE "in_progress")
         \/ /\ OneStart(s, "report", "failed with run", start[s].todo) /\ Fails
            /\ \E value : Report(s, value)
      /\ runs' = runs /\ secrets' = secrets
  BY <1>1, ReportStartStep
<1>3. received' = received /\ overlapped' = overlapped /\ crashes' = crashes
  BY DEF ReportStart, unchangedHandler
<1>4. Monotone /\ (Fails => Broke)
  BY <1>1, <1>2, Counts
<1>5. Quiet
  BY <1>2, <1>3 DEF Quiet, Active, OneStart, StartStep
<1>6. Calm
  BY <1>2, <1>3, <1>4 DEF Calm, Over, Monotone, Broke, OneStart, StartStep
<1> QED BY <1>5, <1>6

LEMMA PatchStateCalm ==
  ASSUME IInv, NEW s \in Starts, PatchState(s), setup' = setup
  PROVE  Quiet /\ Calm
<1>1. Structure
  BY Parts
<1>2. /\ Typed'
      /\ OneStart(s, "patch", "started", start[s].todo)
      /\ OnlyRuns
  BY <1>1, PatchStateStep
<1>3. /\ RunsTyped /\ OnlyRun(s) /\ Counted
      /\ Keeps(s) /\ KeepsSpec(s) /\ KeepsOrder(s) /\ KeepsDone(s) /\ KeepsBy(s)
      /\ runs'[s].state \in {runs[s].state, (IF Limited(s[2]) THEN "queued" ELSE "started")}
      /\ Unfailing' => runs'[s].state = (IF Limited(s[2]) THEN "queued" ELSE "started")
  BY <1>1, PatchStateView
<1>4. received' = received /\ overlapped' = overlapped /\ crashes' = crashes
  BY DEF PatchState, unchangedHandler
<1>5. Monotone /\ (Fails => Broke)
  BY <1>1, <1>2, <1>3, Counts
<1>6. Quiet
  BY <1>2, <1>4 DEF Quiet, Active, OneStart, StartStep, OnlyRuns
<1>7. Calm
  BY <1>2, <1>3, <1>4, <1>5 DEF Calm, Over, Monotone, OneStart, StartStep, OnlyRuns
<1> QED BY <1>6, <1>7

LEMMA ReportFailureCalm ==
  ASSUME IInv, NEW s \in Starts, ReportFailure(s), setup' = setup
  PROVE  Quiet /\ Calm
<1>1. Structure
  BY Parts
<1>2. /\ Typed'
      /\ start[s].pc \in {"failed", "failed with run"}
      /\ OneStart(s, start[s].pc,
                  IF start[s].pc = "failed" THEN "done" ELSE "started", start[s].todo)
      /\ (Report(s, "failure") /\ (Works \/ Fails)) \/ (reported' = reported /\ Fails)
      /\ runs' = runs /\ secrets' = secrets
  BY <1>1, ReportFailureStep
<1>3. received' = received /\ overlapped' = overlapped /\ crashes' = crashes
  BY DEF ReportFailure, unchangedHandler
<1>4. Monotone /\ (Fails => Broke)
  BY <1>1, <1>2, Counts
<1>5. Quiet
  BY <1>2, <1>3 DEF Quiet, Active, OneStart, StartStep
<1>6. Calm
  <2>1. ~Unfailing'
    BY <1>2, <1>4, Parts DEF StartParts, UnfailingOK, OneStart, Monotone
  <2> QED BY <1>2, <1>3, <2>1 DEF Calm, Over
<1> QED BY <1>5, <1>6

LEMMA AddPipelineRunQuiet ==
  ASSUME IInv, NEW s \in Starts, AddPipelineRun(s), setup' = setup
  PROVE  Quiet /\ Monotone /\ crashes' = crashes
<1>1. Structure
  BY Parts
<1>2. /\ Typed'
      /\ handler[s[1]].pc = "starting" /\ start[s].pc = "started"
      /\ \E batch : /\ batch = IF ManagerEnabled THEN handler[s[1]].batch \cup {s}
                                                ELSE handler[s[1]].batch
                   /\ HandlerStep(s[1], "starting", batch, handler[s[1]].todo, handler[s[1]].before)
      /\ \E pc \in {"list", "done"} : StartStep(s, pc, start[s].todo)
      /\ ClusterKept /\ Works
  BY <1>1, AddPipelineRunStep
<1>3. received' = received /\ overlapped' = overlapped /\ crashes' = crashes
  BY DEF AddPipelineRun
<1>4. Monotone /\ (Fails => Broke)
  BY <1>1, <1>2, Counts
<1>5. Quiet
  BY <1>2, <1>3 DEF Quiet, Active, HandlerStep, StartStep, ClusterKept
<1> QED BY <1>3, <1>4, <1>5

LEMMA ListReplacedQuiet ==
  ASSUME IInv, NEW s \in Starts, ListReplaced(s), setup' = setup
  PROVE  Quiet /\ Monotone /\ crashes' = crashes
<1>1. Structure
  BY Parts
<1>2. /\ Typed'
      /\ \/ OneStart(s, "list", "cancel", Replaced(s)) /\ Works
         \/ OneStart(s, "list", "done", start[s].todo) /\ Fails
      /\ ClusterKept
  BY <1>1, ListReplacedStep
<1>3. received' = received /\ overlapped' = overlapped /\ crashes' = crashes
  BY DEF ListReplaced, unchangedHandler
<1>4. Monotone /\ (Fails => Broke)
  BY <1>1, <1>2, Counts
<1>5. Quiet
  BY <1>2, <1>3 DEF Quiet, Active, OneStart, StartStep, ClusterKept
<1> QED BY <1>3, <1>4, <1>5

LEMMA CancelReplacedQuiet ==
  ASSUME IInv, NEW s \in Starts, NEW r \in Starts, CancelReplaced(s, r), setup' = setup
  PROVE  Quiet /\ Monotone /\ crashes' = crashes
<1>1. Structure
  BY Parts
<1>2. /\ Typed'
      /\ OneStart(s, "cancel", "cancel", start[s].todo \ {r}) /\ r \in start[s].todo
      /\ OnlyRuns
  BY <1>1, CancelReplacedStep
<1>3. /\ RunsTyped /\ OnlyRun(r) /\ Counted
      /\ Keeps(r) /\ KeepsState(r) /\ KeepsOrder(r) /\ KeepsDone(r)
      /\ runs'[r].spec \in {runs[r].spec, CancelledRunFinally}
      /\ runs'[r].by \in {runs[r].by, s}
      /\ Unfailing' => runs'[r].spec = CancelledRunFinally /\ runs'[r].by = s
  BY <1>1, CancelReplacedView
<1>4. received' = received /\ overlapped' = overlapped /\ crashes' = crashes
  BY DEF CancelReplaced, unchangedHandler
<1>5. Monotone /\ (Fails => Broke)
  BY <1>1, <1>2, <1>3, Counts
<1>6. Quiet
  BY <1>2, <1>4 DEF Quiet, Active, OneStart, StartStep, OnlyRuns
<1> QED BY <1>4, <1>5, <1>6

LEMMA AllReplacedQuiet ==
  ASSUME IInv, NEW s \in Starts, AllReplaced(s), setup' = setup
  PROVE  Quiet /\ Monotone /\ crashes' = crashes
<1>1. Structure
  BY Parts
<1>2. /\ Typed'
      /\ OneStart(s, "cancel", "done", start[s].todo) /\ start[s].todo = {}
      /\ ClusterKept /\ Works
  BY <1>1, AllReplacedStep
<1>3. received' = received /\ overlapped' = overlapped /\ crashes' = crashes
  BY DEF AllReplaced, unchangedHandler
<1>4. Monotone /\ (Fails => Broke)
  BY <1>1, <1>2, Counts
<1>5. Quiet
  BY <1>2, <1>3 DEF Quiet, Active, OneStart, StartStep, ClusterKept
<1> QED BY <1>3, <1>4, <1>5

LEMMA WatcherStartsCalm ==
  ASSUME IInv, NEW s \in Starts, WatcherStarts(s), setup' = setup
  PROVE  Quiet /\ Calm
<1>1. Structure
  BY Parts
<1>2. /\ Typed'
      /\ handler' = handler /\ start' = start /\ OnlyRuns /\ Works
  BY <1>1, WatcherStartsStep
<1>3. /\ RunsTyped /\ OnlyRun(s)
      /\ Keeps(s) /\ KeepsOrder(s) /\ KeepsDone(s) /\ KeepsBy(s)
      /\ runs[s].spec = Pending /\ runs[s].state = "queued" /\ ~runs[s].done
      /\ runs'[s].spec = None /\ runs'[s].state = "started"
  BY <1>1, WatcherStartsView
<1>4. received' = received /\ overlapped' = overlapped /\ crashes' = crashes
  BY DEF WatcherStarts
<1>5. Monotone /\ (Fails => Broke)
  BY <1>1, <1>2, <1>3, Counts
<1>6. Quiet
  BY <1>2, <1>4 DEF Quiet, Active, OnlyRuns
<1>7. Calm
  <2>1. ~Over(s)
    BY <1>3 DEF Over, Pending, CancelledRunFinally
  <2> QED BY <1>2, <1>3, <1>4, <1>5, <2>1 DEF Calm, Over, Monotone
<1> QED BY <1>6, <1>7

LEMMA TektonFinishesCalm ==
  ASSUME IInv, NEW s \in Starts, TektonFinishes(s), setup' = setup
  PROVE  Quiet /\ Calm
<1>1. Structure
  BY Parts
<1>2. /\ Typed'
      /\ handler' = handler /\ start' = start /\ OnlyRuns /\ Works
  BY <1>1, TektonFinishesStep
<1>3. /\ RunsTyped /\ OnlyRun(s)
      /\ Keeps(s) /\ KeepsSpec(s) /\ KeepsState(s) /\ KeepsOrder(s) /\ KeepsBy(s)
      /\ ~runs[s].done /\ runs'[s].done
  BY <1>1, TektonFinishesView
<1>4. received' = received /\ overlapped' = overlapped /\ crashes' = crashes
  BY DEF TektonFinishes
<1>5. Monotone /\ (Fails => Broke)
  BY <1>1, <1>2, <1>3, Counts
<1>6. Quiet
  BY <1>2, <1>4 DEF Quiet, Active, OnlyRuns
<1>7. Calm
  BY <1>2, <1>3, <1>4, <1>5 DEF Calm, Over, Monotone, OnlyRuns
<1> QED BY <1>6, <1>7

LEMMA ReceiveOrder ==
  ASSUME IInv, OrderInv, NEW e \in Events, Receive(e), setup' = setup
  PROVE  OrderInv'
<1>1. /\ received' = Append(received, e) /\ start' = start /\ runs' = runs
      /\ failures' = failures /\ crashes' = crashes
      /\ ~overlapped' => ~overlapped /\ \A f \in Events : ~Active(f)
  BY DEF Receive, cluster
<1>2. /\ handler[e].pc = "expected" /\ handler'[e].pc = "matching"
      /\ \A f \in Events \ {e} : handler'[f] = handler[f]
  BY Parts, ReceiveStep DEF HandlerStep
<1>3. received \in Seq(Events) /\ Len(received) \in Nat
  BY DEF OrderInv, ArrivalsOK
<1>4. /\ received' \in Seq(Events) /\ Len(received') = Len(received) + 1
      /\ \A i \in 1..Len(received) : received'[i] = received[i] /\ received[i] \in Events
      /\ received'[Len(received) + 1] = e
  BY <1>1, <1>3
<1>5. \A i \in 1..Len(received) : received[i] # e
  BY <1>2 DEF OrderInv, ArrivalsOK
<1>6. ArrivalsOK'
  <2>1. \A i \in 1..Len(received') : i \in 1..Len(received) \/ i = Len(received) + 1
    BY <1>3, <1>4
  <2>2. \A i \in 1..Len(received) : i \in 1..Len(received')
    BY <1>3, <1>4
  <2>3. Len(received) + 1 \in 1..Len(received')
    BY <1>3, <1>4
  <2>4. \A i \in 1..Len(received') : handler'[received'[i]].pc # "expected"
    BY <1>2, <1>4, <1>5, <2>1 DEF OrderInv, ArrivalsOK
  <2>5. \A f \in Events :
          handler'[f].pc # "expected" => \E i \in 1..Len(received') : received'[i] = f
    BY <1>2, <1>4, <2>2, <2>3 DEF OrderInv, ArrivalsOK
  <2>6. \A i, j \in 1..Len(received') : received'[i] = received'[j] => i = j
    BY <1>4, <1>5, <2>1 DEF OrderInv, ArrivalsOK
  <2> QED BY <1>4, <2>4, <2>5, <2>6 DEF ArrivalsOK
<1>7. LastOK'
  BY <1>1, <1>2, <1>3, <1>4 DEF LastOK, Latest, Active
<1>8. ASSUME NEW x, NEW y, Newer(x, y) PROVE Newer(x, y)'
  <2>1. PICK i, j \in 1..Len(received) : i > j /\ received[i] = x /\ received[j] = y
    BY <1>8 DEF Newer
  <2> QED BY <1>3, <1>4, <2>1 DEF Newer
<1>9. ASSUME NEW x, NEW y, x # e, Newer(x, y)' PROVE Newer(x, y)
  <2>1. PICK i, j \in 1..Len(received') : i > j /\ received'[i] = x /\ received'[j] = y
    BY <1>9 DEF Newer
  <2>2. i \in 1..Len(received) /\ j \in 1..Len(received)
    BY <1>3, <1>4, <1>9, <2>1
  <2> QED BY <1>4, <2>1, <2>2 DEF Newer
<1>10. ASSUME NEW s \in Starts PROVE OlderOK(s)'
  BY <1>1, <1>8 DEF OrderInv, OlderOK
<1>11. ASSUME NEW s \in Starts, NEW r \in Starts PROVE NewestOK(s, r)'
  <2>1. NewestOK(s, r) /\ StartOK(s)
    BY Parts DEF OrderInv, StartParts
  <2>2. start[s].pc \in {"cancel", "done"} => s[1] # e
    BY <1>2, <2>1 DEF StartOK
  <2>3. start[s].pc \in {"cancel", "done"} /\ Newer(s[1], r[1])' => Newer(s[1], r[1])
    BY <1>9, <2>2
  <2> QED BY <1>1, <2>1, <2>3, SameAims DEF NewestOK, Unfailing, Over
<1> QED BY <1>6, <1>7, <1>10, <1>11 DEF OrderInv

\* The event whose start is at work is the last that arrived.
LEMMA AtWork ==
  ASSUME IInv, OrderInv, ~overlapped, NEW s \in Starts, handler[s[1]].pc = "starting"
  PROVE  Latest(s[1])
BY StartsView DEF OrderInv, LastOK, Active

\* A step of a start that creates no run, or its own.
LEMMA CreatesOrder ==
  ASSUME IInv, OrderInv, NEW s \in Starts, setup' = setup, Quiet, Monotone, crashes' = crashes,
         handler[s[1]].pc = "starting", OnlyRun(s), ~Exists(s),
         runs'[s] # NoRun => runs'[s].by = <<>>,
         \A t \in Starts \ {s} : start'[t] = start[t],
         start'[s].pc \notin {"cancel", "done"}
  PROVE  OrderInv'
<1>1. ArrivalsOK' /\ LastOK'
  BY QuietKeeps DEF OrderInv
<1>2. received' = received /\ overlapped' = overlapped
  BY DEF Quiet
<1>3. ASSUME NEW t \in Starts PROVE OlderOK(t)'
  <2>1. CASE t = s
    BY <2>1 DEF OlderOK
  <2>2. CASE t # s
    BY <1>2, <2>2, SameNewer DEF OrderInv, OlderOK
  <2> QED BY <2>1, <2>2
<1>4. ASSUME NEW p \in Starts, NEW q \in Starts PROVE NewestOK(p, q)'
  <2>1. NewestOK(p, q)
    BY DEF OrderInv
  <2>2. (Newer(p[1], q[1])' <=> Newer(p[1], q[1])) /\ (Aims(p, q)' <=> Aims(p, q))
    BY <1>2, SameNewer, SameAims
  <2>3. CASE p = s
    BY <2>3 DEF NewestOK
  <2>4. CASE q = s
    BY <1>2, <2>2, <2>4, AtWork, LastIsNewest DEF NewestOK, OrderInv
  <2>5. CASE p # s /\ q # s
    BY <1>2, <2>1, <2>2, <2>5 DEF NewestOK, Over, Monotone
  <2> QED BY <2>3, <2>4, <2>5
<1> QED BY <1>1, <1>3, <1>4 DEF OrderInv

LEMMA CreateRunOrder ==
  ASSUME IInv, OrderInv, NEW s \in Starts, CreateRun(s), setup' = setup
  PROVE  OrderInv'
<1>1. OnlyRun(s) /\ ~Exists(s) /\ (runs'[s] # NoRun => runs'[s].by = <<>>)
  BY Parts, CreateRunView, NewRunFields
<1>2. /\ handler[s[1]].pc = "starting" /\ \A t \in Starts \ {s} : start'[t] = start[t]
      /\ start'[s].pc \notin {"cancel", "done"}
  BY Parts, CreateRunStep DEF OneStart, StartStep
<1> QED BY <1>1, <1>2, CreateRunQuiet, CreatesOrder

LEMMA CreateFailsOrder ==
  ASSUME IInv, OrderInv, NEW s \in Starts, CreateFails(s), setup' = setup
  PROVE  OrderInv'
<1>1. OnlyRun(s) /\ ~Exists(s) /\ (runs'[s] # NoRun => runs'[s].by = <<>>)
  BY Parts, CreateFailsView
<1>2. /\ handler[s[1]].pc = "starting" /\ \A t \in Starts \ {s} : start'[t] = start[t]
      /\ start'[s].pc \notin {"cancel", "done"}
  BY Parts, CreateFailsStep DEF OneStart, StartStep
<1> QED BY <1>1, <1>2, CreateFailsQuiet, CreatesOrder

\* A step of the start s in which what it is to cancel is over or listed.
LEMMA StartOrder ==
  ASSUME IInv, OrderInv, NEW s \in Starts, setup' = setup, Quiet, Monotone, crashes' = crashes,
         \A t \in Starts : Exists(t)' <=> Exists(t),
         \A t \in Starts : Exists(t) /\ Over(t) => Over(t)',
         \A t \in Starts \ {s} : start'[t] = start[t],
         \A t \in Starts : OlderOK(t)',
         \A r \in Starts : NewestOK(s, r)'
  PROVE  OrderInv'
<1>1. ArrivalsOK' /\ LastOK'
  BY QuietKeeps DEF OrderInv
<1>2. received' = received /\ overlapped' = overlapped
  BY DEF Quiet
<1>3. ASSUME NEW p \in Starts, NEW q \in Starts, p # s PROVE NewestOK(p, q)'
  <2>1. NewestOK(p, q)
    BY DEF OrderInv
  <2>2. (Newer(p[1], q[1])' <=> Newer(p[1], q[1])) /\ (Aims(p, q)' <=> Aims(p, q))
    BY <1>2, SameNewer, SameAims
  <2> QED BY <1>2, <1>3, <2>1, <2>2 DEF NewestOK, Monotone
<1> QED BY <1>1, <1>3 DEF OrderInv

LEMMA AddPipelineRunOrder ==
  ASSUME IInv, OrderInv, NEW s \in Starts, AddPipelineRun(s), setup' = setup
  PROVE  OrderInv'
<1>1. /\ start[s].pc = "started" /\ (\A t \in Starts \ {s} : start'[t] = start[t]) /\ runs' = runs
      /\ start'[s].pc = IF cancelInProgress(s[1], s[2]) /\ setup.limit[Home] = 0 THEN "list" ELSE "done"
  <2>1. start \in [Starts -> StartType] /\ start[s] \in StartType
    BY Parts DEF Structure, Typed
  <2>2. start' = [start EXCEPT ![s].pc =
                    IF cancelInProgress(s[1], s[2]) /\ setup.limit[Home] = 0 THEN "list" ELSE "done"]
    BY DEF AddPipelineRun, goto
  <2>3. runs' = runs /\ start[s].pc = "started"
    BY DEF AddPipelineRun, At, cluster
  <2> QED BY <2>1, <2>2, <2>3 DEF StartType
<1>2. Quiet /\ Monotone /\ crashes' = crashes
  BY AddPipelineRunQuiet
<1>3. ASSUME NEW t \in Starts PROVE OlderOK(t)'
  BY <1>1, <1>2, SameNewer DEF OrderInv, OlderOK, Quiet
<1>4. ASSUME NEW r \in Starts PROVE NewestOK(s, r)'
  BY <1>1, SameAims DEF NewestOK, Aims
<1> QED BY <1>1, <1>2, <1>3, <1>4, StartOrder DEF Over

LEMMA ListReplacedOrder ==
  ASSUME IInv, OrderInv, NEW s \in Starts, ListReplaced(s), setup' = setup
  PROVE  OrderInv'
<1>1. /\ handler[s[1]].pc = "starting"
      /\ \/ OneStart(s, "list", "cancel", Replaced(s))
         \/ OneStart(s, "list", "done", start[s].todo) /\ Fails
      /\ ClusterKept
  BY Parts, ListReplacedStep DEF OneStart
<1>2. Quiet /\ Monotone /\ crashes' = crashes
  BY ListReplacedQuiet
<1>3. Fails => ~Unfailing'
  BY Parts, Counts DEF Broke
<1>4. ASSUME NEW t \in Starts PROVE OlderOK(t)'
  BY <1>1, <1>2, SameNewer DEF OrderInv, OlderOK, Quiet, ClusterKept
<1>5. ASSUME NEW r \in Starts, Exists(r), Newer(s[1], r[1]), Aims(s, r), ~Over(r)
      PROVE  r \in Replaced(s)
  BY <1>5, NewerDiffer DEF OrderInv, Replaced, Aims
<1>6. ASSUME NEW r \in Starts PROVE NewestOK(s, r)'
  <2>1. (Newer(s[1], r[1])' <=> Newer(s[1], r[1])) /\ (Aims(s, r)' <=> Aims(s, r))
    BY <1>2, SameNewer, SameAims DEF Quiet
  <2> QED BY <1>1, <1>3, <1>5, <2>1 DEF NewestOK, OneStart, StartStep, ClusterKept, Over
<1> QED BY <1>1, <1>2, <1>4, <1>6, StartOrder DEF Over, ClusterKept, OneStart, StartStep

LEMMA CancelReplacedOrder ==
  ASSUME IInv, OrderInv, NEW s \in Starts, NEW r \in Starts, CancelReplaced(s, r), setup' = setup
  PROVE  OrderInv'
<1>1. OneStart(s, "cancel", "cancel", start[s].todo \ {r}) /\ r \in start[s].todo
  BY Parts, CancelReplacedStep
<1>2. /\ OnlyRun(r) /\ Keeps(r) /\ KeepsDone(r) /\ runs'[r].by \in {runs[r].by, s}
      /\ runs'[r].spec \in {runs[r].spec, CancelledRunFinally}
      /\ Unfailing' => runs'[r].spec = CancelledRunFinally
  BY Parts, CancelReplacedView
<1>3. Quiet /\ Monotone /\ crashes' = crashes
  BY CancelReplacedQuiet
<1>4. ~overlapped => Newer(s[1], r[1])
  <2>1. r[1] # s[1]
    BY <1>1, Parts DEF StartParts, StartOK
  <2> QED BY <1>1, <1>2, <2>1, AtWork, LastIsNewest, RunsArrived DEF OrderInv, OneStart
<1>5. ASSUME NEW t \in Starts PROVE OlderOK(t)'
  <2>1. OlderOK(t)
    BY DEF OrderInv
  <2> QED BY <1>2, <1>3, <1>4, <2>1, SameNewer DEF OlderOK, Quiet
<1>6. ASSUME NEW t \in Starts PROVE (Exists(t)' <=> Exists(t)) /\ (Over(t) => Over(t)')
  BY <1>2 DEF Over
<1>7. ASSUME NEW q \in Starts PROVE NewestOK(s, q)'
  <2>1. NewestOK(s, q)
    BY DEF OrderInv
  <2>2. (Newer(s[1], q[1])' <=> Newer(s[1], q[1])) /\ (Aims(s, q)' <=> Aims(s, q))
    BY <1>3, SameNewer, SameAims DEF Quiet
  <2>3. Unfailing' => Over(r)'
    BY <1>2 DEF Over
  <2> QED BY <1>1, <1>3, <1>6, <2>1, <2>2, <2>3
          DEF NewestOK, OneStart, StartStep, Quiet, Monotone
<1> QED BY <1>1, <1>3, <1>5, <1>6, <1>7, StartOrder DEF OneStart, StartStep

LEMMA AllReplacedOrder ==
  ASSUME IInv, OrderInv, NEW s \in Starts, AllReplaced(s), setup' = setup
  PROVE  OrderInv'
<1>1. OneStart(s, "cancel", "done", start[s].todo) /\ start[s].todo = {} /\ ClusterKept
  BY Parts, AllReplacedStep DEF AllReplaced
<1>2. Quiet /\ Monotone /\ crashes' = crashes
  BY AllReplacedQuiet
<1>3. ASSUME NEW t \in Starts PROVE OlderOK(t)'
  BY <1>1, <1>2, SameNewer DEF OrderInv, OlderOK, Quiet, ClusterKept
<1>4. ASSUME NEW q \in Starts PROVE NewestOK(s, q)'
  <2>1. NewestOK(s, q)
    BY DEF OrderInv
  <2>2. (Newer(s[1], q[1])' <=> Newer(s[1], q[1])) /\ (Aims(s, q)' <=> Aims(s, q))
    BY <1>2, SameNewer, SameAims DEF Quiet
  <2> QED BY <1>1, <1>2, <2>1, <2>2
          DEF NewestOK, OneStart, StartStep, ClusterKept, Over, Quiet, Monotone
<1> QED BY <1>1, <1>2, <1>3, <1>4, StartOrder DEF Over, ClusterKept, OneStart, StartStep

LEMMA InitOrder == Init => OrderInv
<1> SUFFICES ASSUME Init PROVE OrderInv
  OBVIOUS
<1>1. received = <<>> /\ Len(received) = 0
  BY DEF Init
<1>2. ArrivalsOK
  BY <1>1 DEF Init, ArrivalsOK, NewHandler
<1>3. LastOK
  BY DEF Init, LastOK, Active, NewHandler
<1>4. \A s \in Starts : ~Exists(s)
  BY DEF Init
<1> QED BY <1>2, <1>3, <1>4 DEF OrderInv, OlderOK, NewestOK

LEMMA StutterOrder == OrderInv /\ UNCHANGED vars => OrderInv'
<1> SUFFICES ASSUME OrderInv, UNCHANGED vars PROVE OrderInv'
  OBVIOUS
<1>1. Quiet /\ Calm /\ setup' = setup
  BY DEF vars, cluster, Quiet, Calm, Active, Over, Unfailing
<1> QED BY <1>1, CalmKeeps

LEMMA StepOrder == IInv /\ OrderInv /\ [Next]_vars => OrderInv'
<1> SUFFICES ASSUME IInv, OrderInv, Next PROVE OrderInv'
  BY StutterOrder
<1>1. setup' = setup
  BY DEF Next
<1>2. ASSUME NEW e \in Events, Handle(e) PROVE OrderInv'
  BY <1>1, <1>2, CalmKeeps, ListToCancelCalm, MatchedCalm, HandlerDoneCalm, GetExecutionOrderCalm,
     CancelListedCalm, PatchOrderCalm DEF Handle
<1>3. ASSUME NEW s \in Starts, StartPR(s) PROVE OrderInv'
  BY <1>1, <1>3, CalmKeeps, CreateSecretCalm, DeleteSecretCalm, UpdateSecretWithOwnerRefCalm,
     ReportStartCalm, PatchStateCalm, ReportFailureCalm,
     CreateRunOrder, AddPipelineRunOrder, ListReplacedOrder, AllReplacedOrder, CancelReplacedOrder
     DEF StartPR
<1>4. ASSUME NEW e \in Events, Receive(e) \/ GiveUp(e) PROVE OrderInv'
  BY <1>1, <1>4, CalmKeeps, ReceiveOrder, GiveUpCalm
<1>5. ASSUME NEW s \in Starts, CreateFails(s) \/ WatcherStarts(s) \/ TektonFinishes(s) PROVE OrderInv'
  BY <1>1, <1>5, CalmKeeps, CreateFailsOrder, WatcherStartsCalm, TektonFinishesCalm
<1>6. CASE Crash
  BY <1>1, <1>6, CalmKeeps, CrashCalm
<1> QED BY <1>2, <1>3, <1>4, <1>5, <1>6 DEF Next, Goroutines

----------------------------------------------------------------------------
(* What follows                                                            *)

\* The inductive invariant holds of every behaviour of the controller.
THEOREM ControllerInvariant == Spec => [](IInv /\ OrderInv)
<1>1. Init => IInv /\ OrderInv
  BY InitIInv, InitOrder
<1>2. IInv /\ OrderInv /\ [Next]_vars => (IInv /\ OrderInv)'
  BY StepIInv, StepOrder
<1> QED BY <1>1, <1>2, PTL DEF Spec

LEMMA OrdersFollow == IInv => OrdersAreWholeBatches
<1> SUFFICES ASSUME IInv, NEW s \in Starts, Exists(s), runs[s].order # {}
             PROVE  /\ s \in runs[s].order
                    /\ \A r \in runs[s].order : r[1] = s[1] /\ Exists(r)
                    /\ failures = 0 =>
                         \A r \in Starts : r[1] = s[1] /\ Exists(r) => r \in runs[s].order
  BY DEF OrdersAreWholeBatches
<1>1. /\ runs[s].order = handler[s[1]].batch /\ s \in handler[s[1]].batch
      /\ \A r \in Starts : r[1] = s[1] => start[r].pc = "done"
      /\ HandlerOK(s[1])
  BY Parts DEF StartParts, HandlerParts, OrderOK
<1>2. ASSUME failures = 0, NEW r \in Starts, r[1] = s[1] PROVE r \in runs[s].order
  <2>1. UnfailingOK(r) /\ start[r].pc = "done"
    BY <1>1, <1>2, Parts DEF StartParts
  <2>2. ManagerEnabled
    BY <1>1 DEF HandlerOK
  <2> QED BY <1>1, <1>2, <2>1, <2>2 DEF UnfailingOK, Unfailing
<1> QED BY <1>1, <1>2 DEF HandlerOK

\* A limit on any Repository the definitions name is a limit on the event's own too.
\* pipelineascode.go:130 asks the event's Repository for a limit and :328 that of
\* the definition.  They can only be two if they have one URL (annotation_matcher.go:269), and
\* the webhook refuses a second Repository for a URL (webhook/validation.go).
LimitsAreShared ==
  \A x \in Setups : \A d \in Definitions : x.limit[RepositoryOf[d]] # 0 => x.limit[Home] # 0

LEMMA QueuedFollow == IInv /\ LimitsAreShared => QueuedRunsAreNamed
<1> SUFFICES ASSUME IInv, LimitsAreShared,
                    NEW s \in Starts, handler[s[1]].pc = "done", failures = 0, Queued(s)
             PROVE  Named(s)
  BY DEF QueuedRunsAreNamed
<1>1. StartOK(s) /\ OrderOK(s) /\ UnfailingOK(s) /\ ResourcesOK(s) /\ HandlerOK(s[1]) /\ setup \in Setups
  BY Parts DEF StartParts, HandlerParts, Structure, Typed
<1>2. Exists(s) /\ runs[s].state = "queued"
  BY DEF Queued
<1>3. ManagerEnabled
  BY <1>1, <1>2, StartsView DEF OrderOK, Limited, ManagerEnabled, LimitsAreShared
<1>4. start[s].pc = "done"
  BY <1>1, <1>2 DEF StartOK
<1>5. s \in handler[s[1]].batch
  BY <1>1, <1>3, <1>4 DEF UnfailingOK, Unfailing
<1>6. runs[s].order = handler[s[1]].batch
  BY <1>1, <1>5 DEF UnfailingOK, Unfailing
<1> QED BY <1>2, <1>5, <1>6 DEF Named, None

LEMMA FailureFollows == IInv => OneFailureLosesNothing
<1> SUFFICES ASSUME IInv, NEW s \in Starts
             PROVE  /\ Settled(s) /\ failures <= 1 /\ secrets[s] = "unowned" => Exists(s)
                    /\ setup.secretAutoCreation /\ Exists(s) /\ runs[s].state # None =>
                         secrets[s] = "owned"
                    /\ setup.secretAutoCreation /\ Exists(s) /\ runs[s].known => secrets[s] # "none"
                    /\ Settled(s) /\ failures <= 1 /\ Exists(s) => reported[s] # None
  BY DEF OneFailureLosesNothing, SecretsFollowTheirRuns, ProviderKnowsEveryRun
<1>1. StartOK(s) /\ ResourcesOK(s)
  BY Parts DEF StartParts
<1>2. secrets[s] # "unowned" \/ ~Settled(s) \/ start[s].pc \in {"none", "done"}
  BY <1>1 DEF StartOK
<1> QED BY <1>1, <1>2 DEF StartOK, ResourcesOK, Owned, AtMostOne

LEMMA ClosingFollows == IInv => ClosingCancelsWhatWasThere
<1> SUFFICES ASSUME IInv, NEW e \in Events, NEW s \in Starts,
                    ClosedUnfailing(e), Closes(e, s), FromPullRequest(s)
             PROVE  Over(s)
  BY DEF ClosingCancelsWhatWasThere
<1>1. ClosingOK(e) /\ s \in handler[e].before /\ Left(e, s)
  BY Parts DEF HandlerParts, Closes, Left
<1> QED BY <1>1 DEF ClosingOK, ClosedUnfailing, Unfailing

LEMMA NewestFollows == IInv /\ OrderInv => OneByOneTheNewestRemains
<1> SUFFICES ASSUME IInv, OrderInv, ~overlapped PROVE OneByOneTheNewestRemains
  BY DEF OneByOneTheNewestRemains
<1>1. OnlyOlderRunsAreCancelled
  BY DEF OnlyOlderRunsAreCancelled, OrderInv, OlderOK
<1>2. ASSUME failures = 0, crashes = 0, NEW s \in Starts, NEW r \in Starts,
             Settled(s), Exists(s), Exists(r), Newer(s[1], r[1]), Aims(s, r)
      PROVE  Over(r)
  <2>1. start[s].pc = "done"
    BY <1>2, Parts DEF StartParts, StartOK
  <2> QED BY <1>2, <2>1 DEF OrderInv, NewestOK, Unfailing
<1> QED BY <1>1, <1>2 DEF OneByOneTheNewestRemains, Aims

LEMMA TypesFollow == IInv /\ OrderInv => TypeOK
<1> SUFFICES ASSUME IInv, OrderInv PROVE TypeOK
  OBVIOUS
<1>1. Typed
  BY DEF IInv, Structure
<1>2. received \in Seq(Events) /\ IsInjective(received)
  BY DEF OrderInv, ArrivalsOK, IsInjective
<1> QED BY <1>1, <1>2 DEF TypeOK, Typed, HandlerType, StartType, RunType

\* Every variable of the controller has its type, and no event arrives twice.
THEOREM ControllerTyped == Spec => []TypeOK
BY ControllerInvariant, TypesFollow, PTL

\* An execution order names its own run and whole batches, and a queued run is
\* named, whatever order the starts of an event come to their end in.
THEOREM BatchesAlwaysNamed ==
  ASSUME LimitsAreShared
  PROVE  Spec => []BatchesAreNamed
<1>1. IInv => BatchesAreNamed
  BY OrdersFollow, QueuedFollow DEF BatchesAreNamed
<1> QED BY <1>1, ControllerInvariant, PTL

\* Whichever call of a start fails, alone, no secret known to be made is without
\* a run and no run goes unreported; whatever fails, a run the watcher was told
\* about owns its secret, and one whose creation was answered keeps it.
THEOREM OneFailureNeverLoses == Spec => []OneFailureLosesNothing
BY ControllerInvariant, FailureFollows, PTL

\* What a pull request had when its closing arrived is over once the closing is
\* handled, whatever starts, is cancelled or ends in between.
THEOREM ClosingAlwaysCancels == Spec => []ClosingCancelsWhatWasThere
BY ControllerInvariant, ClosingFollows, PTL

\* Where deliveries are handled one by one only older runs are cancelled, and
\* without failures the newest run of a definition remains.
THEOREM NewestAlwaysRemains == Spec => []OneByOneTheNewestRemains
BY ControllerInvariant, NewestFollows, PTL
=============================================================================
