----------------------------- MODULE Controller -----------------------------
(***************************************************************************)
(* The controller from a matched event to its PipelineRuns                 *)
(* (pkg/pipelineascode): every delivery is handled by a goroutine of its   *)
(* own, which starts one goroutine per matched definition; a start is a    *)
(* series of writes, each of which can fail, to the cluster and to the     *)
(* provider, and is followed by the cancellation of the runs it replaces.  *)
(*                                                                         *)
(* A run is named by the event and the definition it was created for:      *)
(*   spec   spec.status: Pending, None (may run) or Cancelled              *)
(*   state  the state annotation, None until the start has patched it      *)
(*   order  the execution order annotation: the runs of the batch, which   *)
(*          are sorted by name                                             *)
(*   by     the run whose start cancelled it, for the properties           *)
(*   known  whether the creation was answered, for the properties          *)
(* The git auth secret of a run, under the name drawn for it:              *)
(*   "none", "taken" (another secret has the name), "unowned" (made for    *)
(*   the run), "owned" (by the run, and deleted with it), or "lost" (made, *)
(*   and the controller was not answered)                                  *)
(***************************************************************************)
EXTENDS Integers, Sequences, FiniteSets, SequencesExt

CONSTANTS Events,
          EventOf,             \* what the webhook of each event said
          Definitions,         \* PipelineRuns of the .tekton directory
          MatchedBy,           \* definitions each event matches
          Annotation,          \* cancel-in-progress of each: "true", "false" or None
          RepositoryOf,        \* Repository of each (its target-namespace annotation)
          Home,                \* Repository of the event's URL
          Setups               \* settings and bounds of the instances, see below

ASSUME ControllerAssumption == \A x \in Setups : x.failures \in Nat /\ x.crashes \in Nat

VARIABLES setup,      \* the instance of this behaviour:
                      \*   limit      of each Repository, the global one's merged in
                      \*   cancelOnPullRequest, cancelOnPush, secretAutoCreation
                      \*              settings of the ConfigMap
                      \*   taken      starts whose secret's name another secret has
              \*   deliveries bound: the events there are
                      \*   failures   bound: failed calls and lost answers
                      \*   crashes    bound: deaths of the controller's process
          received,   \* the deliveries that were answered "accepted", in order
          handler,    \* the goroutine of each event
          start,      \* the goroutine of each event and definition
          runs,       \* the cluster: PipelineRuns
          secrets,    \* the cluster: the git auth secret of each
          reported,   \* the provider: last status reported of each
          failures, crashes,
          overlapped  \* two deliveries were ever handled at once, for a property

cluster == <<runs, secrets, reported>>
vars == <<setup, received, handler, start, cluster, failures, crashes, overlapped>>

Starts == {s \in Events \X Definitions : s[2] \in MatchedBy[s[1]]}

None == ""
NoRun == [spec |-> "none"]
Pending == "Pending"
CancelledRunFinally == "CancelledRunFinally"

PullRequest == "pull_request"
Push == "push"
PullRequestClosed == "pull_request_closed"

Active(e) == handler[e].pc \notin {"expected", "done", "dead"}

NewHandler == [pc |-> "expected", batch |-> {}, todo |-> {}, before |-> {}]
NewStart == [pc |-> "none", todo |-> {}]

Init ==
  /\ setup \in Setups
  /\ received = <<>>
  /\ handler = [e \in Events |-> NewHandler]
  /\ start = [s \in Starts |-> NewStart]
  /\ runs = [s \in Starts |-> NoRun]
  /\ secrets = [s \in Starts |-> IF s \in setup.taken THEN "taken" ELSE "none"]
  /\ reported = [s \in Starts |-> None]
  /\ failures = 0
  /\ crashes = 0
  /\ overlapped = FALSE

----------------------------------------------------------------------------
(* The runs a cancellation selects                                         *)

Exists(s) == runs[s] # NoRun

Over(s) == runs[s].spec = CancelledRunFinally \/ runs[s].done

\* The labels written at creation.
SamePullRequest(e, s) == EventOf[s[1]].pullRequest = EventOf[e].pullRequest

FromPullRequest(s) == EventOf[s[1]].type \in {"pull_request", "Merge_Request", "ops"}

cancelInProgress(e, d) ==
  \/ Annotation[d] = "true"
  \/ Annotation[d] = None /\ EventOf[e].target = PullRequest /\ setup.cancelOnPullRequest
  \/ Annotation[d] = None /\ EventOf[e].target = Push /\ setup.cancelOnPush

MutantReplacesItself(s) ==
  {r \in Starts : Exists(r) /\ ~Over(r) /\ r[2] = s[2]}

\* What the start of s cancels: the runs of its definition, on its branch.
Replaced(s) ==
  {r \in Starts :
     /\ Exists(r) /\ ~Over(r)
     /\ r[2] = s[2]
     /\ EventOf[s[1]].target = PullRequest => SamePullRequest(s[1], r) /\ FromPullRequest(r)
     /\ EventOf[r[1]].branch = EventOf[s[1]].branch
     /\ r # s}

MutantOnlyAnnotated(e) ==
  {r \in Starts :
     /\ Exists(r) /\ ~Over(r)
     /\ SamePullRequest(e, r)
     /\ Annotation[r[2]] = "true"}

\* What the end of a pull request cancels, in the namespace of its Repository.
LeftByPullRequest(e) ==
  {r \in Starts :
     /\ Exists(r) /\ ~Over(r)
     /\ RepositoryOf[r[2]] = Home
     /\ SamePullRequest(e, r) /\ FromPullRequest(r)
     /\ IF setup.cancelOnPullRequest THEN Annotation[r[2]] # "false" ELSE Annotation[r[2]] = "true"}

\* What a /cancel command cancels: everything, or the runs of the definition it names.
Commanded(e) ==
  LET target == EventOf[e].cancel
      repository == IF target \in Definitions THEN RepositoryOf[target] ELSE Home
  IN {r \in Starts :
        /\ Exists(r) /\ ~Over(r)
        /\ RepositoryOf[r[2]] = repository
        /\ IF EventOf[e].target = PullRequest THEN SamePullRequest(e, r)
                                              ELSE EventOf[r[1]].sha = EventOf[e].sha
        /\ target \in Definitions => r[2] = target}

----------------------------------------------------------------------------
(* A delivery: accepted before it is handled, and matched                  *)

mayFail ==
  /\ failures < setup.failures
  /\ failures' = failures + 1

\* A write to the cluster succeeds, or fails, done or not.
written(cluster1) ==
  \/ runs' = cluster1 /\ UNCHANGED failures
  \/ mayFail /\ runs' \in {runs, cluster1}

Receive(e) ==
  /\ handler[e].pc = "expected" /\ e \in setup.deliveries
  /\ received' = Append(received, e)
  /\ handler' = [handler EXCEPT ![e] =
                   [@ EXCEPT !.pc = "matching", !.before = {s \in Starts : Exists(s)}]]
  /\ overlapped' = (overlapped \/ \E other \in Events : Active(other))
  /\ UNCHANGED <<start, cluster, failures, crashes>>

\* The runs a closed pull request or a command cancels are listed ...
ListToCancel(e) ==
  /\ handler[e].pc = "matching"
  /\ EventOf[e].target = PullRequestClosed \/ EventOf[e].cancel # None
  /\ handler' = [handler EXCEPT ![e] =
                   [@ EXCEPT !.pc = "cancelling",
                             !.todo = IF EventOf[e].target = PullRequestClosed
                                      THEN LeftByPullRequest(e) ELSE Commanded(e)]]
  /\ UNCHANGED <<received, start, cluster, failures, crashes, overlapped>>

\* ... and patched, whatever has become of them.
CancelListed(e, s) ==
  /\ handler[e].pc = "cancelling"
  /\ s \in handler[e].todo
  /\ written([runs EXCEPT ![s].spec = CancelledRunFinally])
  /\ handler' = [handler EXCEPT ![e].todo = @ \ {s}]
  /\ UNCHANGED <<received, start, secrets, reported, crashes, overlapped>>

Matched(e) ==
  /\ handler[e].pc = "matching"
  /\ EventOf[e].target # PullRequestClosed /\ EventOf[e].cancel = None
  /\ handler' = [handler EXCEPT ![e].pc = IF MatchedBy[e] = {} THEN "done" ELSE "starting"]
  /\ start' = [s \in Starts |->
                 IF s[1] # e THEN start[s]
                 ELSE [NewStart EXCEPT !.pc = IF setup.secretAutoCreation THEN "secret" ELSE "create"]]
  /\ UNCHANGED <<received, cluster, failures, crashes, overlapped>>

\* The repository, the list or the templates cannot be read.
GiveUp(e) ==
  /\ handler[e].pc = "matching"
  /\ mayFail
  /\ handler' = [handler EXCEPT ![e].pc = "done"]
  /\ UNCHANGED <<received, start, cluster, crashes, overlapped>>

HandlerDone(e) ==
  /\ handler[e].pc \in {"cancelling", "ordering"} /\ handler[e].todo = {}
  /\ handler' = [handler EXCEPT ![e].pc = "done"]
  /\ UNCHANGED <<received, start, cluster, failures, crashes, overlapped>>

----------------------------------------------------------------------------
(* The steps of a start                                                    *)

At(s, pc) == handler[s[1]].pc = "starting" /\ start[s].pc = pc

goto(s, pc) == start' = [start EXCEPT ![s].pc = pc]

unchangedHandler == UNCHANGED <<received, handler, crashes, overlapped>>

\* A secret that is there is used as it is.  Nothing deletes the secret of a
\* creation that fails, though it may have been made.
CreateSecret(s) ==
  /\ At(s, "secret")
  /\ \/ /\ goto(s, "create")
        /\ secrets' = IF secrets[s] = "taken" THEN secrets ELSE [secrets EXCEPT ![s] = "unowned"]
        /\ UNCHANGED failures
     \/ /\ goto(s, "failed")
        /\ mayFail
        /\ \/ UNCHANGED secrets
           \/ secrets[s] # "taken" /\ secrets' = [secrets EXCEPT ![s] = "lost"]
  /\ UNCHANGED <<runs, reported>> /\ unchangedHandler

Limited(d) == setup.limit[RepositoryOf[d]] # 0

MutantSpecIsState(d) ==
  [spec |-> IF Limited(d) THEN "queued" ELSE None,
   state |-> None, order |-> {}, done |-> FALSE, by |-> <<>>, known |-> TRUE]

newRun(d) ==
  [spec |-> IF Limited(d) THEN Pending ELSE None,
   state |-> None, order |-> {}, done |-> FALSE, by |-> <<>>, known |-> TRUE]

CreateRun(s) ==
  /\ At(s, "create")
  /\ runs' = [runs EXCEPT ![s] = newRun(s[2])]
  /\ goto(s, IF setup.secretAutoCreation THEN "own" ELSE "report")
  /\ UNCHANGED <<secrets, reported, failures>> /\ unchangedHandler

\* The creation fails, or its answer is lost.
CreateFails(s) ==
  /\ At(s, "create")
  /\ mayFail
  /\ runs' \in {runs, [runs EXCEPT ![s] = [newRun(s[2]) EXCEPT !.known = FALSE]]}
  /\ goto(s, IF setup.secretAutoCreation THEN "unsecret" ELSE "failed")
  /\ UNCHANGED <<secrets, reported>> /\ unchangedHandler

\* Whatever secret has the name, and whether or not the run was created.
DeleteSecret(s) ==
  /\ At(s, "unsecret")
  /\ goto(s, "failed")
  /\ \/ secrets' = [secrets EXCEPT ![s] = "none"] /\ UNCHANGED failures
     \/ mayFail /\ secrets' \in {secrets, [secrets EXCEPT ![s] = "none"]}
  /\ UNCHANGED <<runs, reported>> /\ unchangedHandler

MutantIgnoresOwnerError(s) ==
  /\ At(s, "own")
  /\ \/ /\ secrets' = [secrets EXCEPT ![s] = "owned"]
        /\ goto(s, "report")
        /\ UNCHANGED failures
     \/ mayFail /\ goto(s, "done") /\ secrets' \in {secrets, [secrets EXCEPT ![s] = "owned"]}
  /\ UNCHANGED <<runs, reported>> /\ unchangedHandler

UpdateSecretWithOwnerRef(s) ==
  /\ At(s, "own")
  /\ \/ /\ secrets' = [secrets EXCEPT ![s] = "owned"]
        /\ goto(s, "report")
        /\ UNCHANGED failures
     \/ mayFail /\ goto(s, "failed with run") /\ secrets' \in {secrets, [secrets EXCEPT ![s] = "owned"]}
  /\ UNCHANGED <<runs, reported>> /\ unchangedHandler

ReportStart(s) ==
  /\ At(s, "report")
  /\ \E said \in {[reported EXCEPT ![s] = IF Limited(s[2]) THEN "queued" ELSE "in_progress"]} :
       \/ reported' = said /\ goto(s, "patch") /\ UNCHANGED failures
       \/ mayFail /\ goto(s, "failed with run") /\ reported' \in {reported, said}
  /\ UNCHANGED <<runs, secrets>> /\ unchangedHandler

\* The state makes the watcher see the run; a failure is only logged.
PatchState(s) ==
  /\ At(s, "patch")
  /\ goto(s, "started")
  /\ written([runs EXCEPT ![s].state = IF Limited(s[2]) THEN "queued" ELSE "started"])
  /\ UNCHANGED <<secrets, reported>> /\ unchangedHandler

ReportFailure(s) ==
  /\ handler[s[1]].pc = "starting" /\ start[s].pc \in {"failed", "failed with run"}
  /\ goto(s, IF start[s].pc = "failed" THEN "done" ELSE "started")
  /\ \/ reported' = [reported EXCEPT ![s] = "failure"] /\ UNCHANGED failures
     \/ mayFail /\ reported' \in {reported, [reported EXCEPT ![s] = "failure"]}
  /\ UNCHANGED <<runs, secrets>> /\ unchangedHandler

----------------------------------------------------------------------------
(* After a start: the batch and the runs it replaces                       *)

ManagerEnabled == setup.limit[Home] # 0

MutantLosesAppend(s) ==
  /\ At(s, "started")
  /\ handler' = [handler EXCEPT ![s[1]].batch = IF ManagerEnabled THEN {s} ELSE @]
  /\ goto(s, "done")
  /\ UNCHANGED <<received, cluster, failures, crashes, overlapped>>

\* The run joins the batch; it cancels the older ones where there is no limit.
AddPipelineRun(s) ==
  /\ At(s, "started")
  /\ handler' = [handler EXCEPT ![s[1]].batch = IF ManagerEnabled THEN @ \cup {s} ELSE @]
  /\ goto(s, IF cancelInProgress(s[1], s[2]) /\ setup.limit[Home] = 0 THEN "list" ELSE "done")
  /\ UNCHANGED <<received, cluster, failures, crashes, overlapped>>

ListReplaced(s) ==
  /\ At(s, "list")
  /\ \/ /\ start' = [start EXCEPT ![s] = [pc |-> "cancel", todo |-> Replaced(s)]]
        /\ UNCHANGED failures
     \/ mayFail /\ goto(s, "done")
  /\ UNCHANGED cluster /\ unchangedHandler

CancelReplaced(s, r) ==
  /\ At(s, "cancel")
  /\ r \in start[s].todo
  /\ start' = [start EXCEPT ![s].todo = @ \ {r}]
  /\ written([runs EXCEPT ![r].spec = CancelledRunFinally, ![r].by = s])
  /\ UNCHANGED <<secrets, reported>> /\ unchangedHandler

AllReplaced(s) ==
  /\ At(s, "cancel") /\ start[s].todo = {}
  /\ goto(s, "done")
  /\ UNCHANGED <<cluster, failures>> /\ unchangedHandler

AllStarted(e) == \A d \in MatchedBy[e] : start[<<e, d>>].pc = "done"

\* All the starts are awaited; each run of the batch is given the order.
GetExecutionOrder(e) ==
  /\ handler[e].pc = "starting"
  /\ AllStarted(e)
  /\ handler' = [handler EXCEPT ![e] = [@ EXCEPT !.pc = "ordering", !.todo = handler[e].batch]]
  /\ UNCHANGED <<received, start, cluster, failures, crashes, overlapped>>

PatchOrder(e, s) ==
  /\ handler[e].pc = "ordering"
  /\ s \in handler[e].todo
  /\ handler' = [handler EXCEPT ![e].todo = @ \ {s}]
  /\ written([runs EXCEPT ![s].order = handler[e].batch])
  /\ UNCHANGED <<received, start, secrets, reported, crashes, overlapped>>

----------------------------------------------------------------------------
(* The process dies: nothing redelivers an accepted event                  *)

Crash ==
  /\ crashes < setup.crashes
  /\ \E e \in Events : Active(e)
  /\ handler' = [e \in Events |-> IF Active(e) THEN [handler[e] EXCEPT !.pc = "dead"]
                                              ELSE handler[e]]
  /\ crashes' = crashes + 1
  /\ UNCHANGED <<received, start, cluster, failures, overlapped>>

----------------------------------------------------------------------------
(* The watcher and Tekton, as far as a run depends on them                 *)

Queued(s) == Exists(s) /\ runs[s].state = "queued" /\ runs[s].spec = Pending /\ ~runs[s].done

Running(s) == Exists(s) /\ runs[s].state = "started" /\ ~runs[s].done

\* A run with an order brings the ones its order names to the queue.
Named(s) == \E q \in Starts : Exists(q) /\ runs[q].state # None /\ s \in runs[q].order

HasRoom(s) ==
  LET peers == {r \in Starts : Running(r) /\ RepositoryOf[r[2]] = RepositoryOf[s[2]]}
  IN setup.limit[RepositoryOf[s[2]]] = 0 \/ Cardinality(peers) < setup.limit[RepositoryOf[s[2]]]

MutantNamesItself(s) == Queued(s) /\ runs[s].order # {} /\ HasRoom(s)

Startable(s) == Queued(s) /\ Named(s) /\ HasRoom(s)

WatcherStarts(s) ==
  /\ Startable(s)
  /\ runs' = [runs EXCEPT ![s] = [@ EXCEPT !.spec = None, !.state = "started"]]
  /\ UNCHANGED <<received, handler, start, secrets, reported, failures, crashes, overlapped>>

TektonFinishes(s) ==
  /\ Exists(s) /\ ~runs[s].done /\ runs[s].spec # Pending
  /\ runs' = [runs EXCEPT ![s].done = TRUE]
  /\ UNCHANGED <<received, handler, start, secrets, reported, failures, crashes, overlapped>>

----------------------------------------------------------------------------

Handle(e) ==
  \/ ListToCancel(e) \/ Matched(e) \/ GetExecutionOrder(e) \/ HandlerDone(e)
  \/ \E s \in Starts : CancelListed(e, s) \/ PatchOrder(e, s)

StartPR(s) ==
  \/ CreateSecret(s) \/ CreateRun(s) \/ DeleteSecret(s) \/ UpdateSecretWithOwnerRef(s)
  \/ ReportStart(s) \/ PatchState(s) \/ ReportFailure(s)
  \/ AddPipelineRun(s) \/ ListReplaced(s) \/ AllReplaced(s)
  \/ \E r \in Starts : CancelReplaced(s, r)

Goroutines == (\E e \in Events : Handle(e)) \/ (\E s \in Starts : StartPR(s))

Next ==
  /\ \/ Goroutines
     \/ \E e \in Events : Receive(e) \/ GiveUp(e)
     \/ \E s \in Starts : CreateFails(s) \/ WatcherStarts(s) \/ TektonFinishes(s)
     \/ Crash
  /\ UNCHANGED setup

\* Goroutines run, the watcher starts what it may, and runs end.  No behaviour
\* takes a step twice, so to be fair to all goroutines together is to be fair
\* to each of them.
Spec ==
  /\ Init /\ [][Next]_vars
  /\ WF_vars(Goroutines /\ UNCHANGED setup)
  /\ WF_vars((\E s \in Starts : WatcherStarts(s)) /\ UNCHANGED setup)
  /\ WF_vars((\E s \in Starts : TektonFinishes(s)) /\ UNCHANGED setup)

----------------------------------------------------------------------------
(* Properties                                                              *)

\* Every variable has its type.
TypeOK ==
  /\ received \in Seq(Events) /\ IsInjective(received)
  /\ handler \in
       [Events -> [pc : {"expected", "matching", "cancelling", "starting", "ordering", "done", "dead"},
                   batch : SUBSET Starts, todo : SUBSET Starts, before : SUBSET Starts]]
  /\ start \in
       [Starts -> [pc : {"none", "secret", "create", "unsecret", "own", "report", "patch",
                         "failed", "failed with run", "started", "list", "cancel", "done"},
                   todo : SUBSET Starts]]
  /\ runs \in
       [Starts -> {NoRun} \cup
                  [spec : {Pending, None, CancelledRunFinally}, state : {None, "queued", "started"},
                   order : SUBSET Starts, done : BOOLEAN, by : {<<>>} \cup Starts,
                   known : BOOLEAN]]
  /\ secrets \in [Starts -> {"none", "taken", "unowned", "owned", "lost"}]
  /\ reported \in [Starts -> {None, "queued", "in_progress", "failure"}]
  /\ failures \in 0..setup.failures
  /\ crashes \in 0..setup.crashes
  /\ overlapped \in BOOLEAN

\* The starts of an event add their runs to one list while others still run;
\* an execution order, once written, names its own run and, unless a call
\* failed, all the runs of its event, and nothing else.
OrdersAreWholeBatches ==
  \A s \in Starts :
    Exists(s) /\ runs[s].order # {} =>
      /\ s \in runs[s].order
      /\ \A r \in runs[s].order : r[1] = s[1] /\ Exists(r)
      /\ failures = 0 => \A r \in Starts : r[1] = s[1] /\ Exists(r) => r \in runs[s].order

Settled(s) == handler[s[1]].pc \in {"ordering", "done"}

\* After one failed call no secret that the controller knows to have made is
\* without a run, and a run the watcher was told about owns its secret.  The
\* clean-up after a failed creation takes the secret of no run whose creation
\* was answered, whatever fails.  What is lost all the same is lost with an
\* answer: a secret whose creation went unanswered stays without a run, and a
\* run whose creation went unanswered is left without its secret.
SecretsFollowTheirRuns ==
  \A s \in Starts :
    /\ Settled(s) /\ failures <= 1 /\ secrets[s] = "unowned" => Exists(s)
    /\ setup.secretAutoCreation /\ Exists(s) /\ runs[s].state # None => secrets[s] = "owned"
    /\ setup.secretAutoCreation /\ Exists(s) /\ runs[s].known => secrets[s] # "none"

\* One failed call leaves no run the provider has heard nothing of: a run whose
\* start is broken off before its status is reported is reported as failed.
ProviderKnowsEveryRun ==
  \A s \in Starts :
    Settled(s) /\ failures <= 1 /\ Exists(s) => reported[s] # None

Newer(e1, e2) ==
  \E i, j \in 1..Len(received) : i > j /\ received[i] = e1 /\ received[j] = e2

\* What cancel-in-progress cancels is older than what cancels it
\* (running-pipelines.md:159, the reason given at cancel_pipelineruns.go:170).
OnlyOlderRunsAreCancelled ==
  \A s \in Starts : Exists(s) /\ runs[s].by # <<>> => Newer(runs[s].by[1], s[1])

\* When deliveries are handled one at a time and nothing fails, the newest run
\* of a definition for a branch remains and the older ones are over.
OneByOneTheNewestRemains ==
  ~overlapped =>
    /\ OnlyOlderRunsAreCancelled
    /\ failures = 0 /\ crashes = 0 =>
         \A s, r \in Starts :
           /\ Settled(s) /\ Exists(s) /\ Exists(r) /\ Newer(s[1], r[1])
           /\ cancelInProgress(s[1], s[2]) /\ setup.limit[Home] = 0
           /\ r[2] = s[2] /\ EventOf[r[1]].branch = EventOf[s[1]].branch
           /\ EventOf[s[1]].target = PullRequest =>
                SamePullRequest(s[1], r) /\ FromPullRequest(r)
           => Over(r)

\* What the closing of e is to leave over: a run of the pull request that was
\* there when e came and has not opted out.
Closes(e, s) ==
  /\ s \in handler[e].before
  /\ RepositoryOf[s[2]] = Home
  /\ EventOf[s[1]].pullRequest = EventOf[e].pullRequest
  /\ Annotation[s[2]] = "true" \/ (setup.cancelOnPullRequest /\ Annotation[s[2]] = None)

ClosedUnfailing(e) ==
  EventOf[e].target = PullRequestClosed /\ handler[e].pc = "done" /\ failures = 0

\* Closing a pull request cancels every run of it that a push to it or a comment
\* on it started, unless the run is over by then.
ClosingCancelsWhatWasThere ==
  \A e \in Events : \A s \in Starts :
    ClosedUnfailing(e) /\ Closes(e, s) /\ FromPullRequest(s) => Over(s)

\* What running-pipelines.md:163 says: it cancels whatever is in progress of the
\* pull request.  A run started by a label is not selected.
ClosingCancelsEveryRun ==
  \A e \in Events : \A s \in Starts :
    ClosedUnfailing(e) /\ Closes(e, s) /\ EventOf[s[1]].target = PullRequest => Over(s)

\* A run in state queued is in somebody's execution order once its event is
\* handled, unless a call failed: the watcher queues nothing else
\* (queue_pipelineruns.go:20, concurrency.md:20 and 25).
QueuedRunsAreNamed ==
  \A s \in Starts :
    handler[s[1]].pc = "done" /\ failures = 0 /\ Queued(s) => Named(s)

\* In the end no run waits in the queue: a failed patch of its order, or a failed
\* start of another run of its batch, does not keep it there while one order
\* names it.  Only the death of the controller does.
NoRunWaitsForEver ==
  <>[](\A s \in Starts :
         Queued(s) => \/ crashes > 0
                      \/ failures > 0 /\ ~Named(s))

\* What the watcher may start is named, and what names it is a whole batch.
BatchesAreNamed == OrdersAreWholeBatches /\ QueuedRunsAreNamed

\* When one call fails, the steps after it and the clean-up leave neither a
\* secret behind that was known to be made, nor a run in silence.
OneFailureLosesNothing == SecretsFollowTheirRuns /\ ProviderKnowsEveryRun
============================================================================
