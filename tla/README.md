# Verification of Pipelines-as-Code

Pipelines-as-Code turns webhook events of a Git provider into Tekton
PipelineRuns. A controller decides what an event starts, creates the runs and
reports their start; a watcher reconciles them, keeps a queue per Repository that
admits at most `concurrency_limit` of them, starts the next one when one finishes
and reports how each ended. This directory holds TLA+ specifications of the parts
of that system where order, concurrency and failure matter, TLC configurations
that check them on small instances, and proofs for every instance.

## The system

| Part | State it keeps | Operations | Hard because |
| --- | --- | --- | --- |
| event reception `pkg/adapter` | none: a goroutine per event | detect, answer, handle; incoming webhooks | the event is answered before it is handled; the forge moves on meanwhile |
| providers' payloads and access `pkg/provider/*`, `pkg/policy`, `pkg/acl` | what they read of the event | parse, list comments and members, read `.tekton` | every check is a call that can fail; who the sender is differs by provider |
| commands and matching `pkg/opscomments`, `pkg/matcher` | none | which definitions an event starts | commands in comments, skipped commits, what succeeded already |
| resolution `pkg/resolve`, `pkg/matcher`, `pkg/hub` | caches of one event | pipelines and tasks of each definition | what was fetched for one definition is shared by the next |
| controller `pkg/pipelineascode` | none: creates runs and secrets | start a batch, write the execution order, cancel superseded runs | one step of several fails; several events at once |
| priority semaphore `pkg/queue/semaphore.go`, `priority_queue.go` | limit, weighted semaphore, running keys, heap of pending keys | add, acquire the head, requeue, release, remove, resize | permits are returned by a rule that depends on the limit after resizes; a retry must get its old place back |
| queue manager `pkg/queue/queue_manager.go` | one semaphore per Repository, behind one lock | list keys, remove, remove and take, drop a repository, rebuild all | rebuilt from the cluster while writes are in flight |
| admissions `pkg/queue/admission.go` | unfinished work per owner, the owner claiming each key, leases held by workers | acquire (initial, resume, promotion), finish, forget | the lock is not held while a batch is started; the maps are two records of one fact |
| watcher reconciler `pkg/reconciler/reconciler.go`, `queue_pipelineruns.go` | none between reconciles: annotations and spec in the cluster | reconcile a run: resume its batch, queue it, start candidates, report the end, hand off | lost answers, delayed writes, cancellation and replacement between a read and a write |
| finalizer `pkg/reconciler/finalizer.go` | none | hand off for a deleted run | races with the completion of the same run |
| reconstruction `Manager.InitQueues` | none | read all repositories and runs, fill the queues | a crash between any two steps above |
| event handlers `pkg/reconciler/controller.go` | the work queue | enqueue runs on run and repository changes | a change nobody is woken for |
| status reporting `pkg/reconciler/status.go`, `CreateStatus` of each provider | check runs, statuses and comments at the forge; annotations of the run | report an event, a start, an end | a run's reports are written by two processes, one after the other; a lost answer is sent again |
| token rotation `pkg/provider/gitlab/token_rotation.go` | a lock and a cache per Repository, the token in a secret | introspect, verify, rotate, store | a rotation revokes the token others hold |
| HTTP retries `pkg/provider/retryhttp` | the attempt | retry, wait, replay the body | a lost answer and a failure look alike |
| cleanup `pkg/kubeinteraction/cleanups.go` | none | list, sort, delete | several workers delete from their own lists |
| settings `pkg/params` | the settings behind a lock, the hub catalogs | synchronise, copy, read in place | events read while the informer writes, some without the lock |
| trusted hosts `pkg/hostpolicy`, `pkg/vcshost` | the list and an annotation of the ConfigMap | trust, learn on first use | learning races with the administrator |
| analysis `pkg/llm` | the pass over the roles | ask, post | one role fails; the reconcile is repeated |
| webhook validation, metrics, tracing, `tkn pac` | | | not modelled, see the end |

How they interact. A webhook is answered by the controller and handled by a
goroutine: the provider parses it, access is checked, the `.tekton` directory of
the right commit is read, the definitions that match are resolved, and one
goroutine each creates a run. The runs of a limited Repository get
`spec.status: Pending` and the state `queued`, and, when all have been created,
the execution order of the batch. The watcher is woken by every change of a run
that has a state. It reads the run, resumes a batch the run owns, and if the run
is queued it lists the runs of the execution order and asks the queue manager
for an *admission* (`AcquireAdmission`, initial mode): as many candidates as
there is room for, leased to this worker. It tries to start each candidate with
one patch fenced by resource version and UID and tells the manager what happened
(`FinishAdmission`). When a run is over the watcher reports it, resumes its
batch, then acquires a *promotion* for it: the run leaves the queue and the head
takes its slot. The manager's lock makes each of these calls atomic and nothing
else is. Controller and watcher share no memory: they meet in the annotations of
the runs, at the forge, and in the secrets and ConfigMaps of the cluster.

Correctness, in a line each. *Intake*: what an event starts is of its commit,
wanted by somebody who may, and has not succeeded already. *Start*: a batch is
named whole, no single failure leaves a run the provider never heard of or, but for a
lost answer, a secret without its run, and what is cancelled is what was replaced. *Queue*: slots are given in order and
within the limit; a slot is held by every run that was or may still be started,
and by no other for ever; each owner's work has one worker; each finished run
hands its slot to one run; a restart rebuilds the same queue; every queued run is
eventually started or gone. *Reports*: every ended run the watcher was shown is in the
end shown as it ended. *Services*: no change is made twice, no token lost but by a failure, no run
deleted that should stay, no copy of half a configuration.

## Modules

| Module | Models | Composed with |
| --- | --- | --- |
| `Semaphore` | the semaphore and its heap as operators on a record | |
| `PrioritySemaphore` | one semaphore under any sequence of calls | `Semaphore`; refines `SlotPool` |
| `SlotPool` | abstract: first come, first served slots, no permits, no heap | |
| `SemaphoreTheorems`, `PrioritySemaphore_proofs` | a lemma per operator; the theorems | |
| `AdmissionsTheorems`, `QueueManager_proofs` | a lemma per step of the methods; the theorems of the manager | |
| `Watcher_proofs` | theorems of `Watcher`: those that hold whoever deletes what, then those about the slots of the runs in the cluster | |
| `Services_proofs` | theorems of `Retries`, `TokenRotation`, `Settings`, `Analysis`, `HostPolicy`, `Cleanup`, `Resolution` | |
| `Controller_proofs` | theorems of `Controller`: what its inductive invariant says, a lemma per action, what follows | |
| `Intake_proofs` | the theorem that outsiders wait: lemmas for commands, each provider, matching and comments, then a lemma per action | |
| `Admissions` | the manager's record of one Repository and the steps its methods are made of | `Semaphore` |
| `QueueManager` | the manager under any calls of two or more workers | `Admissions` |
| `Watcher` | the reconcilers of a Repository's runs, the cluster, crash and reconstruction | extends `QueueManager`; refines `RunQueue` |
| `RunQueue` | abstract: what the users of a limited Repository are promised | |
| `Controller` | from a matched event to its runs, secrets, reports, order and cancellations | |
| `GitEvents` | what a forge sends and answers, and the event made of it | `OpsComments` |
| `OpsComments` | the commands in comments | |
| `Access` | policies, OWNERS files, and how several checks are put together | |
| `Matching` | which definitions an event matches | `GitEvents` |
| `GitHubEvents`, `GitLabEvents`, `GiteaEvents`, `BitbucketCloudEvents`, `BitbucketDataCenterEvents` | detection, payload, access, commit, files and directory of each provider | `GitEvents`, `Access` |
| `Intake` | from a hook to the runs it starts, hooks handled concurrently while people act | all of the above |
| `Statuses` | what each provider shows for a status | |
| `Reporting` | everyone who writes the statuses of a commit, step by step | `Statuses` |
| `Retries`, `TokenRotation`, `Cleanup`, `Resolution`, `Analysis`, `Settings`, `HostPolicy` | one service each | |
| `MC...` | the instances TLC checks | |

### The queue and the watcher

*Semaphore.* `running`, `pending` and `limit` are the fields of
`prioritySemaphore`; `held` is what was taken from the x/sync weighted
semaphore. The heap orders items by the time they were added and a counter; the
model keeps that order as a relation `ahead` and drops the numbers. An item
keeps its pair while it is running, so the relation spans running and pending
keys and `requeue` is simply a move between two sets. This assumes a clock that
does not run backwards: items are added with `time.Now()`.

Loops that call `acquireLatest` until something stops them (a batch, a resume,
a reconstruction) are one operator, `acquireBatch(s, allowed, n)`: it takes the
longest prefix of the heap within `allowed`, of at most `n` keys, that there is
room for. `ClosedFormsAreTheLoops` compares it with the loop in every reachable
state, as it does `vacate` for a set of keys that leaves running. A closed form
has no recursion, so the proofs can use it.

*Admissions.* No operation of the manager touches two repositories, so a record
of one Repository stands for the maps of all. `admissions[o]` is
`*admissionState`; its candidates are three sets (`cands`, the `reserved` ones,
the `attempts` made with the UID each was for) since the slice is always in heap
order. `claims[k]` is the owner instead of a pointer to its state; a pointer to
a deleted state differs from the owner's new one, which the model keeps in the
leases: a lease becomes `Stale` when its admission is deleted.

*QueueManager.* A method is one action, since `qm.lock` is held throughout.
`AcquireAdmission` is split by what it returns: nothing, an error before it
changed anything but the queue's limit, an error after it registered the owner,
listed the keys and re-reserved slots (`AcquireBlocked`), or a lease. Only
an initial admission passes a list and only a resume looks at whether its owner
is finishing. `AddListToRunningQueue` and `AddToPendingQueue` are called by
`InitQueues`, before any worker runs. What a worker reports is arbitrary:
each leased candidate is started, gone, attempted, or untouched.

*Watcher.* It extends `QueueManager`, with one worker per run
(`WatcherAssumption`: the work queue of knative runs one reconcile of a key at a
time), and composes its actions
with the steps of a reconcile: a step ends at each call of the manager, of the
API server or of the provider. `work[k]` holds what the reconciler holds in
local variables. `Begin`, `proceed` and `FinishBatch` are the control of
`reconcileKind`, `finalizeKind` and `processQueueAdmission`: a resume first, then
by the run's state the terminal path (`Report`, resume, promotion,
`TerminalWrite`, `ForgetOwner`), a new admission, or nothing. The
`...WithoutRepository` actions are the branches that drop the queue.

A start is `StartCandidate` (the read, and the conditional patch sent), then
`StartAnswered`, or `StartUnanswered` and `Readback`. A patch whose answer is
lost stays in `inFlight`: it commits (`Commit`) or fails (`Drop`) later,
unless another write to the run voids its resource version. The terminal write is not
conditional and may be done without its answer arriving.

`Crash` loses the manager and every reconcile; `RebuildStarted` and
`RebuildQueued` are the two halves of `InitQueues`, between which the cluster
moves on. `TakeOver` is the other way to lose the leader: a standby replica, whose
`InitQueues` ran when it was started (in the model: before the first run), is
given every key and nothing else.

It leaves out: informer lag (a reconcile of an old version ends at once and
the event of the new one follows, `reconciler.go:161`); graceful stop and
graceful cancellation, which are like a cancellation for every test made here;
runs started by something else than the queue; malformed keys and lists;
finalizers removed by hand; a run whose provider is not configured. The list of
queued runs is filtered in one step, though the code reads the runs one after
another, and a batch is tried in any order, though the code tries it in queue
order. All runs have the same execution order.

### The controller

A delivery is handled by a goroutine (`handler[e]`), a definition by one of its
own (`start[<<e, d>>]`), whose `pc` walks through `startPR`: `CreateSecret`,
`CreateRun` (whose answer may be lost: the run is there and the start has failed),
`UpdateSecretWithOwnerRef`, `CreateStatus`, `PatchState`, and the list and patches
of cancel-in-progress. A failure goes the way of the code: the secret is deleted
when the creation of the run is answered with an error, and a run whose start broke
off is reported as failed. Any failing call may have been done all the same. A secret
that is there already, under the name drawn for the run, is used (`setup.taken`). When all starts have ended the order is written run by run. The queue is
reduced to what matters here: a queued run starts when an order names it and there
is room. `Crash` is the death of the process with all its goroutines.

### Intake

A *setup* is an installation and a script of what people do; the script's acts,
the steps of each delivery's goroutine and the ends of runs interleave. A call of
the forge reads the forge as it is at that step; the calls of a step that fail are
chosen from the setup's `calls`. Comments are sequences of lines, a line a command
and the words after it; commits, branches, paths and labels are names; regular
expressions, globs and CEL are the sets of what they match. The five providers
share `Intake`'s steps and differ in what `GitHubEvents` and the others define,
under the same names: the sender of an event, the commit, whose comments count,
where `.tekton` is read.

### Reporting

Each writer (the goroutine of an event, of a start, the watcher's reconcile of a
run) makes one `CreateStatus` at a time, and each call of the forge in it is a step:
list the check runs, choose one, create, annotate, update; or set the status, list
the comments, edit or write one. The listing of check runs is cached by the
provider object, which the starts of one event share and the watcher does not.
A run is created with the label of its state but without the annotation
(`labels.go:48`); `PatchState`, the last patch of `startPR`, comes after its report and
writes the annotation, and only with it does the watcher see the run
(`controller.go:115`, `:161`). So the two never write about one run at once, and a run
whose report or patch failed is not watched at all. Another controller may start a
pending run (`StartedElsewhere`), the case `reconciler.go:188` speaks of.
`Statuses` maps a status to what each provider shows.

### The services

`Retries` is one request and its attempts, times in half seconds. `TokenRotation`
has goroutines of two processes and tokens as numbers. `Cleanup`'s workers list,
sort and delete one run at a time. `Resolution` resolves the definitions of one event
in order while the contents behind the references change; its caches hold what was
fetched. `Analysis` is one pass after another over the roles. `Settings` has the
informer's goroutine assign field by field, events that copy the settings under the
lock, and the one option a reconciliation reads in place (`GetFailureSnippet`). `HostPolicy` keeps every
version of the ConfigMap, so that a property can ask which policy was in force.

## Runs

| Run | Instance | Shows |
| --- | --- | --- |
| `semaphore` | 4 keys, limits 0 to 3 | permits match what runs; order is kept; `SlotPool` is implemented; the closed forms are the loops |
| `queue_limits` | 2 keys, limits 0 to 2, 2 workers | slots, permits and admissions agree while the limit changes under batches in flight; one worker per admission, one handoff each |
| `queue_batches` | 3 keys, limit 2, 2 workers, at most 2 admissions | claims, candidates and leases agree through partial results, blocking and retries |
| `watcher_failures` | 2 runs, limit 1, a failed call or lost answer, a crash, 1 run the user may stop | `RunQueue` is implemented, the limit holds across reconstruction, a start that may still commit keeps its slot |
| `watcher_repository` | 2 runs, the Repository deleted and made again at any two moments, and 1 run too | no slot is leaked, no delayed start revives or replaces a run |
| `watcher_liveness` | 2 runs, 1 run the user may stop, a restart or a takeover | every queued run starts or is over; the manager is empty in the end |
| `controller` | 9 setups of up to 3 deliveries of 2 definitions, up to 2 failures and a crash | batches are named whole, what one failure may lose, what is left is what the settings say, no run waits for ever |
| `intake` | 640 setups on 5 providers, scripts of up to 3 acts, one failed call | see the properties: who, which commit, which definitions, what not |
| `reporting` | 17 setups on 6 ways to report, 2 runs, 2 events, up to 2 lost calls | reports replace their own, the last word is the run's end |
| `services` | each service on instances of its own | one property per service, a conjunction of the promises named in its module |
| `inherited_limit_exceeded`, `older_event_cancels_newer` | | findings (see below) |

Bounds. Four keys and limits to three are enough to have two keys on each side
of the running/pending line when the limit passes below and above the running
ones; three keys and a limit of two are the least with a batch of two and a key
behind it. Lists are the empty one and all pairs, a repeated key included (with
three keys, not: the states are the same): `addToQueue` ignores a key it has, so
longer lists add nothing but steps. `TwoAdmissions` is a state constraint that bounds
`queue_batches`. Those specifications always have a step, so deadlock
checking is on and finds none. Keys, UIDs and workers are
interchangeable in these specifications, which makes the symmetry sound; none of
the properties checked with it is a liveness property.

The watcher's instances have two runs and a limit of one, the least with a
queue. `MaxFailures` counts calls that fail or lose their answer (the readback
after one may always fail as well), `MaxCrashes` crashes or takeovers,
`MaxChanges` changes of the Repository; `Cancellations`, `Replacements` and
`Removals` say which runs are cancelled, deleted and made again, and whether the
Repository is. Each instance turns on the two or three that its question
needs. The execution order tells the runs apart; only UIDs are interchangeable,
which `watcher_repository` uses. The limit is not claimed when it is lowered or
the Repository is removed, since runs that were started are never stopped: limit
changes are for `queue_limits`. Nor is it claimed for replaced runs, a standby or
an inherited limit (see the findings), nor liveness for replaced runs: a
completion that belongs to the old run may drop the new one from the queue, and
it then waits for the next change of any run of its Repository or for the
informer's resync.

The controller's setups are pairs and triples of events that may replace, close
or cancel each other; two definitions are the least for a batch, two failures
break a step and its clean-up. Intake's scripts have the three acts most
questions need: an outsider acts, somebody approves, somebody pushes or asks
again. Every disjunct of every next-state relation fires in the passing runs.
Deadlock is checked where the system cannot stop; the watcher, the controller, the
handlers and the services do stop when there is nothing left to do.

Fairness. *Watcher* (`FairSpec`): each reconcile that can take a step does, as the
work queue has workers and gives keys with errors back; the API server applies or
drops each patch; Tekton ends each run it may run or that was cancelled;
`InitQueues` goes on. Users, failures, crashes and limit changes owe nothing.
Fairness of a reconcile is written with its enabling condition `Ready(k)` instead of
`WF_vars`, which is the same formula and much cheaper to check. One assumption is
built in: patches of a dead process end before its successor lists the runs
(`RebuildStarted`), as the Deployment restarts a process in seconds. *Controller*:
goroutines go on, the watcher starts what it may, Tekton finishes what is started.
*Reporting*: goroutines, watcher and Tekton go on.

Every property of a passing run has a mutant: an operator named `Mutant...` that
is a plausible bug in the definition after it, with which TLC finds the property
violated.

### Findings

`inherited_limit_exceeded`: admissions take the limit of the Repository merged
with the global one (`queue_pipelineruns.go:60`), `InitQueues` only the
Repository's own (`queue_manager.go:244`). After a restart the started runs of a
Repository that inherits its limit hold no slot.

`older_event_cancels_newer`: a start lists the runs to cancel when its own run has
been created and takes every other one of the definition and branch, whatever its
age (`cancel_pipelineruns.go:186`). Of two events handled at once the older may
cancel the newer, or each the other's, though `running-pipelines.md:160` says that
older runs are cancelled. `OneByOneTheNewestRemains` shows that this needs two
handlers at once.

Other statements of the documentation that the code does not keep are left as
configurations a reader can run (`tlc -config X.cfg M`), each of which ends with a
counterexample:

- `MCWatcherReplacedRun.cfg` (`MCWatcher`): the owner of a candidate leases it by
  name; before it reads the run, the run is deleted, its finalizer hands its slot
  on, and it is created again. No start was attempted, so no UID is compared
  (`queue_pipelineruns.go:147`), and the new run is started without a slot.
- `MCWatcherStandbyForgets.cfg` (`MCWatcher`): `InitQueues` runs in the
  constructor (`controller.go:93`), which every replica executes when it is
  started, while leadership decides only who reconciles. A standby that becomes the
  leader knows nothing of the runs started since. `architecture.md:557` allows
  several replicas; the Deployment has one, for which it does not arise.
- `MCIntakeSkipInBody.cfg` (`MCIntake`): `skip-ci.md:10` and `:42` promise that a
  skip command anywhere in the message stops a push; a GitLab push is judged by
  the commit's title alone (`gitlab/parse_payload.go:129`).
- `MCServicesLiveSetting.cfg` (`MCServices`): "use same pac opts across the
  reconciliation" is written above the copy of the settings (`reconciler.go:183`), but
  `getFailureSnippet` takes the number of lines from the settings themselves, without
  their lock (`status.go:35`). A report shows a log because its copy says so, with as
  many lines as a later, perhaps half assigned, reading of the ConfigMap says
  (`ReportsUseOneReading`).
- `ClosingCancelsEveryRun` in `Controller`, put in place of the invariants of
  `MCController.cfg`: `running-pipelines.md:163` says that a run in progress is
  cancelled when its pull request is closed. A run started by a label has the event
  type `pull_request_labeled` (`github/parse_payload.go:722`), which the selector of
  `cancel_pipelineruns.go:47` does not name, and goes on.

Met while modelling and written into the properties as exceptions: when the answer to
the creation of a run's secret is lost, the start ends and nothing deletes the secret
(`pipelineascode.go:306`), and when the answer to the creation of the run is lost, the
secret is deleted though the run may be there (`:341`; the same deletion takes a secret
that was there before); a run whose owner reference, report of its start or last patch
fails never gets the annotation of its state, so its end is never reported
(`pipelineascode.go:353`, `:417`, `:432`); a clean-up
worker ends at the first run another worker has deleted, so more runs than
`max-keep-runs` may stay (`cleanups.go:48`, `deletion.beaten` in `Cleanup`); the
comment of an analysis lacks the marker by which an update would find it
(`analyzer.go:308`), so a repeated pass comments again; a change of the ConfigMap
before the informer watches is not seen (`config_sync.go:27`, `syncing.unseen`).

## Proofs

`PrioritySemaphore_proofs` proves, for every finite set of keys and every set of
limits in the naturals (`SemaphoreAssumption`):

- `TypeCorrect`: no key is both running and pending, and the order is a strict
  total order of the tracked keys;
- `PermitsAlwaysMatch`: the permits held are `min(|running|, limit)`;
- `OrderAlwaysKept`: no step makes two keys swap places;
- `SlotPoolImplemented`: every step of the semaphore is a step of `SlotPool`, or
  a stutter.

The inductive invariant is `TypeOK /\ PermitsMatchRunning`. Neither part is
enough alone: how many keys a batch may take depends on the prefixes of the heap
being chains, which is the order's totality, and what a release returns is only
right if the permits matched before. The argument is one lemma per operator in
`SemaphoreTheorems` (it keeps the shape, the permits and the order), and a step
per action that cites it. `LastOfPending` and `HeadOfPending` replace induction
on finite sets by well-founded minimality, which the provers can use.

`Services_proofs` proves what the runs check of the services, each for any number of
clients, workers, runs, hosts or fields where the runs have two or three. None of the
properties is inductive; what each invariant adds:

- `RetriesAlwaysSafe` (and its parts `ChangesAreMadeOnce`, `BodiesAreSentWhole`), for
  any positive attempts and longest wait (`RetriesAssumption`): while another attempt
  may come nothing has been carried out, the body can still be had, and the wait is the
  one asked for. The doubling of the waits is a recursive function: the provers have
  no induction over it, but they have well-foundedness, and `SmallestOne` (a set of
  numbers has a least one) takes its place.
- `RotationAlwaysSafe`, for any goroutines of any processes and Repositories that share
  a secret (`RotationInv`): whoever stores a token stores the one in force, which the
  secret does not have yet, and only one does. It shows that neither the locks nor the
  caches are needed for safety: that GitLab refuses a token that was rotated is enough.
- `SettingsAlwaysFollow`, for anything an administrator writes and any dashboard of the
  environment (`SettingsInv`): what is in force is the last valid value of each field
  that has been seen, a copy is of one whole reading of it, and the lines read beside the
  copy are those of some reading (`LinesAreKnown`), which need not be the same.
- `RolesAlwaysAskedApart`, for any roles of different names in a valid configuration
  that has at least one (`AnalysisInv`): each result is of the role in its place, in the
  context of that role, and each comment is of a result. The code validates that there
  is a role (`AnalysisInit` says so); it does not validate that names differ, and with
  two roles of one name the second one's comment takes the first one's place, so the
  theorem is about configurations where they do.
- `HostsAlwaysTrustedByPolicy`, for any hosts, requests and edits (`TrustInv`): a request
  that is about to learn its host has read a policy that says so. Learning writes on
  top of the version it read, or not at all, so no host is lost to another.
- `CleanupAlwaysKeepsTheNewest`, for any runs, limits and times of completion, as long as
  each definition has a run that has yet to end when the workers begin: nobody cleans
  up after runs that ended before (`CleanupInv`). Each run in a worker's list has enough
  newer runs that have completed, which stays so because completion is for ever; and of
  each definition some worker has yet to list, or has listed all but those to keep. The
  sorted list is counted with an injection (`FS_Injection`) since the provers know
  nothing of sorting.
- `ResolvedByOnesOwnReferences`, for any directory and annotations, while any reference
  comes to name anything at any time (`ResolutionInv`): the references of the definition
  at work are taken in order, its own first, so that a name that its own give is known
  before the pipeline's are looked at (`InOrder`); and what a resolved definition got is
  given exactly by what was fetched for its references, which is never fetched again
  (`IsResolved`). The flattening of lists is recursive and again done with `SmallestOne`.

`QueueManager_proofs` proves, for every finite set of keys and owners, any workers,
limits in the naturals and lists of keys (`AdmissionsAssumption`,
`QueueManagerAssumption`):

- `SlotsAlwaysAccounted`: between any two calls permits, running keys and
  candidates agree, and no finished batch is kept;
- `ClaimsAlwaysCandidates`: a claim is a candidate of its owner's admission and the
  other way round, so none outlives its admission;
- `LeasedCandidatesAlwaysRun`: a leased candidate nobody removed holds its slot;
- `AlwaysOneWorker`: an admission is busy exactly while one worker has its lease;
- `SlotsAlwaysGoInOrder`, `AlwaysHandsOffOnce`: the two action properties.

The inductive invariant is `ManagerIInv`: the manager is `Consistent` (claims match
the candidates, every candidate runs or is reserved), nothing finished is kept
(`Swept`) and the leases match the busy admissions (`LeasesMatch`). The four
invariants are parts of it and none is inductive alone: a claim is only given back
with its slot because the lease still names it, and a lease is only right because
nobody else changes a busy admission. Each method is a composition of the steps of
`Admissions`; `AdmissionsTheorems` has a lemma for each step, so that the proof of
a method follows its code.

`Watcher_proofs` proves, whoever deletes what - a Repository that goes and comes,
runs made again, processes that die, standbys -:

- `ManagerStaysConsistent`: the reconciles call the manager as it expects, and
  `SlotsAreAccounted` holds in the watcher as it does under arbitrary callers;
- `WatcherTyped`: the type invariant of the cluster and the reconciles;
- `NeverAnyRevived`: a start, however late it commits, never revives a run that
  was cancelled, deleted, finished or replaced since.

`WatcherInv` joins `ManagerIInv` to `ClusterInv`: a start is outstanding only for a
run whose present version can be started, and what a reconcile read of its own run
is still true in so far as it decides (`Knows`: same identity, and finishing if it
was).

Its second part is about what the watcher is for:

- `OutstandingStartsHaveSlots`: a start that may still commit has its slot;
- `SlotsStayWithRuns`: a slot that no admission is starting a run in is the slot of
  a run that is not over;
- `RunsStayWithinLimit`: the started runs that are not stopping are within the limit;
- `QueueAlwaysFollowsTheRuns`: the last two and the types together;
- `WatcherImplementsRunQueue`: the watcher implements `RunQueue`, the abstract
  specification of what is promised to the users of a limited Repository.

The first two suppose that the configuration is `Undisturbed`: the Repository is not
deleted, names are not used again, and no standby that forgot the runs takes over.
Restarts, lost answers, failures and changes of the limit are allowed. Replaced runs
and forgetful standbys are where the code does give slots away, as
`MCWatcherReplacedRun.cfg` and `MCWatcherStandbyForgets.cfg` show; so the
hypothesis cannot be dropped for them. (A Repository that goes and comes is covered
for `SlotsBelongToRuns` by TLC only.) The last three suppose
`Steady`: besides, a limit that nobody changes, as a limit that is lowered stops no
run, and that a new process finds: `InitQueues` passes over a Repository that has its
limit from the global one, which `MCWatcherInheritedLimit.cfg` shows to break the limit.

`SlotInv` is what makes the first theorem inductive: every attempt to start a run is
known to the admission that claims it, or to the worker that is trying
(`Remembered`), so nobody judges the candidate gone while its start may commit; and a
worker's lease, its candidates and their claims match (`WorkMatches`). `LimitInv`
says that every limit a reconcile carries is the Repository's, and the queue's too.
The limit itself needs more after a restart, when a slot may go to a started run that
is stopping while another has none. `RoomInv` counts what uses the limit up (`Taken`:
the runs that are started, that a start is outstanding for, or that could be started
and have a slot). It is kept because a started run without a slot is `Prior`: it is in
the queue `RebuildStarted` made, before every run that has yet to be started, and no
method of the manager changes that (`KeepsPlaces`); so when one of those gets a slot,
every run that counts has one, and they are within the limit. Otherwise the set only
shrinks. `LooseInv` is about
the slots nobody is starting a run in: once the place of a run was given up
(`GivenUp`: it is over, or its admission, or the worker on its way to the terminal
write, has handed its place on) the run has no such slot, and no batch is about to
leave it one. TLC checked them before they were proved, on instances with two or three
runs, with a restart and failures and with a limit that changes between 0 and 1 (all
completely but `LooseInv`, for three million states).

The refinement maps the record of a run to what its user sees of it (`statusOf`:
waiting, running, stopping, over). Whatever the step, it changes one run and does so in
one of four ways (`Moves`: not at all, it is started, told to stop, or over), which
is a step of `RunQueue` or none; that there was room for a start follows from
`RunsWithinLimit` after the step. The attempt corrected the mapping: it was a `CASE`
whose guards overlapped, of which TLA+ does not say which holds, though TLC takes the
first.

Assumptions about the constants are in the modules that declare them. Two of
`Watcher` deserve a word. `WatcherAssumption` says that the lists of an instance
are closed under filtering. `FilterAssumption` says that filtering
the order of the runs gives a sequence of exactly the runs that pass; it is true of
every sequence that names them all, as an order names its own run, but `SelectSeq` is
defined by recursion, so the provers need it as a fact.
TLC evaluates both on every run of `MCWatcher`.

`Controller_proofs` proves, for any events, definitions, annotations and settings, with
any number of failures and crashes (`ControllerAssumption`: the numbers of a setup are
naturals), each invariant the run checks:

- `ControllerTyped`: the types, and that each delivery arrives once;
- `BatchesAlwaysNamed`: an execution order names its own run and whole batches, and
  without failures every queued run is named by its order;
- `OneFailureNeverLoses`: of one failing call, wherever it hits, neither a secret that
  was known to be made and has no run nor a run the provider never heard of is left; and
  whatever fails, a run the watcher was shown owns its secret, and one whose creation was
  answered has it. The rest is lost with an answer, as described above;
- `ClosingAlwaysCancels`: what a pull request had when its closing arrived is over
  once the closing is handled, if no call failed;
- `NewestAlwaysRemains`: deliveries handled one by one cancel only older runs, and
  leave over the newest of a definition if no call failed.

The inductive invariant is `IInv /\ OrderInv`. `Structure` says how far a goroutine has
come and that whatever it holds names runs that are there; `OrderOK` that an order is
the batch of its event and is only written when every start of it has ended;
`UnfailingOK` that where nothing failed every run joined the batch; `ResourcesOK` what
each step of a start leaves behind, of which `OneFailureLosesNothing` is only the end;
`ClosingOK` that what was there and is not over yet is still on the closing's
list. None of the properties is inductive: each speaks of a finished handler or
start, and its truth is made by the steps before. `OrderInv` relates the goroutines to the
order of arrival: while no two events are handled at once the active one arrived
last (`LastOK`), so whatever a start can list is older (`OlderOK`), and what it should
have cancelled is over or still listed (`NewestOK`). For each action one lemma says what
it changes (`...Step`, mostly types and frame), one that `IInv` is kept (`...Keeps`), and
one that `OrderInv` is (`...Calm` if it only leaves things alone, `...Order`).

`BatchesAlwaysNamed` has a hypothesis, `LimitsAreShared`: a limit on a Repository that a
definition names with `target-namespace` is also one on the Repository of the event.
The code asks the event's Repository whether to keep a batch (`pipelineascode.go:130`)
and the definition's whether to queue the run (`:328`); with a limit on the second alone
the run would be queued and never named. Two Repositories can only be involved if they
have the same URL (`annotation_matcher.go:269`), which the webhook refuses (`webhook/validation.go`),
so the hypothesis holds where the webhook is installed.

`Intake_proofs` proves `OutsidersAlwaysWait`: on each of the five providers, for any
installation, forge, definitions and script, whichever calls fail and however the
goroutines of the hooks and the people take turns, nobody who is not trusted has a
run started for a pull request or a comment before somebody who is has said
/ok-to-test there. `Trusted` says who that is: the OWNERS, and with a policy the teams it
names, else the organization, the members and the collaborators. The property names
what the code lets pass without asking: pushes and incoming webhooks, check suites of
no pull request, on GitHub the branches of the repository itself without a policy, and
a Gitea repository that is named as its owner.

`IntakeInv` is the inductive invariant. A run is `Entitled` by the hook it was started
for, and a delivery that has been let through is `Cleared`: entitled too, or a comment
without a command, which is asked about only when a definition has matched it. What a
delivery holds of its hook is true (`EventOK`: the sender is the one the provider is
asked about, the number and the repository are those of the pull request), which
`ParsePayload` makes so on each provider (`EventsOfHooks`) and neither the look at the
commit (`CommitInfoTellsOfTheCommit`) nor any sequence of definitions changes
(`TheEventMatched`: only the type of the event, and only to that of a comment, which is
then asked about). `AllowedAreEntitled` is the access check of the five providers: whom
it allows is trusted, or has been approved by a comment that counts. What entitles stays
(`WhatIsEntitledStays`): comments are only added, or written over by the bot, whose own
are no commands (`ForgeOK`, `WhatIsWritten`); so what was asked before somebody else
acted is still true when the run is started. The folds over definitions and comments are
functions of sets of positions in the community modules, and again done with
`SmallestOne`. TLC checked `IntakeInv`, and `CommitInv` below, on all setups of the `intake` run.

`RunsAlwaysOfTheirCommit` proves what such a run is of, under the same generality: the
commit an /ok-to-test of GitHub has to name, the commit of the push, check or pull
request, or for a comment one that its pull request has had; and that its definitions
are those of this commit or, with the `default_branch` provenance, of a commit the default
branch was at. `CommitInv`, inductive relative to `IntakeInv`, says it of a delivery while
it is looked at (`DeliveryTells`): once parsed and looked at, its commit is that of
the hook and nothing after that moves it (`CommitOK`), also when the pull request moves
on; where the definitions came from is noted when the directory is listed (`FromOK`), and a
file is only read by the name of a branch where the provenance is not the source
(`byBranch`). `CommitsBy` and `DefaultHeadsBy` are what the forge has shown by then, so
they only grow (`CommitsStay`), and `ForgeTells` ties the forge to them.

`IntakeAssumption` says which scripts are histories of a forge: a pull request comes from
the same repository for good and has its head among its commits, there is a default
branch, a hook tells of pull requests and commits the forge has or had, whoever
acts has a name, and nobody gives commands in the bot's name. The proof attempts
corrected the properties, the setups and the model. `OutsidersWaitForAMember` used to hold
on the instance but not in general: a policy is looked at only on GitHub and Gitea, and
by GitHub not for checks that are asked for again; a prefix for commands other
than "/" counts on GitHub alone; a check suite may be of no pull request, and Gitea
asks for no team of a repository named as its owner. Some setups had check suites that
listed pull requests the forge does not have, and the names of the definitions were kept
as a set though the code reads them in the order they are listed. `RunsAreOfTheirCommit`
asked every provider for the commit of an /ok-to-test, which only GitHub does
(`parse_payload.go:912`), and of the `default_branch` provenance only that the definitions
are not of the pull request, where they are of the default branch.

Only model-checked: of `Intake` what is left out (skipped commits, commands that name
what runs, echoes: `NothingRunsUnasked`; what has succeeded:
`SucceededRunsAreNotRetested`) and the types, which are about the
order of commands in a comment and filters (`SelectSeq`, recursive in its
definition); `Reporting`, whose properties are claimed for the faults of its instances:
with more lost calls or more events at once a writer can take the check a failed start
left over, so there is no theorem for any number of them; the equality of the closed
forms with their loops (`ClosedFormsAreTheLoops`), whose recursion is out of the
prover's reach; and liveness. That the running keys never exceed the limit, as
`concurrency.md:110` reads, is no invariant of the queue: a limit that is lowered leaves
them running (`RunningNeverExceedsLimit` in `MCPrioritySemaphore`).

## Plan

1. A standby whose `InitQueues` ran at any time before, not only before the first
   run; the global Repository, whose changes wake no run (`controller.go:128`).

## Not modelled

The validation of new Repositories by a webhook (a predicate over one object and
a lister that may be behind), metrics and tracing, and the `tkn pac` command line,
an interactive client. Within the parts that are modelled: texts, logs, templates
and the substitution of variables; regular expressions, globs and CEL, which are
sets of what they match; the signatures of payloads and the exchange of App tokens,
which are external calls that work or fail; pagination; the formats of hub
catalogs and of each language model's API; and the inheritance of all settings of the
global Repository other than the limit. The queue's debug endpoint and malformed
keys are left out too.
