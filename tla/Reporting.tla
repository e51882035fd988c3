------------------------------ MODULE Reporting ------------------------------
(***************************************************************************)
(* The statuses of one commit at the forge (pkg/provider, the CreateStatus *)
(* of each provider), and everyone who writes them: for each event the     *)
(* controller writes about the event as a whole and starts its runs, each  *)
(* in a goroutine that reports the start (pkg/pipelineascode), and only    *)
(* then writes the state annotation, without which the watcher does not    *)
(* see the run; for each run that has it the watcher reports that it runs  *)
(* and how it ended (pkg/reconciler).                                      *)
(* Each writer makes one CreateStatus at a time, whose calls of the forge  *)
(* are steps of their own.                                                 *)
(*                                                                         *)
(* A run is started from the definition of the same name, so no two events *)
(* of an instance report about one definition.  A setup is                 *)
(*   provider   "app" (GitHub with check runs), "github" (commit statuses),*)
(*              "gitlab", "gitea", "bbcloud" or "bbdc"                     *)
(*   strategy   the comment strategy of the Repository                     *)
(*   access     whether the GitLab token may set statuses                  *)
(*   bot        whether the sender is a bot of GitHub                       *)
(*   pull       whether the events are of a pull request                   *)
(*   limited    whether runs are created pending, for the queue            *)
(*   events     by handler: [kind, runs, unmatched], the kind being        *)
(*              "denied" (the sender may not start runs), "broken" (no     *)
(*              definition could be had), "start" or "approval" (/ok-to-   *)
(*              test); unmatched definitions are reported as skipped       *)
(*   checks     the check runs the commit has already                      *)
(*   outcome    how runs end: "success", "failure" or "cancelled"          *)
(*   elsewhere  whether another controller may start what is pending       *)
(*   faults     how many calls may fail, or processes stop                 *)
(***************************************************************************)
EXTENDS Statuses

CONSTANTS Setups, Runs, Handlers

VARIABLES setup,
          runs,      \* the PipelineRuns; state is their annotation, "" before it is written
          checks,    \* the check runs of the commit
          statuses,  \* its commit statuses, by context
          comments,  \* what the program's comments about a definition say
          clients,   \* the provider object of each event and of each run's reconcile
          pc,        \* where a writer is
          posts,     \* its CreateStatus
          faults     \* calls failed so far

vars == <<setup, runs, checks, statuses, comments, clients, pc, posts, faults>>

Event(h) == <<"event", h>>
Start(r) == <<"start", r>>
Watch(r) == <<"watch", r>>
Writers == {Event(h) : h \in Handlers} \cup UNION {{Start(r), Watch(r)} : r \in Runs}

App == setup.provider = "app"
HandlerOf(r) == CHOOSE h \in Handlers : r \in setup.events[h].runs
ClientOf(w) == IF w[1] = "start" THEN HandlerOf(w[2]) ELSE w[2]

Absent == [phase |-> "absent", state |-> "", reported |-> FALSE, check |-> 0, unread |-> FALSE]
NewClient == [loaded |-> FALSE, cache |-> <<>>, used |-> 0]
NoPost == [pc |-> "none", o |-> Opts("", "", "", FALSE, NoName, NoDef), check |-> 0,
           annotated |-> FALSE, created |-> FALSE, tries |-> 0]

Init ==
  /\ setup \in Setups
  /\ runs = [r \in Runs |-> Absent]
  /\ checks = setup.checks
  /\ statuses = [d \in Runs \cup {NoDef} |-> ""]
  /\ comments = [d \in Runs \cup {NoDef} |-> <<>>]
  /\ clients = [c \in Handlers \cup Runs |-> NewClient]
  /\ pc = [w \in Writers |-> IF w[1] = "event" THEN "begin" ELSE "idle"]
  /\ posts = [w \in Writers |-> NoPost]
  /\ faults = 0

Fails == faults < setup.faults /\ faults' = faults + 1
Works == UNCHANGED faults
Goes(w, to) == pc' = [pc EXCEPT ![w] = to]

-----------------------------------------------------------------------------
(* CreateStatus                                                            *)

\* What a writer posts; check is the check run its PipelineRun is annotated with.
Post(w, o, check) ==
  posts' = [posts EXCEPT ![w] =
    [pc |-> IF \/ o.denied /\ setup.provider \in {"app", "github"} /\ setup.bot
               \/ App /\ OneFailureIsEnough(o) THEN "ok"
            ELSE IF ~App THEN "status" ELSE IF check = 0 THEN "lookup" ELSE "update",
     o |-> o, check |-> check, annotated |-> check # 0, created |-> FALSE, tries |-> 0]]

At(w, at) == posts[w].pc = at
PostGoes(w, to) == posts' = [posts EXCEPT ![w].pc = to]
Answered(w) == At(w, "ok") \/ At(w, "error")

\* The check run a status is about: one a denied or failed start left, if this
\* provider object used none yet, or the one of the run.
MutantUsableAgain(client, check) == isPendingApprovalCheckrun(check) \/ isFailedCheckrun(check)
Usable(client, check) ==
  client.used = 0 /\ (isPendingApprovalCheckrun(check) \/ isFailedCheckrun(check))
SearchCheckRuns(client, cache, name) ==
  {i \in DOMAIN cache :
     /\ Usable(client, cache[i]) \/ cache[i].ext = name
     /\ \A j \in 1 .. i - 1 : ~Usable(client, cache[j]) /\ cache[j].ext # name}

\* After the check run is known: the PipelineRun is annotated with it, which a
\* run without a name cannot be.
AfterCheck(o, created) ==
  IF o.unmatched \/ o.name = NoName THEN IF created THEN "ok" ELSE "update"
  ELSE IF o.name = Generated(o.def) THEN "error" ELSE "annotate"

Search(w, c, cache) ==
  LET o == posts[w].o
      found == SearchCheckRuns(clients[c], cache, o.name)
  IN IF found = {}
     THEN /\ PostGoes(w, "create")
          /\ clients' = [clients EXCEPT ![c].loaded = TRUE, ![c].cache = cache]
     ELSE \E i \in found :
            /\ posts' = [posts EXCEPT ![w].pc = AfterCheck(o, FALSE), ![w].check = i]
            /\ clients' = [clients EXCEPT ![c].loaded = TRUE, ![c].cache = cache,
                             ![c].used = IF Usable(clients[c], cache[i]) THEN i ELSE @]

\* getExistingCheckRunID: the check runs are listed once per provider object;
\* whoever cannot have them creates one.
Lookup(w) ==
  /\ At(w, "lookup")
  /\ \E c \in {ClientOf(w)} :
       \/ clients[c].loaded /\ Search(w, c, clients[c].cache) /\ Works
       \/ ~clients[c].loaded /\ Search(w, c, checks) /\ Works
       \/ ~clients[c].loaded /\ PostGoes(w, "create") /\ Fails /\ UNCHANGED clients
  /\ UNCHANGED <<setup, runs, checks, statuses, comments, pc>>

\* Whether the PipelineRun of a post was cancelled or stopped.
Stopped(o) == o.status = "completed" /\ o.name \in Runs /\ setup.outcome = "cancelled"

CheckRun(o, ext) ==
  [ext |-> ext, title |-> CheckRunTitle(o), def |-> GetCheckName(o),
   conclusion |-> CheckRunConclusion(o, Stopped(o)),
   status |-> IF CheckRunConclusion(o, Stopped(o)) = "" THEN o.status ELSE "completed"]

createCheckRunStatus(w) ==
  /\ At(w, "create")
  /\ LET o == posts[w].o IN
     \/ /\ checks' = Append(checks, CheckRun(o, o.name))
        /\ posts' = [posts EXCEPT ![w].pc = AfterCheck(o, TRUE), ![w].created = TRUE,
                                  ![w].check = Len(checks) + 1]
        /\ Works
     \/ Fails /\ PostGoes(w, "error") /\ UNCHANGED checks
  /\ UNCHANGED <<setup, runs, statuses, comments, clients, pc>>

Annotate(w) ==
  /\ At(w, "annotate")
  /\ \/ /\ runs' = [runs EXCEPT ![posts[w].o.name].check = posts[w].check]
        /\ PostGoes(w, IF posts[w].created THEN "ok" ELSE "update")
        /\ Works
     \/ Fails /\ PostGoes(w, "error") /\ UNCHANGED runs
  /\ UNCHANGED <<setup, checks, statuses, comments, clients, pc>>

\* A check run known from the annotation may not be visible yet: that is retried.
updateCheckRun(w) ==
  /\ At(w, "update")
  /\ LET o == posts[w].o
         i == posts[w].check IN
     \/ /\ checks' = [checks EXCEPT ![i] = CheckRun(o, IF o.name = NoName THEN @.ext ELSE o.name)]
        /\ PostGoes(w, "ok")
        /\ Works
     \/ Fails /\ PostGoes(w, "error") /\ UNCHANGED checks
     \/ posts[w].annotated /\ Fails /\ UNCHANGED <<checks, posts>>
  /\ UNCHANGED <<setup, runs, statuses, comments, clients, pc>>

\* Once the status is set, or could not be: a comment on the pull request.
ThenComment(o) ==
  IF ~setup.pull \/ ~Comments(setup.provider, setup.strategy, o) THEN "ok"
  ELSE IF setup.strategy = "update" /\ setup.provider \in {"github", "gitlab", "gitea"}
       THEN "list" ELSE "comment"

CannotTransition(o) == statuses[GetCheckName(o)] = "running" /\ GitLabState(o) = "running"

CreateCommitStatus(w) ==
  /\ At(w, "status")
  /\ LET o == posts[w].o
         gitlab == setup.provider = "gitlab" IN
     \/ /\ gitlab => setup.access /\ ~CannotTransition(o)
        /\ statuses' = [statuses EXCEPT ![GetCheckName(o)] = CommitState(setup.provider, o)]
        /\ PostGoes(w, IF gitlab THEN "ok" ELSE ThenComment(o))
        /\ Works
     \* the source project refuses, then the target project
     \/ gitlab /\ ~setup.access /\ PostGoes(w, ThenComment(o)) /\ Works /\ UNCHANGED statuses
     \/ gitlab /\ setup.access /\ CannotTransition(o) /\ PostGoes(w, "ok") /\ Works /\ UNCHANGED statuses
     \* the source project fails, and the target project is asked; then it fails too
     \/ /\ gitlab /\ setup.access /\ Fails /\ UNCHANGED statuses
        /\ posts' = [posts EXCEPT ![w].pc = IF posts[w].tries = 0 THEN "status" ELSE ThenComment(o),
                                  ![w].tries = @ + 1]
     \* "user does not exist" is asked again, three times in all
     \/ /\ setup.provider = "gitea" /\ Fails /\ UNCHANGED statuses
        /\ posts' = [posts EXCEPT ![w].pc = IF posts[w].tries = 2 THEN "error" ELSE "status",
                                  ![w].tries = @ + 1]
     \/ setup.provider = "bbcloud" /\ Fails /\ PostGoes(w, ThenComment(o)) /\ UNCHANGED statuses
     \/ setup.provider \in {"github", "gitea", "bbdc"} /\ Fails /\ PostGoes(w, "error") /\ UNCHANGED statuses
  /\ UNCHANGED <<setup, runs, checks, comments, clients, pc>>

Said(o) == <<o.status, o.conclusion>>

\* CreateComment with a marker: the comments are listed, the first one carrying
\* the marker is edited, and without one a comment is created.
ListComments(w) ==
  /\ At(w, "list")
  /\ \/ PostGoes(w, IF comments[posts[w].o.def] = <<>> THEN "comment" ELSE "edit") /\ Works
     \/ Fails /\ PostGoes(w, "error")
  /\ UNCHANGED <<setup, runs, checks, statuses, comments, clients, pc>>

EditComment(w) ==
  /\ At(w, "edit")
  /\ \/ /\ comments' = [comments EXCEPT ![posts[w].o.def][1] = Said(posts[w].o)]
        /\ PostGoes(w, "ok") /\ Works
     \/ Fails /\ PostGoes(w, "error") /\ UNCHANGED comments
  /\ UNCHANGED <<setup, runs, checks, statuses, clients, pc>>

\* The answer to a creation may be lost.
PostComment(w) ==
  /\ At(w, "comment")
  /\ \/ /\ comments' = [comments EXCEPT ![posts[w].o.def] = Append(@, Said(posts[w].o))]
        /\ \/ PostGoes(w, "ok") /\ Works
           \/ PostGoes(w, "error") /\ Fails
     \/ Fails /\ PostGoes(w, "error") /\ UNCHANGED comments
  /\ UNCHANGED <<setup, runs, checks, statuses, clients, pc>>

CreateStatus(w) ==
  \/ Lookup(w) \/ createCheckRunStatus(w) \/ Annotate(w) \/ updateCheckRun(w)
  \/ CreateCommitStatus(w) \/ ListComments(w) \/ EditComment(w) \/ PostComment(w)

-----------------------------------------------------------------------------
(* The controller                                                          *)

StartsOf(h) == {Start(r) : r \in setup.events[h].runs}
Kind(h) == setup.events[h].kind
Over(w) == pc[w] \in {"started", "failed", "unpatched", "stopped"}

Pending == [Opts("queued", "pending", Approval, TRUE, NoName, NoDef) EXCEPT !.denied = TRUE]
Broken == Opts("completed", "failure", NoTitle, TRUE, NoName, NoDef)
Approved == Opts("completed", "success", "Approved", FALSE, NoName, NoDef)
Skipped(d) == [Opts("completed", "skipped", NoTitle, TRUE, d, d) EXCEPT !.unmatched = TRUE]

\* What is said of the event as a whole before its runs are started.
BeginEvent(h) ==
  LET w == Event(h) IN
  /\ pc[w] = "begin"
  /\ CASE Kind(h) = "denied" -> Post(w, Pending, 0) /\ Goes(w, "ends")
       [] Kind(h) = "broken" -> Post(w, Broken, 0) /\ Goes(w, "ends")
       [] Kind(h) = "approval" /\ ~App -> Post(w, Approved, 0) /\ Goes(w, "approving")
       [] OTHER -> Goes(w, "starting") /\ UNCHANGED posts
  /\ UNCHANGED <<setup, runs, checks, statuses, comments, clients, faults>>

StartEvent(h) ==
  LET w == Event(h) IN
  /\ pc[w] = "approving" /\ Answered(w)
  /\ Goes(w, "starting")
  /\ UNCHANGED <<setup, runs, checks, statuses, comments, clients, posts, faults>>

\* Once all runs are started: reportStatusCheckFromRepoSettings.
EndEvent(h) ==
  LET w == Event(h) IN
  /\ \/ /\ pc[w] = "starting" /\ \A s \in StartsOf(h) : Over(s)
        /\ IF setup.events[h].unmatched = NoDef THEN Goes(w, "ended") /\ UNCHANGED posts
           ELSE Post(w, Skipped(setup.events[h].unmatched), 0) /\ Goes(w, "ends")
     \/ pc[w] = "ends" /\ Answered(w) /\ Goes(w, "ended") /\ UNCHANGED posts
  /\ UNCHANGED <<setup, runs, checks, statuses, comments, clients, faults>>

Started(r) ==
  Opts(IF runs'[r].phase = "pending" THEN "queued" ELSE "in_progress", "pending", NoTitle, TRUE, r, r)
\* The run of the failure status is the definition, not what was created from it.
Sorry(r) == Opts("completed", "failure", StartError, TRUE, Generated(r), r)

\* startPR up to its CreateStatus: the run has the state label, which nobody watches, and
\* not yet the annotation; the creation's answer may be lost, the secret may fail after it.
CreatePipelineRun(r) ==
  LET w == Start(r) IN
  /\ pc[Event(HandlerOf(r))] = "starting" /\ pc[w] = "idle"
  /\ \/ /\ runs' = [runs EXCEPT ![r] = [Absent EXCEPT !.phase = IF setup.limited THEN "pending" ELSE "created"]]
        /\ \/ Post(w, Started(r), 0) /\ Goes(w, "saying") /\ Works
           \/ Post(w, Sorry(r), 0) /\ Goes(w, "sorry") /\ Fails
     \/ Post(w, Sorry(r), 0) /\ Goes(w, "sorry") /\ Fails /\ UNCHANGED runs
  /\ UNCHANGED <<setup, checks, statuses, comments, clients>>

SayFailed(r) ==
  LET w == Start(r) IN
  /\ pc[w] = "saying" /\ At(w, "error")
  /\ Post(w, Sorry(r), 0) /\ Goes(w, "sorry")
  /\ UNCHANGED <<setup, runs, checks, statuses, comments, clients, faults>>

MutantStateOf(queued) == IF queued THEN "queued" ELSE "running"
StateOf(queued) == IF queued THEN "queued" ELSE "started"

\* The last patch of startPR, which shows the run to the watcher; its failure is only
\* logged, and it may have been done.
PatchState(r) ==
  LET w == Start(r)
      queued == posts[w].o.status = "queued" IN
  /\ pc[w] = "saying" /\ At(w, "ok")
  /\ \/ /\ runs' = [runs EXCEPT ![r].state = StateOf(queued),
                                ![r].reported = @ \/ ~queued]
        /\ \/ Goes(w, "started") /\ Works
           \/ Goes(w, "unpatched") /\ Fails
     \/ Goes(w, "unpatched") /\ Fails /\ UNCHANGED runs
  /\ UNCHANGED <<setup, checks, statuses, comments, clients, posts>>

StartFails(r) ==
  LET w == Start(r) IN
  /\ pc[w] = "sorry" /\ Answered(w) /\ Goes(w, "failed")
  /\ UNCHANGED <<setup, runs, checks, statuses, comments, clients, posts, faults>>

\* The controller stops.
ControllerStops ==
  /\ \E w \in Writers : w[1] # "watch" /\ pc[w] \notin {"idle", "begin"}
  /\ Fails
  /\ pc' = [w \in Writers |-> IF w[1] = "watch" THEN pc[w] ELSE "stopped"]
  /\ posts' = [w \in Writers |-> IF w[1] = "watch" THEN posts[w] ELSE [posts[w] EXCEPT !.pc = "none"]]
  /\ UNCHANGED <<setup, runs, checks, statuses, comments, clients>>

-----------------------------------------------------------------------------
(* The watcher                                                             *)

Terminal(r) == runs[r].state \in {"completed", "failed"}

\* Only runs with the state annotation are reconciled (checkStateAndEnqueue and the
\* PromoteFilterFunc), the completed and failed ones to no effect.
Watching(r) == pc[Watch(r)] = "idle" /\ runs[r].state # "" /\ ~Terminal(r)
Unreported(r) == runs[r].phase = "running" /\ ~runs[r].reported
HasCheckRun(r) == App => runs[r].check # 0

\* A reconcile has a provider object of its own.
Reports(r, o, to) ==
  /\ Post(Watch(r), o, runs[r].check)
  /\ Goes(Watch(r), to)
  /\ clients' = [clients EXCEPT ![r] = NewClient]

\* updatePipelineRunToInProgress, of a run that runs though nobody said so (another
\* controller started it) or the queue admits; the forge's client may not be had.
ReportInProgress(r) ==
  /\ Watching(r)
  /\ \/ Unreported(r)
     \/ runs[r].phase = "pending" /\ runs[r].state = "queued" /\ HasCheckRun(r)
  /\ runs' = [runs EXCEPT ![r].state = "started", ![r].reported = TRUE,
                          ![r].phase = IF @ = "pending" THEN "created" ELSE @]
  /\ \/ Reports(r, Opts("in_progress", "pending", NoTitle, TRUE, r, r), "running 1") /\ Works
     \/ Fails /\ UNCHANGED <<clients, pc, posts>>
  /\ UNCHANGED <<setup, checks, statuses, comments>>

Final(r) == Opts("completed", setup.outcome, NoTitle, TRUE, r, r)

\* postFinalStatus reads the run once more; when it cannot, the run has failed unreported.
ReportFinalStatus(r) ==
  /\ Watching(r) /\ HasCheckRun(r) /\ runs[r].phase = "ended"
  /\ \/ Reports(r, Final(r), "final 1") /\ Works /\ UNCHANGED runs
     \/ /\ runs' = [runs EXCEPT ![r].unread = TRUE]
        /\ Goes(Watch(r), "unread") /\ Fails /\ UNCHANGED <<clients, posts>>
  /\ UNCHANGED <<setup, checks, statuses, comments>>

Attempting(r, what) == pc[Watch(r)] \in {what \o " 1", what \o " 2", what \o " 3"}
\* The attempts of backoffSchedule.
NextAttempt(p) == CASE p = "running 1" -> "running 2" [] p = "running 2" -> "running 3"
                    [] p = "final 1" -> "final 2" [] p = "final 2" -> "final 3"
LastAttempt(r) == pc[Watch(r)] \in {"running 3", "final 3"}

\* createStatusWithRetry: with the same PipelineRun as read, and the same client.
Retry(r) ==
  LET w == Watch(r) IN
  /\ Attempting(r, "running") \/ Attempting(r, "final")
  /\ At(w, "error") /\ ~LastAttempt(r)
  /\ Post(w, posts[w].o, IF posts[w].annotated THEN posts[w].check ELSE 0)
  /\ Goes(w, NextAttempt(pc[w]))
  /\ UNCHANGED <<setup, runs, checks, statuses, comments, clients, faults>>

\* What is said of a running run is said again when it ended.
RunningSaid(r) ==
  /\ Attempting(r, "running")
  /\ At(Watch(r), "ok") \/ (At(Watch(r), "error") /\ LastAttempt(r))
  /\ Goes(Watch(r), "idle")
  /\ UNCHANGED <<setup, runs, checks, statuses, comments, clients, posts, faults>>

\* The end of reportFinalStatus.
FinalSaid(r) ==
  LET said == Attempting(r, "final") /\ At(Watch(r), "ok") IN
  /\ \/ said
     \/ Attempting(r, "final") /\ At(Watch(r), "error") /\ LastAttempt(r)
     \/ pc[Watch(r)] = "unread"
  /\ \/ /\ runs' = [runs EXCEPT ![r].state = IF said THEN "completed" ELSE "failed"]
        /\ Works \/ Fails
     \/ Fails /\ UNCHANGED runs
  /\ Goes(Watch(r), "idle")
  /\ UNCHANGED <<setup, checks, statuses, comments, clients, posts>>

\* The watcher restarts: its reconciles are over.
WatcherRestarts ==
  /\ \E r \in Runs : pc[Watch(r)] # "idle"
  /\ Fails
  /\ pc' = [w \in Writers |-> IF w[1] = "watch" THEN "idle" ELSE pc[w]]
  /\ posts' = [w \in Writers |-> IF w[1] = "watch" THEN NoPost ELSE posts[w]]
  /\ UNCHANGED <<setup, runs, checks, statuses, comments, clients>>

-----------------------------------------------------------------------------
\* Tekton.
RunStarts(r) ==
  /\ runs[r].phase = "created"
  /\ runs' = [runs EXCEPT ![r].phase = "running"]
  /\ UNCHANGED <<setup, checks, statuses, comments, clients, pc, posts, faults>>

RunEnds(r) ==
  /\ runs[r].phase \in {"created", "running"}
  /\ runs' = [runs EXCEPT ![r].phase = "ended"]
  /\ UNCHANGED <<setup, checks, statuses, comments, clients, pc, posts, faults>>

\* Another controller starts a pending run, which the queue has not admitted.
StartedElsewhere(r) ==
  /\ setup.elsewhere /\ runs[r].phase = "pending"
  /\ runs' = [runs EXCEPT ![r].phase = "created"]
  /\ UNCHANGED <<setup, checks, statuses, comments, clients, pc, posts, faults>>

Steps ==
  \/ \E w \in Writers : CreateStatus(w)
  \/ \E h \in Handlers : BeginEvent(h) \/ StartEvent(h) \/ EndEvent(h)
  \/ \E r \in UNION {setup.events[h].runs : h \in Handlers} :
        \/ CreatePipelineRun(r) \/ SayFailed(r) \/ PatchState(r) \/ StartFails(r)
        \/ ReportInProgress(r) \/ ReportFinalStatus(r) \/ Retry(r) \/ RunningSaid(r) \/ FinalSaid(r)
        \/ RunStarts(r) \/ RunEnds(r)

Next == Steps \/ ControllerStops \/ WatcherRestarts \/ \E r \in Runs : StartedElsewhere(r)

Spec == Init /\ [][Next]_vars
\* The goroutines, the watcher and Tekton go on; only Tekton may choose how long a run lasts.
FairSpec == Spec /\ WF_vars(Steps)

-----------------------------------------------------------------------------
(* Properties                                                              *)

EventRuns == UNION {setup.events[h].runs : h \in Handlers}

PostPCs == {"none", "lookup", "create", "annotate", "update", "status", "list", "edit", "comment",
            "ok", "error"}
TypeOK ==
  /\ \A r \in Runs :
       /\ runs[r].phase \in {"absent", "pending", "created", "running", "ended"}
       /\ runs[r].state \in {"", "started", "queued", "completed", "failed"}
       /\ runs[r].check \in 0 .. Len(checks)
  /\ \A w \in Writers : posts[w].pc \in PostPCs /\ posts[w].check \in 0 .. Len(checks)
  /\ faults \in 0 .. setup.faults

\* The goroutines that start the runs of one event share a provider object and
\* what it listed: two of them never report into the same check run, though each
\* may take the one a denied or failed start left (canIUseCheckrunID).
CheckRunsOfAnEventAreDistinct ==
  \A r, q \in EventRuns :
    r # q /\ HandlerOf(r) = HandlerOf(q) /\ posts[Start(r)].check # 0
      => posts[Start(r)].check # posts[Start(q)].check

\* What the forge shows of an ended run: its check run, its commit status, or,
\* where no status can be set, a comment.
Result(r) ==
  IF App THEN CheckRunConclusion(Final(r), Stopped(Final(r))) ELSE CommitState(setup.provider, Final(r))
Told(r) ==
  IF App THEN runs[r].check # 0 /\ checks[runs[r].check].conclusion = Result(r)
  ELSE \/ statuses[r] = Result(r)
       \/ \E i \in DOMAIN comments[r] : comments[r][i] = Said(Final(r))


\* Once an approved event has started all its runs, the check run that asked for
\* the approval asks no more: one of the runs reports into it.
ApprovalIsAskedNoMore ==
  \A h \in Handlers :
    /\ App /\ Kind(h) = "approval" /\ pc[Event(h)] = "ended"
    /\ \A r \in setup.events[h].runs : pc[Start(r)] = "started"
    /\ \A g \in Handlers : Kind(g) # "denied"
    => \A i \in DOMAIN checks : ~isPendingApprovalCheckrun(checks[i])

\* The strategy "update" keeps a single comment for each definition that one event at a
\* time reports about, whatever is lost: the start is over before the watcher sees the run.
UpdatesASingleComment ==
  setup.strategy = "update" => \A d \in EventRuns : Len(comments[d]) <= 1


\* A later report takes the place of the earlier one it follows, and of no
\* other: the check run of its own run, the one that asked for the approval,
\* the comment of its definition.
ReportsAreReplaced ==
  CheckRunsOfAnEventAreDistinct /\ ApprovalIsAskedNoMore /\ UpdatesASingleComment
=============================================================================
