------------------------------- MODULE Intake -------------------------------
(***************************************************************************)
(* From a hook of the forge to the PipelineRuns it starts (pkg/adapter,    *)
(* pkg/pipelineascode: match.go and the matching half of Run). A hook is   *)
(* answered once its kind is known and handled by a goroutine of its own,  *)
(* which asks the forge several times; meanwhile people act, other hooks   *)
(* are handled and runs end. What starting and cancelling do is in         *)
(* Controller.                                                             *)
(*                                                                         *)
(* A setup is an installation and what happens to it:                      *)
(*   provider   the kind of forge                                          *)
(*   settings   options and people, see the modules of the providers; also *)
(*              known (a Repository has the URL), provenance, namespaces,  *)
(*              rules and repositories (for incoming webhooks)             *)
(*   forge      what the forge has at first, see GitEvents; also trees,    *)
(*              the .tekton directory of each commit, and files            *)
(*   script     what people do, in order: each act changes the forge and   *)
(*              sends a hook                                               *)
(*   ends       how runs may end: "succeeded", "failed"                    *)
(*   calls      the calls that may fail; failures bounds how often         *)
(* A tree is [definitions, valid, errors]: the names of those that can be  *)
(* read, whether all of it is YAML, whether some of it is no definition.   *)
(***************************************************************************)
EXTENDS Matching, Access

CONSTANTS Setups,
          Definitions  \* the definitions by name, see Matching

Bot == "bot"

\* A pull request is of one branch for good and has its head, there is a default
\* branch, who acts has a name, a hook tells of what the forge has or had (a
\* comment with the number 0 is on an issue, of GitHub or Gitea), and nobody but
\* the code writes for the bot, which gives no commands.
PullsOf(s) == {s.forge.pulls} \cup {s.script[k].pulls : k \in DOMAIN s.script}
CommentsOf(s) == {s.forge.comments} \cup {s.script[k].comments : k \in DOMAIN s.script}
NumbersBy(s, acted) ==
  DOMAIN s.forge.pulls \cup UNION {DOMAIN s.script[k].pulls : k \in 1..acted}

\* The commits a pull request has had, and those the default branch was at, by then.
PullsAt(s, k) == IF k = 0 THEN s.forge.pulls ELSE s.script[k].pulls
BranchesAt(s, k) == IF k = 0 THEN s.forge.branches ELSE s.script[k].branches
CommitsBy(s, acted, n) ==
  UNION {PullsAt(s, k)[n].commits : k \in {j \in 0..acted : n \in DOMAIN PullsAt(s, j)}}
DefaultHeadsBy(s, acted) ==
  {BranchesAt(s, k)[DefaultBranch] : k \in {j \in 0..acted : DefaultBranch \in DOMAIN BranchesAt(s, j)}}

ASSUME IntakeAssumption ==
  \A s \in Setups :
    /\ s.provider \in {"github", "gitlab", "gitea", "bitbucket-cloud", "bitbucket-datacenter"}
    /\ {"pulls", "branches", "comments", "statuses", "trees"} \subseteq DOMAIN s.forge
    /\ \A sha \in DOMAIN s.forge.trees :
         s.forge.trees[sha].definitions \in Seq(Range(s.forge.trees[sha].definitions))
    /\ DefaultBranch \in DOMAIN s.forge.branches
    /\ s.script \in Seq(Range(s.script))
    /\ \A p, q \in PullsOf(s) : \A n \in DOMAIN p \cap DOMAIN q : p[n].sameRepo = q[n].sameRepo
    /\ \A p \in PullsOf(s) : \A n \in DOMAIN p :
         n \in Nat \ {0} /\ p[n].head \in p[n].commits /\ "" \notin p[n].commits
    /\ \A c \in CommentsOf(s) :
         /\ c \in Seq(Range(c))
         /\ \A i \in DOMAIN c : c[i].by = Bot =>
              \A prefix \in {"/", s.settings.prefix} : ~IsOkToTestComment(c[i].text, prefix)
    /\ \A k \in DOMAIN s.script :
         LET act == s.script[k]
         IN  /\ act.hook.by # ""
             /\ act.hook.kind = "pull_request" =>
                  /\ act.hook.number \in DOMAIN act.pulls
                  /\ act.pulls[act.hook.number].sameRepo = act.hook.pull.sameRepo
                  /\ act.hook.pull.head \in act.pulls[act.hook.number].commits
             /\ (/\ act.hook.kind = "comment"
                 /\ act.hook.number # 0 \/ s.provider \notin {"github", "gitea"}) =>
                  act.hook.pull.head \in CommitsBy(s, k, act.hook.number)
             /\ act.hook.kind \in {"push", "commit_comment", "check_suite", "check_run"} =>
                  act.hook.sha # ""
             /\ act.hook.kind \in {"check_suite", "check_run"} =>
                  act.hook.pulls \cup act.hook.runPulls \subseteq NumbersBy(s, k)

VARIABLES setup, forge,
          acts,        \* how much of the script has happened
          deliveries,  \* the hooks sent and the goroutines that handle them, see Delivery
          runs,        \* the PipelineRuns started, by delivery and definition
          failures

vars == <<setup, forge, acts, deliveries, runs, failures>>

GitHub == INSTANCE GitHubEvents
GitLab == INSTANCE GitLabEvents
Gitea == INSTANCE GiteaEvents
BitbucketCloud == INSTANCE BitbucketCloudEvents
BitbucketDataCenter == INSTANCE BitbucketDataCenterEvents

Delivery(hook) ==
  [hook |-> hook, pc |-> "sent", event |-> NewEvent,
   from |-> "", byBranch |-> FALSE,       \* where the .tekton directory is
   names |-> <<>>, definitions |-> <<>>,  \* what was listed and read there
   files |-> {},                          \* the changed files
   known |-> {},                          \* whether they are
   told |-> "",                           \* the last status of the event as a whole
   comments |-> 0,                        \* comments written
   failed |-> {}]                         \* calls that failed

\* The setup, and all the forge answers from: the commits never change.
Forge == [setup.forge EXCEPT !.pulls = forge.pulls, !.branches = forge.branches,
                         !.comments = forge.comments, !.statuses = forge.statuses]
Settings == setup.settings
Is(provider) == setup.provider = provider

Init ==
  /\ setup \in Setups
  /\ forge = [f \in {"pulls", "branches", "comments", "statuses"} |-> setup.forge[f]]
  /\ acts = 0
  /\ deliveries = <<>>
  /\ runs = {}
  /\ failures = 0

----------------------------------------------------------------------------
(* The provider of the installation                                        *)

Detect(hook) ==
  CASE Is("github") -> GitHub!Detect(hook, Settings)
    [] Is("gitlab") -> GitLab!Detect(hook, Settings)
    [] Is("gitea") -> Gitea!Detect(hook, Settings)
    [] Is("bitbucket-cloud") -> BitbucketCloud!Detect(hook, Settings)
    [] Is("bitbucket-datacenter") -> BitbucketDataCenter!Detect(hook, Settings)

ParsePayload(hook, broken) ==
  CASE Is("github") -> GitHub!ParsePayload(hook, Forge, Settings, broken)
    [] Is("gitlab") -> GitLab!ParsePayload(hook, Forge, Settings, broken)
    [] Is("gitea") -> Gitea!ParsePayload(hook, Forge, Settings, broken)
    [] Is("bitbucket-cloud") -> BitbucketCloud!ParsePayload(hook, Forge, Settings, broken)
    [] Is("bitbucket-datacenter") ->
         BitbucketDataCenter!ParsePayload(hook, Forge, Settings, broken)

GetCommitInfo(event) ==
  CASE Is("github") -> GitHub!GetCommitInfo(event, Forge)
    [] Is("gitlab") -> GitLab!GetCommitInfo(event, Forge)
    [] Is("gitea") -> Gitea!GetCommitInfo(event, Forge)
    [] Is("bitbucket-cloud") -> BitbucketCloud!GetCommitInfo(event, Forge)
    [] Is("bitbucket-datacenter") -> BitbucketDataCenter!GetCommitInfo(event, Forge)

IsAllowed(event, hook, broken) ==
  CASE Is("github") -> GitHub!IsAllowed(event, hook, Forge, Settings, broken)
    [] Is("gitlab") -> GitLab!IsAllowed(event, hook, Forge, Settings, broken)
    [] Is("gitea") -> Gitea!IsAllowed(event, hook, Forge, Settings, broken)
    [] Is("bitbucket-cloud") -> BitbucketCloud!IsAllowed(event, hook, Forge, Settings, broken)
    [] Is("bitbucket-datacenter") ->
         BitbucketDataCenter!IsAllowed(event, hook, Forge, Settings, broken)

GetTektonDir(event) ==
  CASE Is("github") -> GitHub!GetTektonDir(event, Forge, Settings.provenance)
    [] Is("gitlab") -> GitLab!GetTektonDir(event, Forge, Settings.provenance)
    [] Is("gitea") -> Gitea!GetTektonDir(event, Forge, Settings.provenance)
    [] Is("bitbucket-cloud") -> BitbucketCloud!GetTektonDir(event, Forge, Settings.provenance)
    [] Is("bitbucket-datacenter") ->
         BitbucketDataCenter!GetTektonDir(event, Forge, Settings.provenance)

GetFiles(event) ==
  CASE Is("github") -> GitHub!GetFiles(event, Forge)
    [] Is("gitlab") -> GitLab!GetFiles(event, Forge)
    [] Is("gitea") -> Gitea!GetFiles(event, Forge)
    [] Is("bitbucket-cloud") -> BitbucketCloud!GetFiles(event, Forge)
    [] Is("bitbucket-datacenter") -> BitbucketDataCenter!GetFiles(event, Forge)

GetCommitStatuses(event) ==
  CASE Is("github") -> GitHub!GetCommitStatuses(event, Forge)
    [] Is("gitlab") -> GitLab!GetCommitStatuses(event, Forge)
    [] Is("gitea") -> Gitea!GetCommitStatuses(event, Forge)
    [] Is("bitbucket-cloud") -> BitbucketCloud!GetCommitStatuses(event, Forge)
    [] Is("bitbucket-datacenter") -> BitbucketDataCenter!GetCommitStatuses(event, Forge)

----------------------------------------------------------------------------
(* People, and runs                                                        *)

\* What is new, and of the rest what was there.
Updated(old, new) ==
  [x \in DOMAIN old \cup DOMAIN new |-> IF x \in DOMAIN new THEN new[x] ELSE old[x]]

\* The next act of the script.
Act ==
  LET act == setup.script[acts + 1]
  IN  /\ acts < Len(setup.script)
      /\ acts' = acts + 1
      /\ forge' = [forge EXCEPT !.pulls = Updated(@, act.pulls),
                                !.branches = Updated(@, act.branches),
                                !.comments = @ \o act.comments]
      /\ deliveries' = Append(deliveries, Delivery(act.hook))
      /\ UNCHANGED <<setup, runs, failures>>

\* A run ends, and that is reported on its commit.
RunEnds(r) ==
  \E end \in setup.ends :
    /\ r.status = "running"
    /\ runs' = (runs \ {r}) \cup {[r EXCEPT !.status = end]}
    /\ forge' = IF end = "succeeded"
                  THEN [forge EXCEPT !.statuses[r.sha] = @ \cup {r.name}] ELSE forge
    /\ UNCHANGED <<setup, acts, deliveries, failures>>

\* A run that has ended is removed from the cluster.
Prune(r) ==
  /\ r.status \in {"succeeded", "failed"} /\ setup.prunes
  /\ runs' = (runs \ {r}) \cup {[r EXCEPT !.status = "pruned"]}
  /\ UNCHANGED <<setup, forge, acts, deliveries, failures>>

----------------------------------------------------------------------------
(* The steps of a goroutine. One call may fail in a step.                  *)

Broken == {{}} \cup {{call} : call \in setup.calls}

Fails(broken) ==
  /\ broken # {} => failures < setup.failures
  /\ failures' = failures + Cardinality(broken)

Calls(i, d, broken) ==
  /\ Fails(broken)
  /\ deliveries' = [deliveries EXCEPT ![i] = [d EXCEPT !.failed = @ \cup broken]]

End(d) == [d EXCEPT !.pc = "done", !.names = <<>>, !.definitions = <<>>, !.files = {}]
Tell(d, status, broken) == IF "status" \in broken THEN d ELSE [d EXCEPT !.told = status]

\* An error: the commit is said to have failed, unless the pull request is closed.
Error(d, broken) ==
  End(IF d.event.trigger = "pull_request_closed" THEN d ELSE Tell(d, "failure", broken))

\* A comment on the pull request, with a marker in place of the one before,
\* and the hook that comes of it. Bitbucket gets no comments.
CreateComment(written, number, text, marker) ==
  LET mine(c) == c.by = Bot /\ c.on = number /\ Head(c.text).says = marker
      i       == IF marker = "" THEN 0 ELSE SelectInSeq(written.comments, mine)
      comment == [by |-> Bot, on |-> number, text |-> text]
      hook(action) == Delivery([kind |-> "comment", action |-> action, by |-> Bot, number |-> number,
                                pull |-> forge.pulls[number], comment |-> text])
  IN  IF number = 0 \/ Is("bitbucket-cloud") \/ Is("bitbucket-datacenter") THEN written
      ELSE IF i = 0
        THEN [comments |-> Append(written.comments, comment),
              hooks |-> Append(written.hooks, hook("created")), new |-> written.new + 1]
      ELSE IF written.comments[i] = comment THEN written
      ELSE [written EXCEPT !.comments[i] = comment, !.hooks = Append(@, hook("edited"))]

\* The step ends with d, having written comments: <<text, marker>> each.
Commented(i, d, texts, broken) ==
  LET before  == [comments |-> forge.comments, hooks |-> <<>>, new |-> 0]
      written == IF "note" \in broken THEN before
                 ELSE FoldLeft(LAMBDA w, t : CreateComment(w, d.event.number, t[1], t[2]),
                               before, texts)
      after   == [d EXCEPT !.comments = @ + written.new, !.failed = @ \cup broken]
  IN  /\ forge' = [forge EXCEPT !.comments = written.comments]
      /\ deliveries' = [deliveries EXCEPT ![i] = after] \o written.hooks
      /\ Fails(broken)

MutantNotQuoted(says, words) == Line(says, words)
Quoted(says, words) == [Line(says, words) EXCEPT !.quoted = TRUE]
SHAIsNeeded == <<Quoted("ok-to-test", <<>>)>>
NothingToRetest == <<Quoted("retest", <<<<"name", "pipeline">>>>), Quoted("test", <<>>)>>
\* What is wrong with the definitions of a commit.
ValidationErrors(sha) == <<Line("errors", <<<<"sha", sha>>>>)>>

\* An incoming webhook: its repository, its rule for the branch, the rule's secret.
detectIncoming(hook, broken) ==
  LET rule == IncomingWebhookRule(hook.branch, Settings.rules)
  IN  /\ "secret" \notin broken
      /\ hook.complete
      /\ Settings.repositories = 1 \/ hook.namespace
      /\ rule # 0
      /\ hook.secret = Settings.rules[rule].secret
      /\ hook.params \subseteq Settings.rules[rule].params

Incoming(hook) ==
  [NewEvent EXCEPT !.type = "incoming", !.trigger = "push", !.incoming = hook.pipelineRun,
                   !.head = Ref("short", hook.branch), !.base = Ref("short", hook.branch),
                   !.sender = "incoming"]

\* The request is answered: refused, ignored, or accepted and handled later.
handleEvent(i) ==
  \E broken \in Broken :
    LET d == deliveries[i]
    IN  /\ d.pc = "sent"
        /\ broken \subseteq (IF d.hook.kind = "incoming" THEN {"secret"} ELSE {})
        /\ Calls(i,
             IF d.hook.kind = "incoming"
               THEN IF detectIncoming(d.hook, broken)
                      THEN [d EXCEPT !.pc = "verify", !.event = Incoming(d.hook)]
                      ELSE [d EXCEPT !.pc = "refused"]
             ELSE [d EXCEPT !.pc = IF Detect(d.hook) THEN "accepted" ELSE "ignored"], broken)
        /\ UNCHANGED <<setup, forge, acts, runs>>

\* The first look for a skip command: at what the hook says of a push, at
\* what the forge says of a pull request's commit.
LooksAtCommit(event) ==
  \/ event.type \in {"pull_request", "Merge Request"}
  \/ event.type = "push" /\ event.incomplete

shouldSkipPushEvent(before, event) ==
  event.type = "push" /\ (event.skipTitle \/ (before.incomplete /\ event.skip))

SkippedEarly(before, event) ==
  \/ shouldSkipPushEvent(before, event)
  \/ LooksAtCommit(event) /\ event.skip

processEvent(i) ==
  LET d == deliveries[i]
  IN  /\ d.pc = "accepted"
      /\ \E broken \in Broken : \E parsed \in {ParsePayload(d.hook, broken)} :
         \E event \in {IF LooksAtCommit(parsed.event) THEN GetCommitInfo(parsed.event)
                                                      ELSE parsed.event} :
         LET looked == [d EXCEPT !.event = event, !.pc = "verify"]
         IN  IF parsed.reply
               THEN Commented(i, End([d EXCEPT !.event.number = d.hook.number]),
                              <<<<SHAIsNeeded, "">>>>, broken)
             ELSE /\ Calls(i, IF parsed.outcome # "event" \/ ~Settings.known THEN End(d)
                              ELSE IF \/ "client" \in broken
                                      \/ LooksAtCommit(parsed.event) /\ "info" \in broken
                                THEN End(looked)
                              ELSE IF SkippedEarly(parsed.event, event)
                                THEN End(Tell(looked, "skipped", broken))
                              ELSE looked, broken)
                  /\ UNCHANGED forge
      /\ UNCHANGED <<setup, acts, runs>>

----------------------------------------------------------------------------
(* What is asked before anything is matched: the commit, when the hook did *)
(* not have it, and whether the sender may. Comments without a command are *)
(* asked about later, when a definition has matched them.                  *)

ChecksAccess(event) ==
  IF event.trigger = "push" THEN IsAnyOpsEventType(event.type)
                            ELSE event.type # "no-ops-comment"

Denied(d, broken) ==
  IF "status" \in broken THEN Error(d, broken)
  ELSE End(Tell(d, IF d.event.trigger = "push" /\ d.pc = "verify" THEN "failure" ELSE "pending", broken))

WhatNext(d, broken) ==
  LET approved == /\ d.event.trigger # "push" /\ d.event.type = "ok-to-test-comment"
                  /\ ~(Is("github") /\ Settings.app)
      told     == IF approved THEN Tell(d, "success", broken) ELSE d
  IN  IF d.event.trigger = "pull_request_closed" \/ d.event.cancel
        THEN [End(told) EXCEPT !.pc = "cancels"] ELSE [told EXCEPT !.pc = "list"]

verifyRepoAndUser(i) ==
  LET d    == deliveries[i]
      asks == d.event.sha = "" \/ ~d.event.titled
  IN  /\ d.pc = "verify"
      /\ \E broken \in Broken :
         \E known \in {[d EXCEPT !.event = IF asks THEN GetCommitInfo(d.event) ELSE @]} :
         \E access \in {IF ChecksAccess(known.event) THEN IsAllowed(known.event, d.hook, broken)
                                                    ELSE "allowed"} :
           Calls(i, IF asks /\ "info" \in broken THEN Error(d, broken)
                    ELSE IF access = "error" THEN Error(known, broken)
                    ELSE IF access = "denied" THEN Denied(known, broken)
                    ELSE WhatNext(known, broken), broken)
      /\ UNCHANGED <<setup, forge, acts, runs>>

----------------------------------------------------------------------------
(* The definitions: listed, read, matched, reported on, matched again.     *)

\* The definitions of a commit, none where there is no such directory.
NamesIn(sha) == IF sha \in DOMAIN Forge.trees THEN Forge.trees[sha].definitions ELSE <<>>

\* Nothing to match, which only an /ok-to-test is told.
Nothing(d, broken) ==
  End(IF d.event.type = "ok-to-test-comment" THEN Tell(d, "neutral", broken) ELSE d)

ListTektonDir(i) ==
  LET d == deliveries[i]
  IN  /\ d.pc = "list"
      /\ \E broken \in Broken : \E found \in {GetTektonDir(d.event)} :
           Calls(i, IF "dir" \in broken \/ NamesIn(found.from) = <<>> THEN Nothing(d, broken)
                    ELSE [d EXCEPT !.pc = "read", !.from = found.from, !.byBranch = found.byBranch,
                                   !.names = NamesIn(found.from)], broken)
      /\ UNCHANGED <<setup, forge, acts, runs>>

\* The changed files, asked for once and kept.
WithFiles(d, broken) ==
  IF "files" \in d.known \/ "files" \in broken THEN d
  ELSE [d EXCEPT !.files = GetFiles(d.event), !.known = {"files"}]

Cannot(d, broken) == IF "files" \in d.known THEN broken \ {"files"} ELSE broken

\* The runs of this commit are looked for in the Repository's namespace.
Seen(d) ==
  [namespaces |-> Settings.namespaces, files |-> d.files, statuses |-> GetCommitStatuses(d.event),
   succeeded |-> {r.name : r \in {q \in runs : /\ q.sha = d.event.sha /\ q.namespace = ""
                                               /\ q.status = "succeeded"}}]

DefinitionsOf(d) == [k \in DOMAIN d.definitions |-> Definitions[d.definitions[k]]]
NamesOf(definitions) == [k \in DOMAIN definitions |-> definitions[k].name]

Match(d, broken) ==
  MatchPipelinerunByAnnotation(DefinitionsOf(d), d.event, Seen(d), Cannot(d, broken))

\* The first match is for what it makes of the event.
FirstMatch(d, broken) ==
  IF d.event.test # NoName THEN d ELSE [d EXCEPT !.event = Match(d, broken).event]

ReadTektonDir(i) ==
  LET d     == deliveries[i]
      from  == IF d.byBranch THEN forge.branches[DefaultBranch] ELSE d.from
      tree  == Forge.trees[from]
      read  == [d EXCEPT !.from = from, !.pc = "match", !.definitions = d.names]
      wrong == d.event.trigger = "pull_request" /\ (~tree.valid \/ tree.errors)
  IN  /\ d.pc = "read"
      /\ \E broken \in Broken :
         \E next \in {IF "dir" \in broken \/ ~(Range(d.names) \subseteq Range(NamesIn(from)))
                       THEN Nothing(d, broken)
                     ELSE IF ~tree.valid
                       THEN IF wrong THEN End(d) ELSE Nothing(d, broken)
                     ELSE FirstMatch(WithFiles(read, broken), broken)} :
           Commented(i, next,
             IF wrong /\ "dir" \notin broken
               THEN <<<<ValidationErrors(d.event.sha), "errors">>>> ELSE <<>>, broken)
      /\ UNCHANGED <<setup, acts, runs>>

MutantNeverAsksAgain(event) == event.type = "no-ops-comment"
MatchComment(event) == event.type \in {"no-ops-comment", "on-comment"}

\* What becomes of the delivery after the second match.
Matched(d, matching, access, broken) ==
  LET now == [d EXCEPT !.event = matching.event]
  IN  IF matching.outcome = "no failed"
        THEN IF "note" \in broken THEN Error(now, broken) ELSE End(now)
      ELSE IF matching.outcome = "none" THEN Nothing(now, broken)
      ELSE IF access = "error" THEN Error(now, broken)
      ELSE IF access = "denied" THEN Denied(now, broken)
      ELSE [now EXCEPT !.pc = "start",
                       !.definitions = IF d.event.test = NoName THEN NamesOf(matching.matched) ELSE @]

MatchDefinitions(i) ==
  /\ deliveries[i].pc = "match"
  /\ \E broken \in Broken : \E d \in {WithFiles(deliveries[i], broken)} :
     \E matching \in {IF d.event.test = NoName THEN Match(d, broken)
                     ELSE [event |-> d.event, matched |-> <<>>, unmatched |-> {},
                           invalid |-> <<>>, outcome |-> "matched"]} :
     \E access \in {IF MatchComment(matching.event) THEN IsAllowed(matching.event, d.hook, broken)
                                                   ELSE "allowed"} :
       Commented(i, Matched(d, matching, access, broken),
         (IF matching.invalid = <<>> THEN <<>> ELSE <<<<ValidationErrors(d.event.sha), "errors">>>>)
         \o (IF matching.outcome = "no failed" THEN <<<<NothingToRetest, "">>>> ELSE <<>>), broken)
  /\ UNCHANGED <<setup, acts, runs>>

\* The definitions left are resolved and matched once more; an explicitly
\* tested one is started whatever its annotations say.
ToStart(d, broken) ==
  LET left == MatchRunningPipelineRunForIncomingWebhook(d.event, DefinitionsOf(d))
      test == filterRunningPipelineRunOnTargetTest(d.event.test, left)
  IN  IF d.event.test # NoName
        THEN SelectSeq(test, LAMBDA t : resolveTargetNamespaceRepo(t, Seen(d)))
        ELSE MatchPipelinerunByAnnotation(left, d.event, Seen(d), Cannot(d, broken)).matched

\* The second look for a skip command.
SkippedLate(event) == event.skip /\ ~IsAnyOpsEventType(event.type) /\ event.type # "incoming"

Run(i, d, t) ==
  [by |-> i, name |-> t.name, namespace |-> t.namespace, sha |-> d.event.sha, from |-> d.from,
   number |-> d.event.number, type |-> d.event.type, status |-> "running"]

StartRuns(i) ==
  /\ deliveries[i].pc = "start"
  /\ \E broken \in Broken : \E d \in {WithFiles(deliveries[i], broken)} :
       /\ Calls(i, IF "resolve" \in broken THEN Error(d, broken) ELSE End(d), broken)
       /\ runs' = runs \cup {Run(i, d, t) : t \in Range(IF SkippedLate(d.event) \/ "resolve" \in broken
                                                        THEN <<>> ELSE ToStart(d, broken))}
  /\ UNCHANGED <<setup, forge, acts>>

Goroutine(i) ==
  \/ handleEvent(i) \/ processEvent(i) \/ verifyRepoAndUser(i)
  \/ ListTektonDir(i) \/ ReadTektonDir(i) \/ MatchDefinitions(i) \/ StartRuns(i)

Next ==
  \/ Act
  \/ \E r \in runs : RunEnds(r) \/ Prune(r)
  \/ \E i \in DOMAIN deliveries : Goroutine(i)

Spec == Init /\ [][Next]_vars

----------------------------------------------------------------------------
(* Properties                                                              *)

\* A run and the hook it was started for.
HookOf(r) == deliveries[r.by].hook
Commands == {"test", "retest", "ok-to-test", "cancel"}

\* Deliveries and runs are what the code makes of them, and a delivery that is
\* over keeps nothing of the forge.
TypeOK ==
  /\ acts \in 0..Len(setup.script) /\ failures \in 0..setup.failures
  /\ \A i \in DOMAIN deliveries : LET d == deliveries[i] IN
       /\ d.pc \in {"sent", "refused", "ignored", "accepted", "verify", "list", "read", "match",
                    "start", "cancels", "done"}
       /\ d.event.trigger \in {"", "push", "pull_request", "pull_request_closed"}
       /\ d.told \in {"", "skipped", "pending", "failure", "neutral", "success"}
       /\ Range(d.names) \subseteq UNION {Range(NamesIn(sha)) : sha \in DOMAIN Forge.trees}
       /\ d.failed \subseteq setup.calls
  /\ \A r \in runs : /\ r.by \in DOMAIN deliveries
                     /\ r.sha \in DOMAIN Forge.trees /\ r.from \in DOMAIN Forge.trees
                     /\ r.status \in {"running", "succeeded", "failed", "pruned"}

\* Who is trusted with starting runs for a hook: with a policy the teams it
\* names, and always the OWNERS. Only GitHub and Gitea look at the policy, and
\* GitHub not for a check that is asked for again.
HasPolicy(hook) ==
  /\ Settings.policy.set
  /\ Is("gitea") \/ (Is("github") /\ hook.kind \notin {"check_suite", "check_run"})
Owners == IF Settings.owners.exists
            THEN expandAliases(UNION {Settings.owners.approvers, Settings.owners.reviewers,
                                      Settings.owners.everything}, Settings.owners.aliases)
            ELSE {}
PolicyMembers ==
  UNION {Settings.teams[t] : t \in DOMAIN Settings.teams \cap
                               (Range(Settings.policy.pullRequest) \cup Range(Settings.policy.okToTest))}
Trusted(hook) ==
  Owners \cup (IF HasPolicy(hook) THEN PolicyMembers
                ELSE {Settings.organization} \cup Settings.members \cup Settings.collaborators)

\* Whom the provider takes for the sender.
Sender(hook) ==
  IF \/ Is("bitbucket-cloud") /\ hook.kind \in {"pull_request", "comment"}
     \/ Is("github") /\ hook.kind = "pull_request"
    THEN hook.pull.author ELSE hook.by

\* The comments that count for a hook of a pull request: all of the pull
\* request, or only the one of the hook.
Counting(hook, number) ==
  IF Settings.remember \/ Is("bitbucket-cloud") \/ Is("bitbucket-datacenter")
    THEN {c \in Range(forge.comments) : c.on = number}
    ELSE {[by |-> hook.by, text |-> hook.comment] : k \in {hook.kind} \cap {"comment"}}

Prefix == IF Is("github") THEN Settings.prefix ELSE "/"

\* What the forge let happen: a push, a suite asked for again that is of no
\* pull request, and an incoming webhook, which has a secret of its own.
IsOfTheForge(hook, number) ==
  hook.kind \in {"push", "incoming"} \/ (hook.kind = "check_suite" /\ number = 0)

\* Without a policy GitHub lets the branches of the repository itself pass.
IsOfTheRepository(hook, number) ==
  /\ Is("github") /\ ~HasPolicy(hook)
  /\ hook.kind \notin {"comment", "commit_comment"}
  /\ number \in DOMAIN forge.pulls /\ forge.pulls[number].sameRepo

\* Gitea asks for the teams of no repository that is named as its owner
\* (gitea/acl.go:17).
AsksForNoTeam == Is("gitea") /\ Settings.policy.set /\ Settings.organization = Settings.repository

\* Somebody who is trusted has said /ok-to-test.
IsApproved(hook, number) ==
  \E c \in Counting(hook, number) : IsOkToTestComment(c.text, Prefix) /\ c.by \in Trusted(hook)

\* A pull request, or a comment, of somebody who is not trusted starts nothing
\* before somebody who is has said /ok-to-test there.
OutsidersWaitForAMember ==
  \A r \in runs :
    LET hook == HookOf(r)
    IN  \/ IsOfTheForge(hook, r.number) \/ IsOfTheRepository(hook, r.number) \/ AsksForNoTeam
        \/ Sender(hook) \in Trusted(hook)
        \/ IsApproved(hook, r.number)

\* Where an /ok-to-test on a pull request has to name the commit it is for, that
\* commit is what runs, whatever was pushed since it was written. Only GitHub
\* asks for it (parse_payload.go:912).
RequiredCommit ==
  \A r \in runs :
    (/\ Is("github") /\ Settings.requireSHA
     /\ HookOf(r).kind = "comment" /\ r.type = "ok-to-test-comment")
    => GetSHAFromOkToTestComment(HookOf(r).comment, Settings.prefix) = <<"sha", r.sha>>

\* A commit with a skip command in its title starts nothing by itself; one with
\* the command below the title neither, but for the pushes of GitLab, whose
\* hooks are judged by the title alone. Commands and incoming webhooks override.
SkippedCommitsWait ==
  \A r \in runs : (HookOf(r).kind \in {"pull_request", "push", "check_suite", "check_run"}) =>
    \/ Forge.message[r.sha] = "plain"
    \/ Is("gitlab") /\ HookOf(r).kind = "push"
       /\ (Forge.message[r.sha] = "skip in title" => r.type = "Tag Push")

\* A comment of one line starts what it names: /test and /retest the
\* definition after them, no command only definitions that ask for comments,
\* /cancel nothing.
CommandsNameWhatRuns ==
  \A r \in runs :
    LET hook == HookOf(r)
        line == Head(hook.comment)
    IN  (hook.kind \in {"comment", "commit_comment"} /\ Len(hook.comment) = 1 /\ ~line.quoted) =>
          /\ line.says # "cancel"
          /\ line.says \notin Commands \/ line.prefix # Settings.prefix => r.type = "on-comment"
          /\ (line.says \in {"test", "retest"} /\ line.words # <<>> /\ line.words[1][1] = "name") =>
               line.words[1][2] = r.name

\* What runs is of the commit the hook is about, and is defined by that very
\* commit, or, with the default_branch provenance, by one the default branch was
\* at, whatever is pushed while it is read.
DefinitionsAreOfTheCommit ==
  \A r \in runs :
    LET hook == HookOf(r)
    IN  /\ Settings.provenance = "source" => r.from = r.sha
        /\ Settings.provenance = "default_branch" => r.from \in DefaultHeadsBy(setup, acts)
        /\ hook.kind \in {"push", "commit_comment", "check_suite", "check_run"} => r.sha = hook.sha
        /\ hook.kind = "pull_request" => r.sha = hook.pull.head
        /\ hook.kind = "comment" => r.sha \in CommitsBy(setup, acts, hook.number)

\* /retest and /ok-to-test leave out what has succeeded for the commit, also
\* when the run is gone and only its status is left, unless the forge does not
\* say (filterSuccessfulTemplates).
SucceededRunsAreNotRetested ==
  [][\A r \in runs' \ runs :
       (/\ \A q \in runs : <<q.by, q.name>> # <<r.by, r.name>>
        /\ r.type \in {"retest-all-comment", "ok-to-test-comment"}
        /\ deliveries'[r.by].failed \cap {"runs", "statuses"} = {}
        /\ ~Is("bitbucket-datacenter"))
       => r.name \notin forge.statuses[r.sha]]_vars

\* What the bot writes, as a new comment or over an old one, comes back as a
\* hook: it starts nothing and the bot does not answer itself.
NoEcho ==
  \A i \in DOMAIN deliveries : deliveries[i].hook.by = Bot =>
    deliveries[i].comments = 0 /\ \A r \in runs : r.by # i

\* A commit of an open pull request is not run twice, for its push too, where
\* that is asked for and the forge could be asked (parse_payload.go:629-697).
PushesOfPullRequestsWait ==
  \A r \in runs :
    (/\ Is("github") /\ Settings.app /\ Settings.skipPush
     /\ HookOf(r).kind = "push" /\ HookOf(r).ref.form # "tags"
     /\ "pulls" \notin deliveries[r.by].failed)
    => \A n \in HookOf(r).pulls : r.sha \notin forge.pulls[n].commits

\* docs/content/docs/guides/event-matching/skip-ci.md:10 and :42: a skip
\* command anywhere in the message, and a push creates no PipelineRun.
SkippedPushesWait ==
  \A r \in runs : HookOf(r).kind = "push" => Forge.message[r.sha] = "plain"

\* What runs is what was asked for: the commit an /ok-to-test names, the commit
\* of the hook, and the definitions of that commit or of the default branch.
RunsAreOfTheirCommit == RequiredCommit /\ DefinitionsAreOfTheCommit

\* Nothing runs that nobody asked for: not a skipped commit, not a definition
\* the comment does not name, not a push a pull request has already run, not
\* what the bot wrote itself.
NothingRunsUnasked ==
  SkippedCommitsWait /\ CommandsNameWhatRuns /\ PushesOfPullRequestsWait /\ NoEcho
=============================================================================
