---------------------------- MODULE Intake_proofs ----------------------------
(***************************************************************************)
(* Theorems of Intake: nobody who is not trusted has anything started      *)
(* before somebody who is has approved it, and what is started is of the   *)
(* commit that was asked for, whatever the installation, the people and    *)
(* the script of what they do. Two invariants: IntakeInv, of who asked for *)
(* what, and relative to it CommitInv, of the commits.                     *)
(***************************************************************************)
EXTENDS Intake, TLAPS, WellFoundedInduction, FiniteSetTheorems, SequenceTheorems

EventFields ==
  {"trigger", "type", "sha", "head", "base", "sender", "number", "labels", "test", "cancel",
   "cancelName", "incoming", "comment", "sameRepo", "titled", "skipTitle", "incomplete", "skip"}
DeliveryFields ==
  {"hook", "pc", "event", "from", "byBranch", "names", "definitions", "files", "known", "told",
   "comments", "failed"}

Nobody == ""

OpsTypes ==
  {"retest-all-comment", "retest-comment", "test-all-comment", "test-comment", "ok-to-test-comment",
   "cancel-all-comment", "cancel-comment"}
Unasked == {"no-ops-comment", "on-comment"}

\* A hook whose goroutine has nothing to start: a command to cancel.
Cancels(hook) ==
  \/ Is("github") /\ GitHub!detectTriggerTypeFromPayload(hook, Settings.prefix, Settings) = "cancel"
  \/ Is("gitea") /\ Gitea!detectTriggerTypeFromPayload(hook) = "cancel"

OfTheRepository(n) == n \in DOMAIN forge.pulls /\ forge.pulls[n].sameRepo

\* A hook tells of what the forge has.
HookOK(hook) ==
  /\ hook.by # ""
  /\ hook.kind = "pull_request" =>
       hook.number \in DOMAIN forge.pulls /\ forge.pulls[hook.number].sameRepo = hook.pull.sameRepo
  /\ hook.kind \in {"check_suite", "check_run"} => hook.pulls \cup hook.runPulls \subseteq DOMAIN forge.pulls

\* What ParsePayload makes of a hook that is not of a push.
EventOK(hook, event) ==
  /\ event.sender = Sender(hook)
  /\ hook.kind \in {"comment", "pull_request"} => event.number = hook.number
  /\ \/ hook.kind = "check_suite" /\ event.number = 0
     \/ event.trigger # "push"
     \/ event.type \in OpsTypes \cup Unasked
  /\ hook.kind \in {"pull_request", "check_suite", "check_run"} /\ event.sameRepo =>
       OfTheRepository(event.number)
  /\ Cancels(hook) => event.cancel

ByCommit == {"push", "commit_comment", "check_suite", "check_run"}

\* Of which commit and which pull request that is.
EventTells(hook, event) ==
  /\ hook.kind \in ByCommit /\ hook.sha # Nobody => event.sha = hook.sha
  /\ hook.kind = "pull_request" => event.sha = hook.pull.head
  /\ hook.kind = "comment" =>
       /\ event.sha = IF Is("github") THEN forge.pulls[hook.number].head ELSE hook.pull.head
       /\ hook.number # 0 \/ ~(Is("github") \/ Is("gitea"))
       /\ Is("github") /\ Settings.requireSHA /\ event.type = "ok-to-test-comment" =>
            GetSHAFromOkToTestComment(hook.comment, Settings.prefix) = <<"sha", event.sha>>
  /\ hook.kind \notin {"comment", "pull_request"} /\ DOMAIN forge.pulls \subseteq Nat =>
       event.number \in {0} \cup DOMAIN forge.pulls

\* Why a delivery may start what it starts.
Entitled(hook, number) ==
  \/ IsOfTheForge(hook, number) \/ IsOfTheRepository(hook, number) \/ AsksForNoTeam
  \/ Sender(hook) \in Trusted(hook)
  \/ IsApproved(hook, number)

Cleared(d) ==
  Entitled(d.hook, d.event.number) \/ (d.pc # "start" /\ d.event.type \in Unasked)

DeliveryOK(d) ==
  /\ DOMAIN d = DeliveryFields /\ DOMAIN d.event = EventFields
  /\ HookOK(d.hook)
  /\ d.pc \notin {"sent", "refused", "ignored"} => d.hook.kind = "incoming" \/ Detect(d.hook)
  /\ d.pc \in {"verify", "list", "read", "match", "start"} /\ d.hook.kind \notin {"push", "incoming"} =>
       EventOK(d.hook, d.event)
  /\ d.pc = "accepted" => Detect(d.hook)
  /\ d.pc = "read" => d.names \in Seq(Range(d.names))
  /\ d.pc = "match" => d.definitions \in Seq(Range(d.definitions))
  /\ d.pc \in {"list", "read", "match", "start"} => ~d.event.cancel /\ Cleared(d)

ForgeOK ==
  /\ {"pulls", "branches", "comments", "statuses"} = DOMAIN forge
  /\ forge.comments \in Seq(Range(forge.comments))
  /\ \A i \in DOMAIN forge.comments : forge.comments[i].by = Bot =>
       ~IsOkToTestComment(forge.comments[i].text, Prefix)
  /\ \A n \in DOMAIN forge.pulls : \A p \in PullsOf(setup) :
       n \in DOMAIN p => p[n].sameRepo = forge.pulls[n].sameRepo
  /\ NumbersBy(setup, acts) \subseteq DOMAIN forge.pulls

RunOK(r) ==
  /\ {"by", "number", "status"} \subseteq DOMAIN r
  /\ r.by \in DOMAIN deliveries
  /\ \A hook \in {deliveries[r.by].hook} : Entitled(hook, r.number)

IntakeInv ==
  /\ setup \in Setups /\ acts \in Nat
  /\ ForgeOK
  /\ deliveries \in Seq(Range(deliveries))
  /\ \A d \in Range(deliveries) : DeliveryOK(d)
  /\ \A r \in runs : RunOK(r)

(***************************************************************************)
(* Commits: what a delivery is of, and where its definitions come from     *)
(***************************************************************************)
\* A hook of a push or of a commit tells which, and that of a pull request a
\* commit the pull request has had.
HookTells(hook) ==
  /\ hook.kind \in ByCommit => hook.sha # Nobody
  /\ hook.kind = "pull_request" => hook.pull.head # Nobody
  /\ (hook.kind = "comment" /\ (hook.number # 0 \/ ~(Is("github") \/ Is("gitea")))) =>
       hook.pull.head \in CommitsBy(setup, acts, hook.number)

\* The commit of an event, or of a run.
CommitOK(hook, e) ==
  /\ hook.kind \in ByCommit => e.sha = hook.sha
  /\ hook.kind = "pull_request" => e.sha = hook.pull.head
  /\ hook.kind = "comment" => e.sha \in CommitsBy(setup, acts, hook.number)
  /\ (hook.kind = "comment" /\ Is("github") /\ Settings.requireSHA /\ e.type = "ok-to-test-comment") =>
       GetSHAFromOkToTestComment(hook.comment, Settings.prefix) = <<"sha", e.sha>>

FromOK(sha, from) ==
  /\ Settings.provenance = "source" => from = sha
  /\ Settings.provenance = "default_branch" => from \in DefaultHeadsBy(setup, acts)

DeliveryTells(d) ==
  /\ HookTells(d.hook)
  /\ d.pc \in {"verify", "list", "read", "match", "start"} =>
       CommitOK(d.hook, d.event) /\ d.event.number \in {0} \cup DOMAIN forge.pulls
  /\ d.pc \in {"read", "match", "start"} => FromOK(d.event.sha, d.from)
  /\ d.pc = "read" /\ d.byBranch => Settings.provenance # "source"

RunTells(r) ==
  /\ {"by", "number", "status", "sha", "from", "type"} \subseteq DOMAIN r
  /\ FromOK(r.sha, r.from)
  /\ \A hook \in {deliveries[r.by].hook} : CommitOK(hook, r)

ForgeTells ==
  /\ \A n \in DOMAIN forge.pulls : n \in Nat \ {0} /\ forge.pulls[n].head \in CommitsBy(setup, acts, n)
  /\ DefaultBranch \in DOMAIN forge.branches
  /\ forge.branches[DefaultBranch] \in DefaultHeadsBy(setup, acts)

CommitInv ==
  /\ acts <= Len(setup.script)
  /\ ForgeTells
  /\ \A d \in Range(deliveries) : DeliveryTells(d)
  /\ \A r \in runs : RunTells(r)

(***************************************************************************)
(* Sequences and sets of numbers                                           *)
(***************************************************************************)
\* A set of numbers that is not empty has a smallest one.

LEMMA SmallestOne ==
    ASSUME NEW T \in SUBSET Nat, T # {}
    PROVE  \E x \in T : \A y \in T : x <= y
<1> DEFINE R == OpToRel(<, Nat)
<1>1. IsWellFoundedOn(R, Nat)
  BY NatLessThanWellFounded
<1>2. \A x, y \in Nat : x < y => <<x, y>> \in R
  BY DEF OpToRel
<1> HIDE DEF R
<1>3. PICK x \in T : \A y \in T : ~ (<<y, x>> \in R)
  BY <1>1, WFMin
<1>4. ASSUME NEW y \in T PROVE x <= y
  <2>1. x \in Nat /\ y \in Nat
    BY <1>3, <1>4
  <2>2. ~(y < x)
    BY <2>1, <1>2, <1>3, <1>4
  <2> QED
    BY <2>1, <2>2
<1> QED
  BY <1>4


LEMMA Smallest ==
    ASSUME NEW S \in SUBSET Nat, S # {}
    PROVE  (CHOOSE x \in S : \A y \in S : x <= y) \in S
BY SmallestOne

\* Where the first element is that passes, none is before it.
LEMMA FirstAnswerIsOne ==
    ASSUME NEW answers, Len(answers) \in Nat
    PROVE  /\ GitHub!FirstAnswer(answers) = "allowed" => \E i \in 1 .. Len(answers) : answers[i] = "allowed"
           /\ Gitea!FirstAnswer(answers) = "allowed" => \E i \in 1 .. Len(answers) : answers[i] = "allowed"
           /\ BitbucketCloud!FirstAnswer(answers) = "allowed" =>
                \E i \in 1 .. Len(answers) : answers[i] = "allowed"
           /\ BitbucketDataCenter!FirstAnswer(answers) = "allowed" =>
                \E i \in 1 .. Len(answers) : answers[i] = "allowed"
<1> DEFINE S == {i \in 1 .. Len(answers) : answers[i] # "denied"}
           m == CHOOSE x \in S : \A y \in S : x <= y
           first == IF S # {} THEN m ELSE 0
           answer == IF first = 0 THEN "denied" ELSE answers[first]
<1>0. S \in SUBSET Nat
  OBVIOUS
<1> HIDE DEF S
<1>1. S # {} => m \in S
  BY <1>0, Smallest
<1> USE DEF S
<1>2. answer = "allowed" => \E i \in 1 .. Len(answers) : answers[i] = "allowed"
  BY <1>1
<1>3. GitHub!FirstAnswer(answers) = answer
  BY DEF GitHub!FirstAnswer, GitHub!SelectInSeq, GitHub!Min
<1>4. Gitea!FirstAnswer(answers) = answer
  BY DEF Gitea!FirstAnswer, Gitea!SelectInSeq, Gitea!Min
<1>5. BitbucketCloud!FirstAnswer(answers) = answer
  BY DEF BitbucketCloud!FirstAnswer, BitbucketCloud!SelectInSeq, BitbucketCloud!Min
<1>6. BitbucketDataCenter!FirstAnswer(answers) = answer
  BY DEF BitbucketDataCenter!FirstAnswer, BitbucketDataCenter!SelectInSeq, BitbucketDataCenter!Min
<1> QED
  BY <1>2, <1>3, <1>4, <1>5, <1>6

(***************************************************************************)
(* Access: whom the checks of each provider let pass                       *)
(***************************************************************************)

\* Everybody but the teams of a policy.
People == Owners \cup {Settings.organization} \cup Settings.members \cup Settings.collaborators

LEMMA OwnersAreOwners ==
    ASSUME NEW u
    PROVE  /\ GitHub!InOwners(Settings.owners, u) => u \in Owners
           /\ GitLab!InOwners(Settings.owners, u) => u \in Owners
           /\ Gitea!InOwners(Settings.owners, u) => u \in Owners
           /\ BitbucketCloud!InOwners(Settings.owners, u) => u \in Owners
           /\ BitbucketDataCenter!InOwners(Settings.owners, u) => u \in Owners
<1> DEFINE file == Settings.owners
           simple == file.approvers \cup file.reviewers
           listed == IF simple # {} THEN simple ELSE file.everything
           all == UNION {file.approvers, file.reviewers, file.everything}
           Meant(n) == IF n \in DOMAIN file.aliases THEN file.aliases[n] ELSE {n}
           passes == file.exists /\ u \in UNION {Meant(n) : n \in listed}
<1>1. listed \subseteq all
  OBVIOUS
<1>2. passes => u \in Owners
  <2>1. Owners = IF file.exists THEN UNION {Meant(n) : n \in all} ELSE {}
    BY DEF Owners, expandAliases
  <2> QED
    BY <1>1, <2>1
<1>3. GitHub!InOwners(file, u) = passes
  BY DEF GitHub!InOwners, GitHub!UserInOwnerFile, GitHub!expandAliases
<1>4. GitLab!InOwners(file, u) = passes
  BY DEF GitLab!InOwners, GitLab!UserInOwnerFile, GitLab!expandAliases
<1>5. Gitea!InOwners(file, u) = passes
  BY DEF Gitea!InOwners, Gitea!UserInOwnerFile, Gitea!expandAliases
<1>6. BitbucketCloud!InOwners(file, u) = passes
  BY DEF BitbucketCloud!InOwners, BitbucketCloud!UserInOwnerFile, BitbucketCloud!expandAliases
<1>7. BitbucketDataCenter!InOwners(file, u) = passes
  BY DEF BitbucketDataCenter!InOwners, BitbucketDataCenter!UserInOwnerFile, BitbucketDataCenter!expandAliases
<1> HIDE DEF passes, listed, all, Meant
<1> QED
  BY <1>2, <1>3, <1>4, <1>5, <1>6, <1>7

\* aclCheckAll of GitHub (acl.go), with the pull requests of the repository itself.
LEMMA GitHubChecks ==
    ASSUME NEW u, NEW event, NEW hook, NEW broken,
           GitHub!aclCheckAll(u, event, hook, Settings, broken) = "allowed"
    PROVE  \/ u \in People
           \/ hook.kind \in {"pull_request", "check_run", "check_suite"} /\ event.sameRepo
<1>1. GitHub!InOwners(Settings.owners, u) => u \in Owners
  BY OwnersAreOwners
<1> QED
  BY <1>1 DEF GitHub!aclCheckAll, GitHub!Else, GitHub!Answer, GitHub!Asked, People,
    GitHub!canUseSameRepoPullRequestShortcut

LEMMA GiteaChecks ==
    ASSUME NEW u, NEW broken, Gitea!aclCheckAll(u, Settings, broken) = "allowed"
    PROVE  u \in People
<1>1. Gitea!InOwners(Settings.owners, u) => u \in Owners
  BY OwnersAreOwners
<1> QED
  BY <1>1 DEF Gitea!aclCheckAll, Gitea!Else, Gitea!Answer, Gitea!Asked, People

LEMMA GitLabChecks ==
    ASSUME NEW u, NEW broken, GitLab!checkMembership(u, Settings, broken)
    PROVE  u \in People
<1>1. GitLab!InOwners(Settings.owners, u) => u \in Owners
  BY OwnersAreOwners
<1> QED
  BY <1>1 DEF GitLab!checkMembership, GitLab!IsAllowedOwnersFile, People

LEMMA BitbucketCloudChecks ==
    ASSUME NEW u, NEW broken, BitbucketCloud!checkMember(u, Settings, broken) = "allowed"
    PROVE  u \in People
<1>1. BitbucketCloud!InOwners(Settings.owners, u) => u \in Owners
  BY OwnersAreOwners
<1> QED
  BY <1>1 DEF BitbucketCloud!checkMember, BitbucketCloud!isWorkspaceMember, BitbucketCloud!Else,
    BitbucketCloud!Answer, BitbucketCloud!Asked, People

LEMMA BitbucketDataCenterChecks ==
    ASSUME NEW u, NEW broken, BitbucketDataCenter!checkMemberShip(u, Settings, broken) = "allowed"
    PROVE  u \in People
<1>1. BitbucketDataCenter!InOwners(Settings.owners, u) => u \in Owners
  BY OwnersAreOwners
<1> QED
  BY <1>1 DEF BitbucketDataCenter!checkMemberShip, BitbucketDataCenter!Else,
    BitbucketDataCenter!Answer, BitbucketDataCenter!Asked, People

(***************************************************************************)
(* IsAllowed: whoever it lets start something is entitled to it            *)
(***************************************************************************)

LEMMA ForgeIsTheForge ==
    ASSUME setup \in Setups
    PROVE  /\ Forge.pulls = forge.pulls /\ Forge.comments = forge.comments
           /\ Forge.branches = forge.branches /\ Forge.statuses = forge.statuses
<1>1. {"pulls", "branches", "comments", "statuses"} \subseteq DOMAIN setup.forge
  BY IntakeAssumption
<1> QED
  BY <1>1 DEF Forge

LEMMA TheSameCommands ==
    ASSUME NEW comment, NEW prefix
    PROVE  /\ GitHub!IsOkToTestComment(comment, prefix) = IsOkToTestComment(comment, prefix)
           /\ GitLab!IsOkToTestComment(comment, prefix) = IsOkToTestComment(comment, prefix)
           /\ Gitea!IsOkToTestComment(comment, prefix) = IsOkToTestComment(comment, prefix)
           /\ BitbucketCloud!IsOkToTestComment(comment, prefix) = IsOkToTestComment(comment, prefix)
           /\ BitbucketDataCenter!IsOkToTestComment(comment, prefix) = IsOkToTestComment(comment, prefix)
<1>1. GitHub!IsOkToTestComment(comment, prefix) = IsOkToTestComment(comment, prefix)
  BY DEF GitHub!IsOkToTestComment, GitHub!SaysAny, GitHub!Says, IsOkToTestComment, SaysAny, Says
<1>2. GitLab!IsOkToTestComment(comment, prefix) = IsOkToTestComment(comment, prefix)
  BY DEF GitLab!IsOkToTestComment, GitLab!SaysAny, GitLab!Says, IsOkToTestComment, SaysAny, Says
<1>3. Gitea!IsOkToTestComment(comment, prefix) = IsOkToTestComment(comment, prefix)
  BY DEF Gitea!IsOkToTestComment, Gitea!SaysAny, Gitea!Says, IsOkToTestComment, SaysAny, Says
<1>4. BitbucketCloud!IsOkToTestComment(comment, prefix) = IsOkToTestComment(comment, prefix)
  BY DEF BitbucketCloud!IsOkToTestComment, BitbucketCloud!SaysAny, BitbucketCloud!Says, IsOkToTestComment, SaysAny, Says
<1>5. BitbucketDataCenter!IsOkToTestComment(comment, prefix) = IsOkToTestComment(comment, prefix)
  BY DEF BitbucketDataCenter!IsOkToTestComment, BitbucketDataCenter!SaysAny, BitbucketDataCenter!Says,
    IsOkToTestComment, SaysAny, Says
<1> QED
  BY <1>1, <1>2, <1>3, <1>4, <1>5

LEMMA TrustedPeople ==
    ASSUME NEW hook
    PROVE  /\ ~HasPolicy(hook) => Trusted(hook) = People
           /\ Owners \subseteq Trusted(hook)
           /\ HasPolicy(hook) => PolicyMembers \subseteq Trusted(hook)
BY DEF Trusted, People

\* A comment on the pull request by somebody who is trusted.
LEMMA CommentApproves ==
    ASSUME NEW hook, NEW number, NEW i \in DOMAIN forge.comments,
           Settings.remember \/ Is("bitbucket-cloud") \/ Is("bitbucket-datacenter"),
           forge.comments[i].on = number, IsOkToTestComment(forge.comments[i].text, Prefix),
           forge.comments[i].by \in Trusted(hook)
    PROVE  IsApproved(hook, number)
<1> DEFINE c == forge.comments[i]
<1>1. c \in {x \in Range(forge.comments) : x.on = number}
  BY DEF Range
<1> QED
  BY <1>1 DEF IsApproved, Counting

\* Whatever teams a policy asks for are named in it.
LEMMA TeamsOfThePolicy ==
    ASSUME NEW trigger, NEW teams, NEW i \in DOMAIN teams, NEW u,
           teams = IF trigger \in {"ok-to-test", "retest"} THEN Settings.policy.okToTest
                                                          ELSE Settings.policy.pullRequest,
           teams[i] \in DOMAIN Settings.teams, u \in Settings.teams[teams[i]]
    PROVE  u \in PolicyMembers
<1>1. teams[i] \in Range(Settings.policy.pullRequest) \cup Range(Settings.policy.okToTest)
  BY DEF Range
<1> QED
  BY <1>1 DEF PolicyMembers

\* GitHub's hooks that have a trigger with a policy.
LEMMA GitHubTriggers ==
    ASSUME NEW hook, Is("github"), Detect(hook), hook.kind \notin {"push", "incoming"}, ~Cancels(hook),
           NEW trigger, trigger = GitHub!detectTriggerTypeFromPayload(hook, Settings.prefix, Settings)
    PROVE  /\ HasPolicy(hook) => trigger \in {"ok-to-test", "retest", "pull_request", "comment",
                                             "pull_request_labeled", "pull_request_closed"}
           /\ hook.kind \in {"check_suite", "check_run"} =>
                trigger \in {"", "check-suite-rerequested", "check-run-rerequested"}
<1>1. Is("github") /\ ~Is("gitlab") /\ ~Is("gitea") /\ ~Is("bitbucket-cloud") /\ ~Is("bitbucket-datacenter")
  BY DEF Is
<1>2. GitHub!detectTriggerTypeFromPayload(hook, "/", Settings) # ""
  BY <1>1 DEF Detect, GitHub!Detect
<1>3. hook.kind \in {"pull_request", "comment", "commit_comment", "check_suite", "check_run"}
  BY <1>2 DEF GitHub!detectTriggerTypeFromPayload
<1>4. CASE hook.kind = "pull_request"
  BY <1>2, <1>4 DEF GitHub!detectTriggerTypeFromPayload, GitHub!OpenOrSync
<1>5. CASE hook.kind \in {"comment", "commit_comment"}
  <2> DEFINE Of(prefix, c) == GitHub!CommentTrigger(hook, prefix, c)
  <2>1. \A prefix : \A c \in BOOLEAN : Of(prefix, c) \in {"comment", "retest", "ok-to-test", "cancel"}
    BY DEF GitHub!CommentTrigger
  <2>2. trigger \in {"comment", "retest", "ok-to-test", "cancel", ""}
    BY <2>1, <1>5 DEF GitHub!detectTriggerTypeFromPayload
  <2>3. trigger # ""
    BY <1>2, <1>5, <2>1 DEF GitHub!detectTriggerTypeFromPayload
  <2>4. trigger # "cancel"
    BY <1>1 DEF Cancels
  <2> QED
    BY <2>2, <2>3, <2>4, <1>5
<1>6. CASE hook.kind \in {"check_suite", "check_run"}
  <2>1. ~HasPolicy(hook)
    BY <1>1, <1>6 DEF HasPolicy
  <2> QED
    BY <2>1, <1>6 DEF GitHub!detectTriggerTypeFromPayload
<1> QED
  BY <1>3, <1>4, <1>5, <1>6

\* What a delivery is asked for: GitHub.
LEMMA GitHubEntitles ==
    ASSUME setup \in Setups, ForgeOK, NEW hook, NEW event, NEW broken,
           Is("github"), Detect(hook), hook.kind \notin {"push", "incoming"},
           EventOK(hook, event), ~event.cancel,
           GitHub!IsAllowed(event, hook, Forge, Settings, broken) = "allowed"
    PROVE  Entitled(hook, event.number)
<1> DEFINE trigger == GitHub!detectTriggerTypeFromPayload(hook, Settings.prefix, Settings)
           teams == IF trigger \in {"ok-to-test", "retest"} THEN Settings.policy.okToTest
                                                          ELSE Settings.policy.pullRequest
           inTeams == GitHub!CheckPolicyAllowing(GitHub!PolicyTeams(Settings.policy, trigger),
                                                 event.sender, Settings, broken)
           owner == "owners" \notin broken /\ GitHub!InOwners(Settings.owners, event.sender)
           policy == GitHub!PolicyIsAllowed(Settings.policy, trigger, inTeams, owner)
           all == GitHub!aclCheckAll(event.sender, event, hook, Settings, broken)
           ok == GitHub!aclAllowedOkToTestFromAnOwner(event, hook, Forge, Settings, broken)
<1>1. event.sender = Sender(hook) /\ ~Cancels(hook)
  BY DEF EventOK
<1>2. /\ HasPolicy(hook) => trigger \in {"ok-to-test", "retest", "pull_request", "comment",
                                        "pull_request_labeled", "pull_request_closed"}
      /\ hook.kind \in {"check_suite", "check_run"} =>
           trigger \in {"", "check-suite-rerequested", "check-run-rerequested"}
  BY <1>1, GitHubTriggers
<1>3. GitHub!IsAllowed(event, hook, Forge, Settings, broken) =
        CASE policy = "allowed" -> "allowed" [] policy = "disallowed" -> "denied"
          [] OTHER -> GitHub!Else(all, ok)
  BY DEF GitHub!IsAllowed
<1>4. HasPolicy(hook) <=> (Settings.policy.set /\ hook.kind \notin {"check_suite", "check_run"})
  BY DEF HasPolicy, Is
<1>5. policy = "not set" \/ (policy = "allowed" /\ (inTeams \/ owner)) \/ policy = "disallowed"
  BY DEF GitHub!PolicyIsAllowed
<1>6. policy = "not set" <=> ~HasPolicy(hook)
  BY <1>2, <1>4 DEF GitHub!PolicyIsAllowed
<1>7. owner => event.sender \in Owners
  BY OwnersAreOwners
<1> HIDE DEF trigger, all, ok, owner
<1>8. CASE HasPolicy(hook)
  <2>1. inTeams \/ owner
    BY <1>3, <1>5, <1>6, <1>8
  <2>2. CASE owner
    BY <2>2, <1>1, <1>7, TrustedPeople DEF Entitled
  <2>3. CASE inTeams
    <3>1. GitHub!PolicyTeams(Settings.policy, trigger) = teams
      BY DEF GitHub!PolicyTeams
    <3>2. PICK i \in DOMAIN teams : teams[i] \in DOMAIN Settings.teams /\ event.sender \in Settings.teams[teams[i]]
      <4> HIDE DEF teams
      <4>1. PICK i \in GitHub!NamedTeams(teams) :
              teams[i] \in DOMAIN Settings.teams /\ event.sender \in Settings.teams[teams[i]]
        BY <2>3, <3>1 DEF GitHub!CheckPolicyAllowing
      <4>2. i \in DOMAIN teams
        BY <4>1 DEF GitHub!NamedTeams
      <4> QED
        BY <4>1, <4>2
    <3>3. event.sender \in PolicyMembers
      BY <3>2, TeamsOfThePolicy
    <3> QED
      BY <3>3, <1>1, <1>8, TrustedPeople DEF Entitled
  <2> QED
    BY <2>1, <2>2, <2>3
<1>9. CASE ~HasPolicy(hook)
  <2>1. all = "allowed" \/ (all = "denied" /\ ok = "allowed")
    BY <1>3, <1>6, <1>9 DEF GitHub!Else
  <2>2. ASSUME hook.kind \in {"pull_request", "check_run", "check_suite"}, event.sameRepo
        PROVE  Entitled(hook, event.number)
    <3>1. OfTheRepository(event.number)
      BY <2>2 DEF EventOK
    <3> QED
      BY <3>1, <1>9, <2>2 DEF Entitled, IsOfTheRepository, OfTheRepository
  <2>3. Trusted(hook) = People
    BY <1>9, TrustedPeople
  <2>4. CASE all = "allowed"
    <3>1. event.sender \in People \/ (hook.kind \in {"pull_request", "check_run", "check_suite"} /\ event.sameRepo)
      BY <2>4, GitHubChecks DEF all
    <3> QED
      BY <3>1, <2>2, <2>3, <1>1 DEF Entitled
  <2>5. CASE ok = "allowed"
    <3> DEFINE check(by) == GitHub!aclCheckAll(by, event, hook, Settings, broken)
               said == GitHub!GetStringPullRequestComment(hook.number, Forge, Settings.prefix)
               answers == [i \in DOMAIN Forge.comments |-> IF i \in said THEN check(Forge.comments[i].by) ELSE "denied"]
    <3>1. \/ /\ hook.kind = "comment" /\ ~Settings.remember /\ check(hook.by) = "allowed"
          \/ /\ hook.kind \in {"comment", "pull_request"} /\ Settings.remember
             /\ GitHub!FirstAnswer(answers) = "allowed"
      BY <2>5 DEF ok, GitHub!aclAllowedOkToTestFromAnOwner, GitHub!FirstAbout
    <3>2. CASE hook.kind = "comment" /\ ~Settings.remember /\ check(hook.by) = "allowed"
      <4>1. hook.by \in People
        BY <3>2, GitHubChecks
      <4>2. Sender(hook) = hook.by
        BY <3>2 DEF Sender, Is
      <4> QED
        BY <4>1, <4>2, <2>3 DEF Entitled
    <3>3. CASE hook.kind \in {"comment", "pull_request"} /\ Settings.remember /\ GitHub!FirstAnswer(answers) = "allowed"
      <4>1. Forge.comments = forge.comments /\ forge.comments \in Seq(Range(forge.comments))
        BY ForgeIsTheForge DEF ForgeOK
      <4>2. Len(answers) \in Nat /\ DOMAIN answers = DOMAIN forge.comments /\ DOMAIN forge.comments = 1 .. Len(forge.comments)
        BY <4>1
      <4>3. Len(answers) = Len(forge.comments)
        BY <4>1
      <4> HIDE DEF answers
      <4>4. PICK i \in 1 .. Len(answers) : answers[i] = "allowed"
        BY <3>3, <4>2, FirstAnswerIsOne
      <4>5. i \in DOMAIN forge.comments /\ i \in said /\ check(forge.comments[i].by) = "allowed"
        BY <4>1, <4>2, <4>3, <4>4 DEF answers
      <4>6. forge.comments[i].on = hook.number /\ IsOkToTestComment(forge.comments[i].text, Settings.prefix)
        BY <4>1, <4>5, TheSameCommands DEF GitHub!GetStringPullRequestComment
      <4>7. Prefix = Settings.prefix /\ event.number = hook.number
        BY <3>3 DEF Prefix, EventOK
      <4>8. forge.comments[i].by \in People \/ (hook.kind = "pull_request" /\ event.sameRepo)
        BY <4>5, <3>3, GitHubChecks
      <4>9. forge.comments[i].by \in People => IsApproved(hook, event.number)
        BY <4>5, <4>6, <4>7, <3>3, <2>3, CommentApproves
      <4> QED
        BY <4>8, <4>9, <2>2 DEF Entitled
    <3> QED
      BY <3>1, <3>2, <3>3
  <2> QED
    BY <2>1, <2>4, <2>5
<1> QED
  BY <1>8, <1>9

\* GitLab looks at members only.
LEMMA GitLabEntitles ==
    ASSUME setup \in Setups, ForgeOK, NEW hook, NEW event, NEW broken, Is("gitlab"),
           EventOK(hook, event), GitLab!IsAllowed(event, hook, Forge, Settings, broken) = "allowed"
    PROVE  Entitled(hook, event.number)
<1> DEFINE check(by) == GitLab!checkMembership(by, Settings, broken)
<1>1. Trusted(hook) = People /\ Sender(hook) = hook.by /\ event.sender = hook.by /\ Prefix = "/"
  BY TrustedPeople DEF HasPolicy, Is, Sender, EventOK, Prefix
<1>2. \/ check(event.sender)
      \/ hook.kind = "comment" /\ check(hook.by)
      \/ /\ hook.kind \in {"comment", "pull_request"} /\ Settings.remember
         /\ \E i \in DOMAIN Forge.comments :
              /\ Forge.comments[i].on = hook.number
              /\ GitLab!IsOkToTestComment(Forge.comments[i].text, "/")
              /\ check(Forge.comments[i].by)
  BY DEF GitLab!IsAllowed, GitLab!checkOkToTestCommentFromApprovedMember, GitLab!Answer,
    GitLab!aclAllowedOkToTestCurrentComment
<1> HIDE DEF check
<1>3. CASE check(event.sender) \/ check(hook.by)
  <2>1. hook.by \in People
    BY <1>1, <1>3, GitLabChecks DEF check
  <2> QED
    BY <1>1, <2>1 DEF Entitled
<1>4. CASE /\ hook.kind \in {"comment", "pull_request"} /\ Settings.remember
           /\ \E i \in DOMAIN Forge.comments :
                /\ Forge.comments[i].on = hook.number
                /\ GitLab!IsOkToTestComment(Forge.comments[i].text, "/")
                /\ check(Forge.comments[i].by)
  <2>1. Forge.comments = forge.comments
    BY ForgeIsTheForge
  <2>2. PICK i \in DOMAIN forge.comments :
          /\ forge.comments[i].on = hook.number
          /\ GitLab!IsOkToTestComment(forge.comments[i].text, "/")
          /\ check(forge.comments[i].by)
    BY <1>4, <2>1
  <2>3. IsOkToTestComment(forge.comments[i].text, Prefix) /\ forge.comments[i].by \in Trusted(hook)
    BY <1>1, <2>2, TheSameCommands, GitLabChecks DEF check
  <2>4. event.number = hook.number
    BY <1>4 DEF EventOK
  <2>5. IsApproved(hook, event.number)
    BY <1>4, <2>2, <2>3, <2>4, CommentApproves
  <2> QED
    BY <2>5 DEF Entitled
<1> QED
  BY <1>2, <1>3, <1>4

\* Gitea, unless it asks for no teams.
LEMMA GiteaEntitles ==
    ASSUME setup \in Setups, ForgeOK, NEW hook, NEW event, NEW broken, Is("gitea"), Detect(hook),
           hook.kind \notin {"push", "incoming"}, EventOK(hook, event), ~event.cancel,
           Gitea!IsAllowed(event, hook, Forge, Settings, broken) = "allowed"
    PROVE  Entitled(hook, event.number)
<1> DEFINE trigger == Gitea!detectTriggerTypeFromPayload(hook)
           teams == IF trigger \in {"ok-to-test", "retest"} THEN Settings.policy.okToTest
                                                          ELSE Settings.policy.pullRequest
           inTeams == Gitea!CheckPolicyAllowing(Gitea!PolicyTeams(Settings.policy, trigger),
                                                event.sender, Settings, broken)
           owner == "owners" \notin broken /\ Gitea!InOwners(Settings.owners, event.sender)
           policy == Gitea!PolicyIsAllowed(Settings.policy, trigger, inTeams, owner)
           all == Gitea!aclCheckAll(event.sender, Settings, broken)
           ok == Gitea!aclAllowedOkToTestFromAnOwner(hook, Forge, Settings, broken)
<1>0. Is("gitea") /\ ~Is("github") /\ ~Is("gitlab") /\ ~Is("bitbucket-cloud") /\ ~Is("bitbucket-datacenter")
  BY DEF Is
<1>1. event.sender = Sender(hook) /\ ~Cancels(hook) /\ Sender(hook) = hook.by /\ Prefix = "/"
  BY <1>0 DEF EventOK, Sender, Prefix
<1>2. /\ hook.kind \in {"comment", "pull_request"}
      /\ trigger \in {"ok-to-test", "retest", "pull_request", "comment"}
  <2>1. trigger # ""
    BY <1>0 DEF Detect, Gitea!Detect
  <2>2. trigger # "cancel"
    BY <1>0, <1>1 DEF Cancels
  <2>3. trigger \in {"ok-to-test", "retest", "pull_request", "comment", "cancel", "push", ""}
    BY DEF Gitea!detectTriggerTypeFromPayload
  <2>4. hook.kind \in {"comment", "pull_request"} /\ trigger # "push"
    BY <2>1 DEF Gitea!detectTriggerTypeFromPayload
  <2> QED
    BY <2>1, <2>2, <2>3, <2>4
<1>3. Gitea!IsAllowed(event, hook, Forge, Settings, broken) =
        CASE policy = "allowed" -> "allowed" [] policy = "disallowed" -> "denied"
          [] OTHER -> Gitea!Else(all, ok)
  BY DEF Gitea!IsAllowed
<1>4. HasPolicy(hook) <=> Settings.policy.set
  BY <1>0 DEF HasPolicy
<1>5. policy = "not set" \/ (policy = "allowed" /\ (inTeams \/ owner)) \/ policy = "disallowed"
  BY DEF Gitea!PolicyIsAllowed
<1>6. policy = "not set" <=> ~HasPolicy(hook)
  BY <1>2, <1>4 DEF Gitea!PolicyIsAllowed
<1>7. owner => event.sender \in Owners
  BY OwnersAreOwners
<1> HIDE DEF trigger, all, ok, owner
<1>8. CASE HasPolicy(hook)
  <2>1. inTeams \/ owner
    BY <1>3, <1>5, <1>6, <1>8
  <2>2. CASE owner
    BY <2>2, <1>1, <1>7, TrustedPeople DEF Entitled
  <2>3. CASE inTeams
    <3>1. Gitea!PolicyTeams(Settings.policy, trigger) = teams
      BY DEF Gitea!PolicyTeams
    <3>2. CASE Settings.organization = Settings.repository
      BY <3>2, <1>0, <1>4, <1>8 DEF Entitled, AsksForNoTeam
    <3>3. CASE Settings.organization # Settings.repository
      <4>1. PICK i \in DOMAIN teams : teams[i] \in DOMAIN Settings.teams /\ event.sender \in Settings.teams[teams[i]]
        <5> HIDE DEF teams
        <5>1. PICK i \in Gitea!NamedTeams(teams) :
                teams[i] \in DOMAIN Settings.teams /\ event.sender \in Settings.teams[teams[i]]
          BY <2>3, <3>1, <3>3 DEF Gitea!CheckPolicyAllowing
        <5>2. i \in DOMAIN teams
          BY <5>1 DEF Gitea!NamedTeams
        <5> QED
          BY <5>1, <5>2
      <4>2. event.sender \in PolicyMembers
        BY <4>1, TeamsOfThePolicy
      <4> QED
        BY <4>2, <1>1, <1>8, TrustedPeople DEF Entitled
    <3> QED
      BY <3>2, <3>3
  <2> QED
    BY <2>1, <2>2, <2>3
<1>9. CASE ~HasPolicy(hook)
  <2>1. all = "allowed" \/ (all = "denied" /\ ok = "allowed")
    BY <1>3, <1>6, <1>9 DEF Gitea!Else
  <2>2. Trusted(hook) = People
    BY <1>9, TrustedPeople
  <2>3. CASE all = "allowed"
    <3>1. event.sender \in People
      BY <2>3, GiteaChecks DEF all
    <3> QED
      BY <3>1, <2>2, <1>1 DEF Entitled
  <2>4. CASE ok = "allowed"
    <3> DEFINE check(by) == Gitea!aclCheckAll(by, Settings, broken)
               said == Gitea!GetStringPullRequestComment(hook.number, Forge)
               answers == [i \in DOMAIN Forge.comments |-> IF i \in said THEN check(Forge.comments[i].by) ELSE "denied"]
    <3>1. \/ /\ hook.kind = "comment" /\ ~Settings.remember /\ check(hook.by) = "allowed"
          \/ /\ hook.kind \in {"comment", "pull_request"} /\ Settings.remember
             /\ Gitea!FirstAnswer(answers) = "allowed"
      BY <2>4 DEF ok, Gitea!aclAllowedOkToTestFromAnOwner, Gitea!FirstAbout, Gitea!aclAllowedOkToTestCurrentComment
    <3>2. CASE hook.kind = "comment" /\ ~Settings.remember /\ check(hook.by) = "allowed"
      <4>1. hook.by \in People
        BY <3>2, GiteaChecks
      <4> QED
        BY <4>1, <1>1, <2>2 DEF Entitled
    <3>3. CASE hook.kind \in {"comment", "pull_request"} /\ Settings.remember /\ Gitea!FirstAnswer(answers) = "allowed"
      <4>1. Forge.comments = forge.comments /\ forge.comments \in Seq(Range(forge.comments))
        BY ForgeIsTheForge DEF ForgeOK
      <4>2. Len(answers) \in Nat /\ Len(answers) = Len(forge.comments) /\ DOMAIN forge.comments = 1 .. Len(forge.comments)
        BY <4>1
      <4> HIDE DEF answers
      <4>3. PICK i \in 1 .. Len(answers) : answers[i] = "allowed"
        BY <3>3, <4>2, FirstAnswerIsOne
      <4>4. i \in DOMAIN forge.comments /\ i \in said /\ check(forge.comments[i].by) = "allowed"
        BY <4>1, <4>2, <4>3 DEF answers
      <4>5. forge.comments[i].on = hook.number /\ IsOkToTestComment(forge.comments[i].text, Prefix)
        BY <1>1, <4>1, <4>4, TheSameCommands DEF Gitea!GetStringPullRequestComment
      <4>6. event.number = hook.number /\ forge.comments[i].by \in Trusted(hook)
        BY <2>2, <3>3, <4>4, GiteaChecks DEF EventOK
      <4>7. IsApproved(hook, event.number)
        BY <4>4, <4>5, <4>6, <3>3, CommentApproves
      <4> QED
        BY <4>7 DEF Entitled
    <3> QED
      BY <3>1, <3>2, <3>3
  <2> QED
    BY <2>1, <2>3, <2>4
<1> QED
  BY <1>8, <1>9

\* Bitbucket Cloud, where comments are always remembered.
LEMMA BitbucketCloudEntitles ==
    ASSUME setup \in Setups, ForgeOK, NEW hook, NEW event, NEW broken, Is("bitbucket-cloud"), Detect(hook),
           hook.kind \notin {"push", "incoming"}, EventOK(hook, event),
           BitbucketCloud!IsAllowed(event, hook, Forge, Settings, broken) = "allowed"
    PROVE  Entitled(hook, event.number)
<1> DEFINE check(by) == BitbucketCloud!checkMember(by, Settings, broken)
           said == {i \in DOMAIN Forge.comments :
                      /\ Forge.comments[i].on = event.number
                      /\ BitbucketCloud!IsOkToTestComment(Forge.comments[i].text, "/")}
           answers == [i \in DOMAIN Forge.comments |-> IF i \in said THEN check(Forge.comments[i].by) ELSE "denied"]
<1>1. Trusted(hook) = People /\ event.sender = Sender(hook) /\ Prefix = "/"
  BY TrustedPeople DEF HasPolicy, Is, EventOK, Prefix
<1>2. check(event.sender) = "allowed" \/ BitbucketCloud!FirstAnswer(answers) = "allowed"
  BY DEF BitbucketCloud!IsAllowed, BitbucketCloud!checkOkToTestCommentFromApprovedMember, BitbucketCloud!Else, BitbucketCloud!FirstAbout
<1>3. CASE check(event.sender) = "allowed"
  BY <1>1, <1>3, BitbucketCloudChecks DEF Entitled
<1>4. CASE BitbucketCloud!FirstAnswer(answers) = "allowed"
  <2>1. Forge.comments = forge.comments /\ forge.comments \in Seq(Range(forge.comments))
    BY ForgeIsTheForge DEF ForgeOK
  <2>2. Len(answers) \in Nat /\ Len(answers) = Len(forge.comments) /\ DOMAIN forge.comments = 1 .. Len(forge.comments)
    BY <2>1
  <2> HIDE DEF answers
  <2>3. PICK i \in 1 .. Len(answers) : answers[i] = "allowed"
    BY <1>4, <2>2, FirstAnswerIsOne
  <2>4. i \in DOMAIN forge.comments /\ i \in said /\ check(forge.comments[i].by) = "allowed"
    BY <2>1, <2>2, <2>3 DEF answers
  <2>5. forge.comments[i].on = event.number /\ IsOkToTestComment(forge.comments[i].text, Prefix)
    BY <1>1, <2>1, <2>4, TheSameCommands
  <2>6. forge.comments[i].by \in Trusted(hook)
    BY <1>1, <2>4, BitbucketCloudChecks
  <2>7. IsApproved(hook, event.number)
    BY <2>4, <2>5, <2>6, CommentApproves
  <2> QED
    BY <2>7 DEF Entitled
<1> QED
  BY <1>2, <1>3, <1>4

\* Bitbucket Data Center likewise.
LEMMA BitbucketDataCenterEntitles ==
    ASSUME setup \in Setups, ForgeOK, NEW hook, NEW event, NEW broken, Is("bitbucket-datacenter"), Detect(hook),
           hook.kind \notin {"push", "incoming"}, EventOK(hook, event),
           BitbucketDataCenter!IsAllowed(event, hook, Forge, Settings, broken) = "allowed"
    PROVE  Entitled(hook, event.number)
<1> DEFINE check(by) == BitbucketDataCenter!checkMemberShip(by, Settings, broken)
           said == {i \in DOMAIN Forge.comments :
                      /\ Forge.comments[i].on = event.number
                      /\ BitbucketDataCenter!IsOkToTestComment(Forge.comments[i].text, "/")}
           answers == [i \in DOMAIN Forge.comments |-> IF i \in said THEN check(Forge.comments[i].by) ELSE "denied"]
<1>1. Trusted(hook) = People /\ event.sender = Sender(hook) /\ Prefix = "/"
  BY TrustedPeople DEF HasPolicy, Is, EventOK, Prefix
<1>2. check(event.sender) = "allowed" \/ BitbucketDataCenter!FirstAnswer(answers) = "allowed"
  BY DEF BitbucketDataCenter!IsAllowed, BitbucketDataCenter!checkOkToTestCommentFromApprovedMember, BitbucketDataCenter!Else, BitbucketDataCenter!FirstAbout
<1>3. CASE check(event.sender) = "allowed"
  BY <1>1, <1>3, BitbucketDataCenterChecks DEF Entitled
<1>4. CASE BitbucketDataCenter!FirstAnswer(answers) = "allowed"
  <2>1. Forge.comments = forge.comments /\ forge.comments \in Seq(Range(forge.comments))
    BY ForgeIsTheForge DEF ForgeOK
  <2>2. Len(answers) \in Nat /\ Len(answers) = Len(forge.comments) /\ DOMAIN forge.comments = 1 .. Len(forge.comments)
    BY <2>1
  <2> HIDE DEF answers
  <2>3. PICK i \in 1 .. Len(answers) : answers[i] = "allowed"
    BY <1>4, <2>2, FirstAnswerIsOne
  <2>4. i \in DOMAIN forge.comments /\ i \in said /\ check(forge.comments[i].by) = "allowed"
    BY <2>1, <2>2, <2>3 DEF answers
  <2>5. forge.comments[i].on = event.number /\ IsOkToTestComment(forge.comments[i].text, Prefix)
    BY <1>1, <2>1, <2>4, TheSameCommands
  <2>6. forge.comments[i].by \in Trusted(hook)
    BY <1>1, <2>4, BitbucketDataCenterChecks
  <2>7. IsApproved(hook, event.number)
    BY <2>4, <2>5, <2>6, CommentApproves
  <2> QED
    BY <2>7 DEF Entitled
<1> QED
  BY <1>2, <1>3, <1>4

\* Whoever the provider allows is entitled to what follows.
LEMMA AllowedAreEntitled ==
    ASSUME setup \in Setups, ForgeOK, NEW hook, NEW event, NEW broken, Detect(hook),
           hook.kind \notin {"push", "incoming"}, EventOK(hook, event), ~event.cancel,
           IsAllowed(event, hook, broken) = "allowed"
    PROVE  Entitled(hook, event.number)
<1>1. CASE Is("github")
  <2>1. GitHub!IsAllowed(event, hook, Forge, Settings, broken) = "allowed"
    BY <1>1 DEF IsAllowed, Is
  <2> QED
    BY <1>1, <2>1, GitHubEntitles
<1>2. CASE Is("gitlab")
  <2>1. GitLab!IsAllowed(event, hook, Forge, Settings, broken) = "allowed"
    BY <1>2 DEF IsAllowed, Is
  <2> QED
    BY <1>2, <2>1, GitLabEntitles
<1>3. CASE Is("gitea")
  <2>1. Gitea!IsAllowed(event, hook, Forge, Settings, broken) = "allowed"
    BY <1>3 DEF IsAllowed, Is
  <2> QED
    BY <1>3, <2>1, GiteaEntitles
<1>4. CASE Is("bitbucket-cloud")
  <2>1. BitbucketCloud!IsAllowed(event, hook, Forge, Settings, broken) = "allowed"
    BY <1>4 DEF IsAllowed, Is
  <2> QED
    BY <1>4, <2>1, BitbucketCloudEntitles
<1>5. CASE Is("bitbucket-datacenter")
  <2>1. BitbucketDataCenter!IsAllowed(event, hook, Forge, Settings, broken) = "allowed"
    BY <1>5 DEF IsAllowed, Is
  <2> QED
    BY <1>5, <2>1, BitbucketDataCenterEntitles
<1> QED
  BY <1>1, <1>2, <1>3, <1>4, <1>5, IntakeAssumption DEF Is

(***************************************************************************)
(* ParsePayload: what is made of a hook tells of its sender                *)
(***************************************************************************)

\* The type of a command is one of the types of commands, and a comment with
\* nothing but a command to cancel is of a cancellation.
LEMMA TypesOfCommands ==
    ASSUME NEW comment, NEW prefix
    PROVE  /\ CommentEventType(comment, prefix) \in OpsTypes \cup {"no-ops-comment"}
           /\ CommentEventType(comment, prefix) = "ok-to-test-comment" => IsOkToTestComment(comment, prefix)
           /\ (/\ ~IsTestRetestComment(comment, prefix)
               /\ ~IsOkToTestComment(comment, prefix)
               /\ IsCancelComment(comment, prefix))
              => CommentEventType(comment, prefix) \in {"cancel-all-comment", "cancel-comment"}
<1> DEFINE P == Precedence
           Said(command, named) == Says(comment, prefix, command, named)
           S == {i \in 1 .. Len(P) : Said(P[i].command, P[i].named)}
           m == CHOOSE x \in S : \A y \in S : x <= y
           type == IF (IF S # {} THEN m ELSE 0) = 0 THEN "no-ops-comment" ELSE P[IF S # {} THEN m ELSE 0].type
<1>1. Len(P) = 8
  BY DEF Precedence
<1>2. S \in SUBSET Nat
  BY <1>1
<1>3. \A i \in 1 .. 8 : P[i].type \in OpsTypes
  BY DEF Precedence, OpsTypes
<1>a. \A i \in 1 .. 6 : P[i].command \in {"test", "retest", "ok-to-test"} /\ P[i].named \in BOOLEAN
  <2>1. /\ P[1].command \in {"test", "retest", "ok-to-test"} /\ P[1].named \in BOOLEAN
        /\ P[2].command \in {"test", "retest", "ok-to-test"} /\ P[2].named \in BOOLEAN
    BY DEF Precedence
  <2>2. /\ P[3].command \in {"test", "retest", "ok-to-test"} /\ P[3].named \in BOOLEAN
        /\ P[4].command \in {"test", "retest", "ok-to-test"} /\ P[4].named \in BOOLEAN
    BY DEF Precedence
  <2>3. /\ P[5].command \in {"test", "retest", "ok-to-test"} /\ P[5].named \in BOOLEAN
        /\ P[6].command \in {"test", "retest", "ok-to-test"} /\ P[6].named \in BOOLEAN
    BY DEF Precedence
  <2> HIDE DEF P
  <2>4. \A i \in 1 .. 6 : i \in {1, 2, 3, 4, 5, 6}
    OBVIOUS
  <2> QED
    BY <2>1, <2>2, <2>3, <2>4
<1>b. P[7].type = "cancel-all-comment" /\ P[8].type = "cancel-comment"
  BY DEF Precedence
<1>c. P[7].command = "cancel" /\ P[8].command = "cancel" /\ P[7].named = FALSE /\ P[8].named = TRUE
  BY DEF Precedence
<1>4. CommentEventType(comment, prefix) = type
  BY DEF CommentEventType, SelectInSeq, Min
<1> HIDE DEF S, P
<1>5. S # {} => m \in S
  BY <1>2, Smallest, SMTT(30)
<1>6. S # {} => m \in 1 .. 8 /\ Said(P[m].command, P[m].named) /\ type = P[m].type
  BY <1>1, <1>5, SMTT(30) DEF S
<1>7. type \in OpsTypes \cup {"no-ops-comment"}
  BY <1>3, <1>6
<1>9. ASSUME type = "ok-to-test-comment" PROVE IsOkToTestComment(comment, prefix)
  <2>1. /\ P[1].type # "ok-to-test-comment" /\ P[2].type # "ok-to-test-comment"
        /\ P[3].type # "ok-to-test-comment" /\ P[4].type # "ok-to-test-comment"
        /\ P[7].type # "ok-to-test-comment" /\ P[8].type # "ok-to-test-comment"
    BY DEF P, Precedence
  <2>2. /\ P[5].command = "ok-to-test" /\ P[5].named \in BOOLEAN
        /\ P[6].command = "ok-to-test" /\ P[6].named \in BOOLEAN
    BY DEF P, Precedence
  <2>3. S # {}
    BY <1>9
  <2>4. m \in 1 .. 8 /\ Said(P[m].command, P[m].named) /\ type = P[m].type
    BY <2>3, <1>6
  <2>7. m \in {1, 2, 3, 4, 5, 6, 7, 8}
    BY <2>4
  <2>5. m = 5 \/ m = 6
    BY <2>1, <2>4, <2>7, <1>9, Zenon
  <2>6. \E named \in BOOLEAN : Said("ok-to-test", named)
    BY <2>2, <2>4, <2>5
  <2> QED
    BY <2>6 DEF IsOkToTestComment, SaysAny
<1>8. ASSUME ~IsTestRetestComment(comment, prefix), ~IsOkToTestComment(comment, prefix),
             IsCancelComment(comment, prefix)
      PROVE  type \in {"cancel-all-comment", "cancel-comment"}
  <2> HIDE DEF Said
  <2>1. \A named \in BOOLEAN : ~Said("test", named) /\ ~Said("retest", named) /\ ~Said("ok-to-test", named)
    BY <1>8 DEF Said, IsTestRetestComment, IsOkToTestComment, SaysAny
  <2>2. \E named \in BOOLEAN : Said("cancel", named)
    BY <1>8 DEF Said, IsCancelComment, SaysAny
  <2>3. Said("cancel", FALSE) \/ Said("cancel", TRUE)
    BY <2>2
  <2>7. 7 \in 1 .. Len(P) /\ 8 \in 1 .. Len(P)
    BY <1>1
  <2>8. Said(P[7].command, P[7].named) = Said("cancel", FALSE) /\ Said(P[8].command, P[8].named) = Said("cancel", TRUE)
    BY <1>c
  <2>6. 7 \in S \/ 8 \in S
    BY <2>3, <2>7, <2>8 DEF S
  <2>4. m \in 1 .. 8 /\ Said(P[m].command, P[m].named) /\ type = P[m].type
    BY <2>6, <1>6
  <2>5. ~(m \in 1 .. 6)
    BY <2>1, <2>4, <1>a
  <2>9. m = 7 \/ m = 8
    BY <2>4, <2>5
  <2> QED
    BY <2>4, <2>9, <1>b
<1> QED
  BY <1>4, <1>7, <1>8, <1>9

LEMMA TheSameTypes ==
    ASSUME NEW comment, NEW prefix
    PROVE  /\ GitHub!CommentEventType(comment, prefix) = CommentEventType(comment, prefix)
           /\ GitLab!CommentEventType(comment, prefix) = CommentEventType(comment, prefix)
           /\ Gitea!CommentEventType(comment, prefix) = CommentEventType(comment, prefix)
<1>1. GitHub!CommentEventType(comment, prefix) = CommentEventType(comment, prefix)
  BY DEF GitHub!CommentEventType, GitHub!SelectInSeq, GitHub!Min, GitHub!Says, GitHub!Precedence,
    CommentEventType, SelectInSeq, Min, Says, Precedence
<1>2. GitLab!CommentEventType(comment, prefix) = CommentEventType(comment, prefix)
  BY DEF GitLab!CommentEventType, GitLab!SelectInSeq, GitLab!Min, GitLab!Says, GitLab!Precedence,
    CommentEventType, SelectInSeq, Min, Says, Precedence
<1>3. Gitea!CommentEventType(comment, prefix) = CommentEventType(comment, prefix)
  BY DEF Gitea!CommentEventType, Gitea!SelectInSeq, Gitea!Min, Gitea!Says, Gitea!Precedence,
    CommentEventType, SelectInSeq, Min, Says, Precedence
<1> QED
  BY <1>1, <1>2, <1>3

LEMMA TheSameTests ==
    ASSUME NEW comment, NEW prefix
    PROVE  /\ GitHub!IsTestRetestComment(comment, prefix) = IsTestRetestComment(comment, prefix)
           /\ GitHub!IsCancelComment(comment, prefix) = IsCancelComment(comment, prefix)
           /\ Gitea!IsTestRetestComment(comment, prefix) = IsTestRetestComment(comment, prefix)
           /\ Gitea!IsCancelComment(comment, prefix) = IsCancelComment(comment, prefix)
<1>1. GitHub!IsTestRetestComment(comment, prefix) = IsTestRetestComment(comment, prefix)
  BY DEF GitHub!IsTestRetestComment, GitHub!SaysAny, GitHub!Says, IsTestRetestComment, SaysAny, Says
<1>2. GitHub!IsCancelComment(comment, prefix) = IsCancelComment(comment, prefix)
  BY DEF GitHub!IsCancelComment, GitHub!SaysAny, GitHub!Says, IsCancelComment, SaysAny, Says
<1>3. Gitea!IsTestRetestComment(comment, prefix) = IsTestRetestComment(comment, prefix)
  BY DEF Gitea!IsTestRetestComment, Gitea!SaysAny, Gitea!Says, IsTestRetestComment, SaysAny, Says
<1>4. Gitea!IsCancelComment(comment, prefix) = IsCancelComment(comment, prefix)
  BY DEF Gitea!IsCancelComment, Gitea!SaysAny, Gitea!Says, IsCancelComment, SaysAny, Says
<1> QED
  BY <1>1, <1>2, <1>3, <1>4

LEMMA TheSameNames ==
    ASSUME NEW comment, NEW prefix
    PROVE  GitHub!GetSHAFromOkToTestComment(comment, prefix) = GetSHAFromOkToTestComment(comment, prefix)
BY DEF GitHub!GetSHAFromOkToTestComment, GitHub!SelectInSeq, GitHub!Min, GitHub!NoName,
  GetSHAFromOkToTestComment, SelectInSeq, Min, NoName

LEMMA ANewEvent ==
    /\ DOMAIN GitHub!NewEvent = EventFields /\ DOMAIN GitLab!NewEvent = EventFields
    /\ DOMAIN Gitea!NewEvent = EventFields /\ DOMAIN BitbucketCloud!NewEvent = EventFields
    /\ DOMAIN BitbucketDataCenter!NewEvent = EventFields /\ DOMAIN NewEvent = EventFields
    /\ GitHub!NewEvent.sameRepo = FALSE /\ GitLab!NewEvent.sameRepo = FALSE
    /\ Gitea!NewEvent.sameRepo = FALSE /\ BitbucketCloud!NewEvent.sameRepo = FALSE
    /\ BitbucketDataCenter!NewEvent.sameRepo = FALSE
    /\ GitHub!NewEvent.type = "" /\ GitHub!NewEvent.sender = "" /\ GitHub!NewEvent.number = 0
<1>1. DOMAIN GitHub!NewEvent = EventFields /\ GitHub!NewEvent.sameRepo = FALSE
  BY DEF GitHub!NewEvent, EventFields
<1>2. DOMAIN GitLab!NewEvent = EventFields /\ GitLab!NewEvent.sameRepo = FALSE
  BY DEF GitLab!NewEvent, EventFields
<1>3. DOMAIN Gitea!NewEvent = EventFields /\ Gitea!NewEvent.sameRepo = FALSE
  BY DEF Gitea!NewEvent, EventFields
<1>4. DOMAIN BitbucketCloud!NewEvent = EventFields /\ BitbucketCloud!NewEvent.sameRepo = FALSE
  BY DEF BitbucketCloud!NewEvent, EventFields
<1>5. DOMAIN BitbucketDataCenter!NewEvent = EventFields /\ BitbucketDataCenter!NewEvent.sameRepo = FALSE
  BY DEF BitbucketDataCenter!NewEvent, EventFields
<1>6. DOMAIN NewEvent = EventFields
  BY DEF NewEvent, EventFields
<1>7. GitHub!NewEvent.type = "" /\ GitHub!NewEvent.sender = "" /\ GitHub!NewEvent.number = 0
  BY DEF GitHub!NewEvent
<1> QED
  BY <1>1, <1>2, <1>3, <1>4, <1>5, <1>6, <1>7

LEMMA NothingIsKnownYet ==
    /\ GitHub!NewEvent.sha = Nobody /\ NewEvent.number = 0
    /\ GitLab!NewEvent.number = 0 /\ Gitea!NewEvent.number = 0
    /\ BitbucketCloud!NewEvent.number = 0 /\ BitbucketDataCenter!NewEvent.number = 0
<1>1. GitHub!NewEvent.sha = Nobody
  BY DEF GitHub!NewEvent, Nobody
<1>2. NewEvent.number = 0
  BY DEF NewEvent
<1>3. GitLab!NewEvent.number = 0 /\ Gitea!NewEvent.number = 0
  BY DEF GitLab!NewEvent, Gitea!NewEvent
<1>4. BitbucketCloud!NewEvent.number = 0 /\ BitbucketDataCenter!NewEvent.number = 0
  BY DEF BitbucketCloud!NewEvent, BitbucketDataCenter!NewEvent
<1> QED
  BY <1>1, <1>2, <1>3, <1>4

\* What a comment makes of an event.
LEMMA WhatCommandsSet ==
    ASSUME NEW event, DOMAIN event = EventFields, NEW comment, NEW prefix, NEW said,
           said \in {GitHub!SetEventTypeAndTargetPR(event, comment, prefix),
                     GitLab!SetEventTypeAndTargetPR(event, comment, prefix),
                     Gitea!SetEventTypeAndTargetPR(event, comment, prefix)}
    PROVE  /\ DOMAIN said = EventFields
           /\ said.sender = event.sender /\ said.number = event.number /\ said.sameRepo = event.sameRepo
           /\ said.trigger = event.trigger /\ said.sha = event.sha
           /\ said.type = CommentEventType(comment, prefix)
           /\ said.type \in {"cancel-all-comment", "cancel-comment"} => said.cancel
<1> DEFINE type == CommentEventType(comment, prefix)
<1>1. CASE said = GitHub!SetEventTypeAndTargetPR(event, comment, prefix)
  BY <1>1, TheSameTypes DEF GitHub!SetEventTypeAndTargetPR, GitHub!OfType, EventFields
<1>2. CASE said = GitLab!SetEventTypeAndTargetPR(event, comment, prefix)
  BY <1>2, TheSameTypes DEF GitLab!SetEventTypeAndTargetPR, GitLab!OfType, EventFields
<1>3. CASE said = Gitea!SetEventTypeAndTargetPR(event, comment, prefix)
  BY <1>3, TheSameTypes DEF Gitea!SetEventTypeAndTargetPR, Gitea!OfType, EventFields
<1> QED
  BY <1>1, <1>2, <1>3

LEMMA PullRequestsOfGitHub ==
    ASSUME Is("github"), NEW hook, HookOK(hook), hook.kind = "pull_request",
           NEW parsed, parsed = GitHub!processPullRequest(hook)
    PROVE  DOMAIN parsed.event = EventFields /\ EventOK(hook, parsed.event) /\ EventTells(hook, parsed.event)
<1> DEFINE event == parsed.event
<1>1. Is("github") /\ ~Is("gitea") /\ ~Is("bitbucket-cloud")
  BY DEF Is
<1>2. DOMAIN GitHub!NewEvent = EventFields
  BY ANewEvent
<1>3. /\ DOMAIN event = EventFields
      /\ event.sender = hook.pull.author /\ event.sha = hook.pull.head /\ event.number = hook.number
      /\ event.sameRepo = hook.pull.sameRepo /\ event.trigger = GitHub!TargetOf(hook.action)
  BY <1>2 DEF GitHub!processPullRequest, GitHub!Parsed, EventFields
<1>4. event.trigger # "push"
  BY <1>3 DEF GitHub!TargetOf
<1>5. ~Cancels(hook)
  BY <1>1 DEF Cancels, GitHub!detectTriggerTypeFromPayload
<1>6. event.sender = Sender(hook)
  BY <1>1, <1>3 DEF Sender
<1>7. event.sameRepo => OfTheRepository(event.number)
  BY <1>3 DEF HookOK, OfTheRepository
<1> QED
  BY <1>3, <1>4, <1>5, <1>6, <1>7 DEF EventOK, EventTells, ByCommit

\* What a pull request adds to an event that has a sender.
LEMMA WithThePullRequest ==
    ASSUME NEW event, DOMAIN event = EventFields, event.sender # Nobody, NEW number, NEW pull, NEW with,
           with = GitHub!populateRunEventFromPullRequest(event, number, pull)
    PROVE  /\ DOMAIN with = EventFields
           /\ with.sender = event.sender /\ with.number = number /\ with.sameRepo = pull.sameRepo
           /\ with.trigger = event.trigger
           /\ with.sha = IF event.sha = Nobody THEN pull.head ELSE event.sha
BY DEF GitHub!populateRunEventFromPullRequest, EventFields, Nobody

LEMMA CommentsOfGitHub ==
    ASSUME setup \in Setups, Is("github"), NEW hook, HookOK(hook), Detect(hook), hook.kind = "comment", NEW broken,
           NEW parsed, parsed = GitHub!handleIssueCommentEvent(hook, Forge, Settings, broken),
           parsed.outcome = "event"
    PROVE  DOMAIN parsed.event = EventFields /\ EventOK(hook, parsed.event) /\ EventTells(hook, parsed.event)
<1> DEFINE asked == [GitHub!NewEvent EXCEPT !.sender = hook.by, !.trigger = "pull_request"]
           pull == Forge.pulls[hook.number]
           with == GitHub!populateRunEventFromPullRequest(asked, hook.number, pull)
           event == GitHub!SetEventTypeAndTargetPR(with, hook.comment, Settings.prefix)
<1>1. Is("github") /\ ~Is("gitea") /\ ~Is("bitbucket-cloud")
  BY DEF Is
<1>2. DOMAIN GitHub!NewEvent = EventFields
  BY ANewEvent
<1>3. parsed.event = event
  <2>1. GitHub!Failed.outcome # "event" /\ [GitHub!Failed EXCEPT !.reply = TRUE].outcome # "event"
    BY DEF GitHub!Failed
  <2>2. GitHub!Parsed(event).event = event
    BY DEF GitHub!Parsed
  <2> HIDE DEF event
  <2>3. parsed \in {GitHub!Failed, [GitHub!Failed EXCEPT !.reply = TRUE], GitHub!Parsed(event)}
    BY DEF GitHub!handleIssueCommentEvent, event
  <2> QED
    BY <2>1, <2>2, <2>3
<1>4. /\ DOMAIN asked = EventFields /\ asked.sender = hook.by /\ asked.trigger = "pull_request"
      /\ asked.sha = Nobody
  BY <1>2, NothingIsKnownYet DEF EventFields
<1>13. /\ hook.number # 0
       /\ Settings.requireSHA /\ GitHub!IsOkToTestComment(hook.comment, Settings.prefix) =>
            GitHub!GetSHAFromOkToTestComment(hook.comment, Settings.prefix) = <<"sha", event.sha>>
  <2>1. GitHub!Failed.outcome # "event" /\ [GitHub!Failed EXCEPT !.reply = TRUE].outcome # "event"
    BY DEF GitHub!Failed
  <2> HIDE DEF event
  <2>2. /\ hook.number # 0
        /\ ~(/\ Settings.requireSHA
             /\ GitHub!IsOkToTestComment(hook.comment, Settings.prefix)
             /\ GitHub!GetSHAFromOkToTestComment(hook.comment, Settings.prefix) # GitHub!RequiredSHA(event, hook))
    BY <2>1 DEF GitHub!handleIssueCommentEvent, event
  <2> QED
    BY <2>2 DEF GitHub!RequiredSHA
<1>14. pull.head = forge.pulls[hook.number].head
  BY ForgeIsTheForge
<1>5. hook.by # ""
  BY DEF HookOK
<1> HIDE DEF asked, pull
<1>11. asked.sender # Nobody
  BY <1>4, <1>5 DEF Nobody
<1>12. with = GitHub!populateRunEventFromPullRequest(asked, hook.number, pull)
  OBVIOUS
<1> HIDE DEF with
<1>6. DOMAIN with = EventFields /\ with.sender = hook.by /\ with.number = hook.number
      /\ with.trigger = "pull_request" /\ with.sha = pull.head
  BY <1>4, <1>11, <1>12, WithThePullRequest
<1>7. /\ DOMAIN event = EventFields /\ event.sender = hook.by /\ event.number = hook.number
      /\ event.trigger = "pull_request" /\ event.sha = pull.head
      /\ event.type = CommentEventType(hook.comment, Settings.prefix)
      /\ event.type \in {"cancel-all-comment", "cancel-comment"} => event.cancel
  BY <1>6, WhatCommandsSet
<1> HIDE DEF event
<1>8. Cancels(hook) => event.cancel
  <2> SUFFICES ASSUME Cancels(hook) PROVE event.cancel
    OBVIOUS
  <2> DEFINE p == Settings.prefix
  <2>1. GitHub!detectTriggerTypeFromPayload(hook, p, Settings) = "cancel"
    BY <1>1 DEF Cancels
  <2>2. GitHub!CommentTrigger(hook, p, hook.number # 0 /\ hook.pull.open) = "cancel"
    BY <2>1 DEF GitHub!detectTriggerTypeFromPayload
  <2>3. /\ ~GitHub!IsTestRetestComment(hook.comment, p)
        /\ ~GitHub!IsOkToTestComment(hook.comment, p)
        /\ GitHub!IsCancelComment(hook.comment, p)
    BY <2>2 DEF GitHub!CommentTrigger
  <2>4. ~IsTestRetestComment(hook.comment, p) /\ ~IsOkToTestComment(hook.comment, p)
        /\ IsCancelComment(hook.comment, p)
    BY <2>3, TheSameTests, TheSameCommands
  <2> QED
    BY <2>4, <1>7, TypesOfCommands
<1>9. event.sender = Sender(hook)
  BY <1>1, <1>7 DEF Sender
<1>10. event.trigger # "push"
  BY <1>7
<1>15. ASSUME Settings.requireSHA, event.type = "ok-to-test-comment"
       PROVE  GetSHAFromOkToTestComment(hook.comment, Settings.prefix) = <<"sha", event.sha>>
  <2>2. CommentEventType(hook.comment, Settings.prefix) = "ok-to-test-comment"
    BY <1>7, <1>15
  <2>3. IsOkToTestComment(hook.comment, Settings.prefix)
    BY <2>2, TypesOfCommands
  <2>1. GitHub!IsOkToTestComment(hook.comment, Settings.prefix)
    BY <2>3, TheSameCommands
  <2> QED
    BY <1>13, <1>15, <2>1, TheSameNames
<1>16. EventTells(hook, event)
  BY <1>1, <1>7, <1>13, <1>14, <1>15 DEF EventTells, ByCommit
<1> QED
  BY <1>3, <1>7, <1>8, <1>9, <1>10, <1>16 DEF EventOK

\* The pull request of a commit is one that the forge has.
LEMMA OneOfThePullRequests ==
    ASSUME setup \in Setups, NEW sha, DOMAIN forge.pulls \subseteq Nat,
           NEW n, n \in {GitHub!OneOf({}), GitHub!OneOf(GitHub!getPullRequestsWithCommit(sha, Forge))}
    PROVE  n \in {0} \cup DOMAIN forge.pulls
<1> DEFINE found == GitHub!getPullRequestsWithCommit(sha, Forge)
<1>1. found \subseteq DOMAIN forge.pulls
  BY ForgeIsTheForge DEF GitHub!getPullRequestsWithCommit
<1> HIDE DEF found
<1>2. GitHub!OneOf({}) = 0
  BY DEF GitHub!OneOf
<1>3. GitHub!OneOf(found) \in {0} \cup DOMAIN forge.pulls
  <2>1. CASE found = {}
    BY <1>2, <2>1
  <2>2. CASE found # {}
    <3>1. found \in SUBSET Nat
      BY <1>1
    <3>2. (CHOOSE x \in found : \A y \in found : x <= y) \in found
      BY <2>2, <3>1, Smallest
    <3> QED
      BY <1>1, <2>2, <3>2 DEF GitHub!OneOf
  <2> QED
    BY <2>1, <2>2
<1> QED
  BY <1>2, <1>3 DEF found

\* A comment on a commit.
LEMMA CommitCommentsOfGitHub ==
    ASSUME setup \in Setups, Is("github"), NEW hook, HookOK(hook), Detect(hook), hook.kind = "commit_comment", NEW broken,
           NEW parsed, parsed = GitHub!handleCommitCommentEvent(hook, Forge, Settings, broken),
           parsed.outcome = "event"
    PROVE  DOMAIN parsed.event = EventFields /\ EventOK(hook, parsed.event) /\ EventTells(hook, parsed.event)
<1> DEFINE prefix == Settings.prefix
           asked == [GitHub!NewEvent EXCEPT !.sender = hook.by]
           said == GitHub!SetEventTypeAndTargetPR(asked, hook.comment, prefix)
           comment == GitHub!CommitCommentEvent(hook, prefix)
           now(n) == [comment EXCEPT !.event.number = n]
           cancel == GitHub!IsCancelComment(hook.comment, prefix)
           found == GitHub!getPullRequestsWithCommit(hook.sha, Forge)
<1>1. Is("github") /\ ~Is("gitea") /\ ~Is("bitbucket-cloud")
  BY DEF Is
<1>2. DOMAIN asked = EventFields /\ asked.sender = hook.by
  BY ANewEvent DEF EventFields
<1> HIDE DEF asked
<1>3. said = GitHub!SetEventTypeAndTargetPR(asked, hook.comment, prefix)
  OBVIOUS
<1> HIDE DEF said
<1>4. DOMAIN said = EventFields /\ said.sender = hook.by
      /\ said.type = CommentEventType(hook.comment, prefix)
  BY <1>2, <1>3, WhatCommandsSet
<1>5. \E test, tested, cancelled : comment = GitHub!CommitComment(hook, said, test, cancel, tested, cancelled)
  BY DEF GitHub!CommitCommentEvent, said, asked
<1>6. PICK test, tested, cancelled : comment = GitHub!CommitComment(hook, said, test, cancel, tested, cancelled)
  BY <1>5
<1> HIDE DEF comment, cancel
<1>7. /\ DOMAIN comment = {"error", "branch", "tag", "event"}
      /\ DOMAIN comment.event = EventFields
      /\ comment.event.sender = hook.by /\ comment.event.trigger = "push"
      /\ comment.event.type = CommentEventType(hook.comment, prefix)
      /\ (cancel => comment.event.cancel) /\ comment.event.sha = hook.sha
  BY <1>4, <1>6 DEF GitHub!CommitComment, EventFields
<1>8. ASSUME NEW n
      PROVE  /\ DOMAIN now(n).event = EventFields
             /\ now(n).event.sender = hook.by /\ now(n).event.trigger = "push"
             /\ now(n).event.type = CommentEventType(hook.comment, prefix)
             /\ (cancel => now(n).event.cancel) /\ now(n).event.sha = hook.sha /\ now(n).event.number = n
  BY <1>7 DEF EventFields
<1>9. \E n, ref : /\ parsed.event = [now(n).event EXCEPT !.head = ref, !.base = ref]
                  /\ n \in {GitHub!OneOf({}), GitHub!OneOf(found)}
  <2>1. GitHub!Failed.outcome # "event"
    BY DEF GitHub!Failed
  <2>2. ~(~Settings.configured \/ "commit" \in broken)
    BY <2>1 DEF GitHub!handleCommitCommentEvent
  <2>3. PICK n : /\ parsed = GitHub!OnBranchOrTag(now(n), Forge, broken)
                 /\ n \in {GitHub!OneOf({}), GitHub!OneOf(found)}
    BY <2>2 DEF GitHub!handleCommitCommentEvent, comment
  <2> HIDE DEF now
  <2>4. PICK ref : parsed = GitHub!Parsed([now(n).event EXCEPT !.head = ref, !.base = ref])
    BY <2>1, <2>3 DEF GitHub!OnBranchOrTag
  <2>5. parsed.event = [now(n).event EXCEPT !.head = ref, !.base = ref]
    BY <2>4 DEF GitHub!Parsed
  <2> QED
    BY <2>3, <2>5
<1>10. PICK n, ref : /\ parsed.event = [now(n).event EXCEPT !.head = ref, !.base = ref]
                     /\ n \in {GitHub!OneOf({}), GitHub!OneOf(found)}
  BY <1>9
<1> HIDE DEF now
<1>11. /\ DOMAIN parsed.event = EventFields
       /\ parsed.event.sender = hook.by /\ parsed.event.trigger = "push"
       /\ parsed.event.type = CommentEventType(hook.comment, prefix)
       /\ (cancel => parsed.event.cancel) /\ parsed.event.sha = hook.sha /\ parsed.event.number = n
  BY <1>8, <1>10 DEF EventFields
<1>12. Cancels(hook) => cancel
  <2> SUFFICES ASSUME Cancels(hook) PROVE cancel
    OBVIOUS
  <2>1. GitHub!detectTriggerTypeFromPayload(hook, prefix, Settings) = "cancel"
    BY <1>1 DEF Cancels
  <2>2. GitHub!CommentTrigger(hook, prefix, TRUE) = "cancel"
    BY <2>1 DEF GitHub!detectTriggerTypeFromPayload
  <2> QED
    BY <2>2 DEF GitHub!CommentTrigger, cancel
<1>13. parsed.event.sender = Sender(hook)
  BY <1>1, <1>11 DEF Sender
<1>14. parsed.event.type \in OpsTypes \cup Unasked
  BY <1>11, TypesOfCommands DEF Unasked
<1>15. DOMAIN forge.pulls \subseteq Nat => n \in {0} \cup DOMAIN forge.pulls
  BY <1>10, OneOfThePullRequests
<1>16. EventTells(hook, parsed.event)
  BY <1>11, <1>15 DEF EventTells, ByCommit
<1> QED
  BY <1>11, <1>12, <1>13, <1>14, <1>16 DEF EventOK

\* A run or a suite asked for again: the pull request is one of those listed,
\* or one that the forge has.
LEMMA RequestsOfGitHub ==
    ASSUME setup \in Setups, Is("github"), NEW hook, HookOK(hook), hook.kind \in {"check_suite", "check_run"}, NEW broken,
           NEW listed, listed \in {<<hook.pulls>>, <<hook.pulls, hook.runPulls>>},
           NEW trigger, trigger = "push" => hook.kind = "check_suite",
           NEW parsed, parsed = GitHub!Rerequested(hook, Forge, listed, broken, trigger),
           parsed.outcome = "event"
    PROVE  DOMAIN parsed.event = EventFields /\ EventOK(hook, parsed.event) /\ EventTells(hook, parsed.event)
<1> DEFINE event == parsed.event
           asked == [GitHub!NewEvent EXCEPT !.sha = hook.sha, !.head = hook.ref, !.sender = hook.by]
           of(n) == [asked EXCEPT !.trigger = "pull_request", !.number = n]
           about(n) == GitHub!Parsed(GitHub!populateRunEventFromPullRequest(of(n), n, Forge.pulls[n]))
           pushed == [asked EXCEPT !.base = hook.ref, !.type = "push", !.trigger = trigger]
           found == GitHub!findOpenPullRequestBySHA(hook.sha, Forge)
           the(s) == CHOOSE n \in s : TRUE
           one == GitHub!Parsed(pushed)
           many == \E i \in DOMAIN listed : GitHub!Cardinality(listed[i]) > 1 /\ \A j \in 1..(i-1) : listed[j] = {}
           some == \E i \in DOMAIN listed : listed[i] # {}
           first == listed[GitHub!SelectInSeq(listed, LAMBDA s : s # {})]
<1>1. Is("github") /\ ~Is("gitea") /\ ~Is("bitbucket-cloud")
  BY DEF Is
<1>2. Forge.pulls = forge.pulls
  BY ForgeIsTheForge
<1>3. /\ DOMAIN asked = EventFields /\ asked.sender = hook.by
      /\ asked.number = 0 /\ asked.sameRepo = FALSE /\ asked.sha = hook.sha
  BY ANewEvent DEF EventFields
<1>4. GitHub!Failed.outcome # "event"
  BY DEF GitHub!Failed
<1>5. parsed = IF many THEN GitHub!Failed
               ELSE IF some THEN IF "pull" \in broken THEN GitHub!Failed ELSE about(the(first))
               ELSE IF hook.ref = GitHub!NoRef
                 THEN IF "pulls" \in broken \/ GitHub!Cardinality(found) # 1 THEN GitHub!Failed ELSE about(the(found))
               ELSE one
  BY DEF GitHub!Rerequested
<1> HIDE DEF asked, found, about, one, the, many, some, first
<1>6. \/ some /\ parsed = about(the(first))
      \/ GitHub!Cardinality(found) = 1 /\ parsed = about(the(found))
      \/ parsed = one
  BY <1>4, <1>5
<1>7. ASSUME some PROVE the(first) \in DOMAIN forge.pulls
  <2> DEFINE S == {i \in 1 .. Len(listed) : listed[i] # {}}
             m == CHOOSE x \in S : \A y \in S : x <= y
  <2>1. Len(listed) \in Nat /\ DOMAIN listed = 1 .. Len(listed)
    OBVIOUS
  <2>2. S \in SUBSET Nat /\ S # {}
    BY <2>1, <1>7 DEF some
  <2>3. first = listed[IF S # {} THEN m ELSE 0]
    BY DEF first, GitHub!SelectInSeq, GitHub!Min
  <2> HIDE DEF S
  <2>4. m \in S
    BY <2>2, Smallest
  <2>5. first = listed[m] /\ listed[m] # {} /\ m \in DOMAIN listed
    BY <2>1, <2>2, <2>3, <2>4 DEF S
  <2>7. hook.pulls \cup hook.runPulls \subseteq DOMAIN forge.pulls
    BY DEF HookOK
  <2>6. \A i \in DOMAIN listed : listed[i] \subseteq DOMAIN forge.pulls
    BY <2>7
  <2> QED
    BY <2>5, <2>6 DEF the
<1>8. ASSUME GitHub!Cardinality(found) = 1 PROVE the(found) \in DOMAIN forge.pulls
  <2>1. found \subseteq DOMAIN forge.pulls
    BY <1>2 DEF found, GitHub!findOpenPullRequestBySHA
  <2>2. found # {}
    <3>1. GitHub!Cardinality(found) = Cardinality(found)
      BY DEF GitHub!Cardinality, Cardinality
    <3> QED
      BY <1>8, <3>1, FS_EmptySet
  <2> QED
    BY <2>1, <2>2 DEF the
<1>9. ~Cancels(hook)
  BY <1>1 DEF Cancels, GitHub!detectTriggerTypeFromPayload
<1>10. Sender(hook) = hook.by /\ hook.by # Nobody
  BY <1>1 DEF Sender, HookOK, Nobody
<1>11. ASSUME NEW n \in DOMAIN forge.pulls, parsed = about(n)
       PROVE  DOMAIN event = EventFields /\ EventOK(hook, event) /\ EventTells(hook, event)
  <2> DEFINE with == GitHub!populateRunEventFromPullRequest(of(n), n, forge.pulls[n])
  <2>1. event = with
    BY <1>2, <1>11 DEF about, GitHub!Parsed
  <2>2. /\ DOMAIN of(n) = EventFields /\ of(n).sender = hook.by /\ of(n).number = n
        /\ of(n).trigger = "pull_request" /\ of(n).sha = hook.sha
    BY <1>3 DEF EventFields
  <2> HIDE DEF of
  <2>3. with = GitHub!populateRunEventFromPullRequest(of(n), n, forge.pulls[n])
    OBVIOUS
  <2> HIDE DEF with
  <2>4. of(n).sender # Nobody
    BY <2>2, <1>10
  <2>5. /\ DOMAIN with = EventFields /\ with.sender = hook.by /\ with.number = n
        /\ with.sameRepo = forge.pulls[n].sameRepo /\ with.trigger = "pull_request"
        /\ hook.sha # Nobody => with.sha = hook.sha
    BY <2>2, <2>3, <2>4, WithThePullRequest
  <2>6. with.sameRepo => OfTheRepository(with.number)
    BY <2>5 DEF OfTheRepository
  <2>7. EventTells(hook, with)
    BY <2>5 DEF EventTells
  <2> QED
    BY <2>1, <2>5, <2>6, <2>7, <1>9, <1>10 DEF EventOK
<1>12. ASSUME parsed = one
       PROVE  DOMAIN event = EventFields /\ EventOK(hook, event) /\ EventTells(hook, event)
  <2>1. event = pushed
    BY <1>12 DEF one, GitHub!Parsed
  <2>2. /\ DOMAIN pushed = EventFields /\ pushed.sender = hook.by /\ pushed.number = 0
        /\ pushed.sameRepo = FALSE /\ pushed.trigger = trigger /\ pushed.sha = hook.sha
    BY <1>3 DEF EventFields
  <2> HIDE DEF pushed
  <2>3. EventTells(hook, pushed)
    BY <2>2 DEF EventTells
  <2> QED
    BY <2>1, <2>2, <2>3, <1>9, <1>10 DEF EventOK
<1> QED
  BY <1>6, <1>7, <1>8, <1>11, <1>12

LEMMA EventsOfGitHub ==
    ASSUME setup \in Setups, Is("github"), NEW hook, HookOK(hook), Detect(hook), NEW broken,
           NEW parsed, parsed = GitHub!ParsePayload(hook, Forge, Settings, broken),
           parsed.outcome = "event"
    PROVE  /\ DOMAIN parsed.event = EventFields /\ EventTells(hook, parsed.event)
           /\ hook.kind \notin {"push", "incoming"} => EventOK(hook, parsed.event)
<1> DEFINE found == GitHub!getPullRequestsWithCommit(hook.sha, Forge)
<1>1. Is("github") /\ ~Is("gitlab") /\ ~Is("gitea") /\ ~Is("bitbucket-cloud") /\ ~Is("bitbucket-datacenter")
  BY DEF Is
<1>2. GitHub!Failed.outcome # "event" /\ GitHub!Skipped.outcome # "event"
  BY DEF GitHub!Failed, GitHub!Skipped
<1>3. ~(Settings.app /\ "token" \in broken)
  BY <1>2 DEF GitHub!ParsePayload
<1>4. CASE hook.kind = "push"
  <2>1. parsed = GitHub!processPush(hook, Forge, Settings, broken)
    BY <1>3, <1>4 DEF GitHub!ParsePayload
  <2> DEFINE prs == IF ~Settings.app \/ "pulls" \in broken THEN {} ELSE found
             pushed(k, title) == [GitHub!NewEvent EXCEPT
                     !.number = k, !.sha = hook.sha, !.sender = hook.by, !.head = hook.ref, !.base = hook.ref,
                     !.type = "push", !.trigger = "push", !.titled = TRUE, !.skipTitle = title]
  <2>2. PICK n, title : n = GitHub!OneOf(prs) /\ parsed = GitHub!Parsed(pushed(n, title))
    BY <1>2, <2>1 DEF GitHub!processPush
  <2>4. DOMAIN GitHub!NewEvent = EventFields
    BY ANewEvent
  <2>5. parsed.event = pushed(n, title)
    BY <2>2 DEF GitHub!Parsed
  <2>3. DOMAIN parsed.event = EventFields /\ parsed.event.sha = hook.sha /\ parsed.event.number = n
    BY <2>5, <2>4 DEF EventFields
  <2>6. DOMAIN forge.pulls \subseteq Nat => n \in {0} \cup DOMAIN forge.pulls
    <3>1. prs \in {{}, found}
      OBVIOUS
    <3> HIDE DEF prs
    <3>2. n \in {GitHub!OneOf({}), GitHub!OneOf(found)}
      BY <2>2, <3>1
    <3> QED
      BY <3>2, OneOfThePullRequests
  <2>7. EventTells(hook, parsed.event)
    BY <1>4, <2>3, <2>6 DEF EventTells
  <2> QED
    BY <1>4, <2>3, <2>7
<1>5. CASE hook.kind = "pull_request"
  BY <1>3, <1>5, PullRequestsOfGitHub DEF GitHub!ParsePayload
<1>6. CASE hook.kind = "comment"
  BY <1>3, <1>6, CommentsOfGitHub DEF GitHub!ParsePayload
<1>7. CASE hook.kind = "commit_comment"
  BY <1>2, <1>3, <1>7, CommitCommentsOfGitHub DEF GitHub!ParsePayload
<1>8. CASE hook.kind = "check_suite"
  <2>1. parsed = GitHub!Rerequested(hook, Forge, <<hook.pulls>>, broken, "push")
    BY <1>2, <1>3, <1>8 DEF GitHub!ParsePayload, GitHub!handleCheckSuites
  <2> QED
    BY <1>8, <2>1, RequestsOfGitHub
<1>9. CASE hook.kind = "check_run"
  <2>1. parsed = GitHub!Rerequested(hook, Forge, <<hook.pulls, hook.runPulls>>, broken, Nobody)
    BY <1>2, <1>3, <1>9 DEF GitHub!ParsePayload, GitHub!handleReRequestEvent, Nobody
  <2>2. Nobody # "push"
    BY DEF Nobody
  <2> QED
    BY <1>9, <2>1, <2>2, RequestsOfGitHub
<1>10. hook.kind \in {"push", "pull_request", "comment", "commit_comment", "check_suite", "check_run"}
  <2>1. GitHub!detectTriggerTypeFromPayload(hook, "/", Settings) # ""
    BY <1>1 DEF Detect, GitHub!Detect
  <2> QED
    BY <2>1 DEF GitHub!detectTriggerTypeFromPayload
<1> QED
  BY <1>4, <1>5, <1>6, <1>7, <1>8, <1>9, <1>10

LEMMA EventsOfGitLab ==
    ASSUME Is("gitlab"), NEW hook, HookOK(hook), Detect(hook), NEW broken,
           NEW parsed, parsed = GitLab!ParsePayload(hook, Forge, Settings, broken),
           parsed.outcome = "event"
    PROVE  /\ DOMAIN parsed.event = EventFields /\ EventTells(hook, parsed.event)
           /\ hook.kind \notin {"push", "incoming"} => EventOK(hook, parsed.event)
<1> DEFINE event == parsed.event
           merge == GitLab!ofMergeRequest(hook)
<1>1. Is("gitlab") /\ ~Is("github") /\ ~Is("gitea") /\ ~Is("bitbucket-cloud") /\ ~Is("bitbucket-datacenter")
  BY DEF Is
<1>2. GitLab!Failed.outcome # "event"
  BY DEF GitLab!Failed
<1>3. Sender(hook) = hook.by /\ ~Cancels(hook)
  BY <1>1 DEF Sender, Cancels
<1>4. /\ DOMAIN merge = EventFields /\ merge.sender = hook.by /\ merge.number = hook.number
      /\ merge.sameRepo = FALSE /\ merge.trigger = "pull_request" /\ merge.sha = hook.pull.head
  BY ANewEvent DEF GitLab!ofMergeRequest, EventFields
<1> HIDE DEF merge
<1>5. CASE hook.kind = "push"
  <2>1. parsed = GitLab!processPush(hook, Forge)
    BY <1>5 DEF GitLab!ParsePayload
  <2>2. ~(hook.deleted \/ (~hook.commits /\ ~GitLab!isBranchCreationPayload(hook)))
    BY <1>2, <2>1 DEF GitLab!processPush
  <2>4. DOMAIN GitLab!NewEvent = EventFields
    BY ANewEvent
  <2> DEFINE tag == hook.ref.form = "tags"
             pushed ==
               [GitLab!NewEvent EXCEPT
                     !.sha = hook.sha, !.sender = hook.by, !.head = hook.ref, !.base = hook.ref,
                     !.trigger = "push", !.type = IF tag THEN "Tag Push" ELSE "push",
                     !.titled = hook.commits, !.incomplete = ~hook.commits,
                     !.skipTitle = hook.commits /\ GitLab!SkipCI(Forge.message[hook.sha], FALSE)]
  <2>5. parsed = GitLab!Parsed(pushed)
    BY <2>1, <2>2 DEF GitLab!processPush
  <2>6. DOMAIN pushed = EventFields /\ pushed.sha = hook.sha /\ pushed.number = 0
    BY <2>4, NothingIsKnownYet DEF EventFields
  <2> HIDE DEF pushed
  <2>3. DOMAIN event = EventFields /\ event.sha = hook.sha /\ event.number = 0
    BY <2>5, <2>6 DEF GitLab!Parsed
  <2>7. EventTells(hook, event)
    BY <1>5, <2>3 DEF EventTells
  <2> QED
    BY <1>5, <2>3, <2>7
<1>6. CASE hook.kind = "pull_request"
  <2>1. \E skip, type, labels : event = [merge EXCEPT !.labels = labels, !.skip = skip, !.type = type,
            !.trigger = IF hook.action = "closed" THEN "pull_request_closed" ELSE @]
    BY <1>6 DEF GitLab!ParsePayload, GitLab!processMergeEvent, GitLab!Parsed, merge
  <2>2. /\ DOMAIN event = EventFields /\ event.sender = hook.by /\ event.number = hook.number
        /\ event.sameRepo = FALSE /\ event.trigger # "push" /\ event.sha = hook.pull.head
    BY <1>4, <2>1 DEF EventFields
  <2> QED
    BY <1>3, <1>6, <2>2 DEF EventOK, EventTells, ByCommit
<1>7. CASE hook.kind = "comment"
  <2>1. event = GitLab!SetEventTypeAndTargetPR(merge, hook.comment, "/")
    BY <1>7 DEF GitLab!ParsePayload, GitLab!Parsed, merge
  <2>2. /\ DOMAIN event = EventFields /\ event.sender = hook.by /\ event.number = hook.number
        /\ event.trigger # "push" /\ event.sha = hook.pull.head
    BY <1>4, <2>1, WhatCommandsSet
  <2>3. EventTells(hook, event)
    BY <1>1, <1>7, <2>2 DEF EventTells, ByCommit
  <2> QED
    BY <1>3, <1>7, <2>2, <2>3 DEF EventOK
<1>8. CASE hook.kind = "commit_comment"
  <2> DEFINE asked == [GitLab!NewEvent EXCEPT !.sender = hook.by]
             said == GitLab!SetEventTypeAndTargetPR(asked, hook.comment, "/")
             comment == GitLab!CommitCommentEvent(hook, "/")
  <2>1. DOMAIN asked = EventFields /\ asked.sender = hook.by /\ asked.number = 0
    BY ANewEvent, NothingIsKnownYet DEF EventFields
  <2> HIDE DEF asked
  <2>2. said = GitLab!SetEventTypeAndTargetPR(asked, hook.comment, "/")
    OBVIOUS
  <2> HIDE DEF said
  <2>3. DOMAIN said = EventFields /\ said.sender = hook.by /\ said.type = CommentEventType(hook.comment, "/")
        /\ said.number = 0
    BY <2>1, <2>2, WhatCommandsSet
  <2>4. PICK test, cancel, tested, cancelled :
          comment = GitLab!CommitComment(hook, said, test, cancel, tested, cancelled)
    BY DEF GitLab!CommitCommentEvent, said, asked
  <2>5. parsed = GitLab!OnBranchOrTag(comment, Forge, broken)
    BY <1>2, <1>8 DEF GitLab!ParsePayload, GitLab!handleCommitCommentEvent
  <2> HIDE DEF comment
  <2>6. /\ DOMAIN comment.event = EventFields
        /\ comment.event.sender = hook.by
        /\ comment.event.type = CommentEventType(hook.comment, "/")
        /\ comment.event.sha = hook.sha /\ comment.event.number = 0
    BY <2>3, <2>4 DEF GitLab!CommitComment, EventFields
  <2>7. PICK ref : parsed = GitLab!Parsed([comment.event EXCEPT !.head = ref, !.base = ref])
    BY <1>2, <2>5 DEF GitLab!OnBranchOrTag
  <2>8. event = [comment.event EXCEPT !.head = ref, !.base = ref]
    BY <2>7 DEF GitLab!Parsed
  <2>9. /\ DOMAIN event = EventFields /\ event.sender = hook.by
        /\ event.type = CommentEventType(hook.comment, "/") /\ event.sha = hook.sha /\ event.number = 0
    BY <2>6, <2>8 DEF EventFields
  <2>10. event.type \in OpsTypes \cup Unasked
    BY <2>9, TypesOfCommands DEF Unasked
  <2>11. EventTells(hook, event)
    BY <1>8, <2>9 DEF EventTells
  <2> QED
    BY <1>3, <1>8, <2>9, <2>10, <2>11 DEF EventOK
<1>9. hook.kind \in {"push", "pull_request", "comment", "commit_comment"}
  BY <1>1 DEF Detect, GitLab!Detect
<1> QED
  BY <1>5, <1>6, <1>7, <1>8, <1>9

LEMMA EventsOfGitea ==
    ASSUME Is("gitea"), NEW hook, HookOK(hook), Detect(hook), NEW broken,
           NEW parsed, parsed = Gitea!ParsePayload(hook, Forge, Settings, broken),
           parsed.outcome = "event"
    PROVE  /\ DOMAIN parsed.event = EventFields /\ EventTells(hook, parsed.event)
           /\ hook.kind \notin {"push", "incoming"} => EventOK(hook, parsed.event)
<1> DEFINE event == parsed.event
<1>1. Is("gitea") /\ ~Is("gitlab") /\ ~Is("github") /\ ~Is("bitbucket-cloud") /\ ~Is("bitbucket-datacenter")
  BY DEF Is
<1>2. Gitea!Failed.outcome # "event"
  BY DEF Gitea!Failed
<1>3. Sender(hook) = hook.by
  BY <1>1 DEF Sender
<1>4. DOMAIN Gitea!NewEvent = EventFields /\ Gitea!NewEvent.sameRepo = FALSE
  BY ANewEvent
<1>5. Cancels(hook) => Gitea!detectTriggerTypeFromPayload(hook) = "cancel"
  BY <1>1 DEF Cancels
<1>6. CASE hook.kind = "push"
  <2> DEFINE pushed ==
               [Gitea!NewEvent EXCEPT
                  !.sha = hook.sha, !.sender = hook.by, !.head = hook.ref, !.base = hook.ref,
                  !.type = "push", !.trigger = "push", !.titled = ~hook.deleted,
                  !.skipTitle = ~hook.deleted /\ Gitea!SkipCI(Forge.message[hook.sha], TRUE)]
  <2>1. parsed = Gitea!Parsed(pushed)
    BY <1>6 DEF Gitea!ParsePayload, Gitea!processPush
  <2>2. DOMAIN pushed = EventFields /\ pushed.sha = hook.sha /\ pushed.number = 0
    BY <1>4, NothingIsKnownYet DEF EventFields
  <2> HIDE DEF pushed
  <2>3. DOMAIN event = EventFields /\ event.sha = hook.sha /\ event.number = 0
    BY <2>1, <2>2 DEF Gitea!Parsed
  <2>4. EventTells(hook, event)
    BY <1>6, <2>3 DEF EventTells
  <2> QED
    BY <1>6, <2>3, <2>4
<1>7. CASE hook.kind = "pull_request"
  <2> DEFINE with == Gitea!populateEventFromGiteaPullRequest(Gitea!NewEvent, hook)
  <2>1. /\ DOMAIN with = EventFields /\ with.sender = hook.by /\ with.number = hook.number
        /\ with.sameRepo = FALSE /\ with.sha = hook.pull.head
    BY <1>4 DEF Gitea!populateEventFromGiteaPullRequest, EventFields
  <2> HIDE DEF with
  <2>2. PICK labels, type : event = [with EXCEPT !.labels = labels, !.type = type,
            !.trigger = IF hook.action = "closed" THEN "pull_request_closed" ELSE "pull_request"]
    BY <1>7 DEF Gitea!ParsePayload, Gitea!processPullRequest, Gitea!Parsed, with
  <2>3. /\ DOMAIN event = EventFields /\ event.sender = hook.by /\ event.number = hook.number
        /\ event.sameRepo = FALSE /\ event.trigger # "push" /\ event.sha = hook.pull.head
    BY <2>1, <2>2 DEF EventFields
  <2>4. ~Cancels(hook)
    BY <1>5, <1>7 DEF Gitea!detectTriggerTypeFromPayload
  <2> QED
    BY <1>3, <1>7, <2>3, <2>4 DEF EventOK, EventTells, ByCommit
<1>8. CASE hook.kind = "comment"
  <2> DEFINE said == Gitea!SetEventTypeAndTargetPR(Gitea!NewEvent, hook.comment, "/")
             with == Gitea!populateEventFromGiteaPullRequest(said, hook)
  <2>1. said = Gitea!SetEventTypeAndTargetPR(Gitea!NewEvent, hook.comment, "/")
    OBVIOUS
  <2> HIDE DEF said
  <2>2. /\ DOMAIN said = EventFields /\ said.type = CommentEventType(hook.comment, "/")
        /\ said.type \in {"cancel-all-comment", "cancel-comment"} => said.cancel
    BY <1>4, <2>1, WhatCommandsSet
  <2>3. /\ DOMAIN with = EventFields /\ with.sender = hook.by /\ with.number = hook.number
        /\ with.cancel = said.cancel /\ with.sha = hook.pull.head
    BY <2>2 DEF Gitea!populateEventFromGiteaPullRequest, EventFields
  <2> HIDE DEF with
  <2>4. event = [with EXCEPT !.trigger = "pull_request"] /\ hook.number # 0
    BY <1>2, <1>8 DEF Gitea!ParsePayload, Gitea!Parsed, with, said
  <2>5. /\ DOMAIN event = EventFields /\ event.sender = hook.by /\ event.number = hook.number
        /\ event.trigger # "push" /\ event.cancel = said.cancel
        /\ event.sha = hook.pull.head
    BY <2>3, <2>4 DEF EventFields
  <2>6. ASSUME Cancels(hook) PROVE event.cancel
    <3>1. Gitea!detectTriggerTypeFromPayload(hook) = "cancel"
      BY <1>5, <2>6
    <3>2. /\ ~Gitea!IsTestRetestComment(hook.comment, "/")
          /\ ~Gitea!IsOkToTestComment(hook.comment, "/")
          /\ Gitea!IsCancelComment(hook.comment, "/")
      BY <1>8, <3>1 DEF Gitea!detectTriggerTypeFromPayload
    <3>3. ~IsTestRetestComment(hook.comment, "/") /\ ~IsOkToTestComment(hook.comment, "/")
          /\ IsCancelComment(hook.comment, "/")
      BY <3>2, TheSameTests, TheSameCommands
    <3> QED
      BY <3>3, <2>2, <2>5, TypesOfCommands
  <2>7. EventTells(hook, event)
    BY <1>1, <1>8, <2>4, <2>5 DEF EventTells, ByCommit
  <2> QED
    BY <1>3, <1>8, <2>5, <2>6, <2>7 DEF EventOK
<1>9. hook.kind \in {"push", "pull_request", "comment"}
  <2>1. Gitea!detectTriggerTypeFromPayload(hook) # ""
    BY <1>1 DEF Detect, Gitea!Detect
  <2> QED
    BY <2>1 DEF Gitea!detectTriggerTypeFromPayload
<1> QED
  BY <1>6, <1>7, <1>8, <1>9

LEMMA EventsOfBitbucketCloud ==
    ASSUME Is("bitbucket-cloud"), NEW hook, HookOK(hook), Detect(hook), NEW broken,
           NEW parsed, parsed = BitbucketCloud!ParsePayload(hook, Forge, Settings, broken),
           parsed.outcome = "event"
    PROVE  /\ DOMAIN parsed.event = EventFields /\ EventTells(hook, parsed.event)
           /\ hook.kind \notin {"push", "incoming"} => EventOK(hook, parsed.event)
<1> DEFINE event == parsed.event
           said == BitbucketCloud!SetEventTypeAndTargetPR(BitbucketCloud!NewEvent, hook.comment, "/")
           typed == [BitbucketCloud!NewEvent EXCEPT
                       !.type = IF hook.action = "closed" THEN "pull_request_closed" ELSE "pull_request"]
           start == IF hook.kind = "comment" THEN said ELSE typed
           request == [start EXCEPT
                    !.trigger = IF hook.action = "closed" THEN "pull_request_closed" ELSE "pull_request",
                    !.number = hook.number, !.sha = hook.pull.head, !.sender = hook.pull.author,
                    !.head = hook.pull.branch, !.base = hook.pull.base]
<1>1. Is("bitbucket-cloud") /\ ~Is("gitlab") /\ ~Is("github") /\ ~Is("gitea") /\ ~Is("bitbucket-datacenter")
  BY DEF Is
<1>2. BitbucketCloud!Failed.outcome # "event"
  BY DEF BitbucketCloud!Failed
<1>3. ~Cancels(hook)
  BY <1>1 DEF Cancels
<1>4. DOMAIN BitbucketCloud!NewEvent = EventFields /\ BitbucketCloud!NewEvent.sameRepo = FALSE
  BY ANewEvent
<1>5. hook.kind \in {"push", "pull_request", "comment"}
  BY <1>1 DEF Detect, BitbucketCloud!Detect
<1>6. parsed = BitbucketCloud!Parsed(IF hook.kind = "push" THEN BitbucketCloud!processPush(hook)
                                                       ELSE BitbucketCloud!processPullRequest(hook))
  BY <1>2 DEF BitbucketCloud!ParsePayload
<1>7. event = IF hook.kind = "push" THEN BitbucketCloud!processPush(hook)
                                   ELSE BitbucketCloud!processPullRequest(hook)
  BY <1>6 DEF BitbucketCloud!Parsed
<1>8. CASE hook.kind = "push"
  <2>1. DOMAIN event = EventFields /\ event.sha = hook.sha /\ event.number = 0
    BY <1>4, <1>7, <1>8, NothingIsKnownYet DEF BitbucketCloud!processPush, EventFields
  <2>2. EventTells(hook, event)
    BY <1>8, <2>1 DEF EventTells
  <2> QED
    BY <1>8, <2>1, <2>2
<1>9. CASE hook.kind \in {"pull_request", "comment"}
  <2>1. event = request
    BY <1>7, <1>9 DEF BitbucketCloud!processPullRequest
  <2>2. DOMAIN said = EventFields
    BY <1>4 DEF BitbucketCloud!SetEventTypeAndTargetPR, BitbucketCloud!OfType
  <2>3. DOMAIN typed = EventFields /\ typed.sameRepo = FALSE
    BY <1>4 DEF EventFields
  <2> HIDE DEF said, typed
  <2>4. DOMAIN start = EventFields /\ (hook.kind = "pull_request" => start.sameRepo = FALSE)
    BY <2>2, <2>3
  <2> HIDE DEF start
  <2>5. /\ DOMAIN request = EventFields /\ request.sender = hook.pull.author /\ request.number = hook.number
        /\ hook.kind = "pull_request" => request.sameRepo = FALSE
        /\ request.trigger # "push" /\ request.sha = hook.pull.head
    BY <2>4 DEF EventFields
  <2> HIDE DEF request
  <2>6. Sender(hook) = hook.pull.author
    BY <1>1, <1>9 DEF Sender
  <2>7. EventTells(hook, event)
    BY <1>1, <1>9, <2>1, <2>5 DEF EventTells, ByCommit
  <2> QED
    BY <1>3, <1>9, <2>1, <2>5, <2>6, <2>7 DEF EventOK
<1> QED
  BY <1>5, <1>8, <1>9

LEMMA EventsOfBitbucketDataCenter ==
    ASSUME Is("bitbucket-datacenter"), NEW hook, HookOK(hook), Detect(hook), NEW broken,
           NEW parsed, parsed = BitbucketDataCenter!ParsePayload(hook, Forge, Settings, broken),
           parsed.outcome = "event"
    PROVE  /\ DOMAIN parsed.event = EventFields /\ EventTells(hook, parsed.event)
           /\ hook.kind \notin {"push", "incoming"} => EventOK(hook, parsed.event)
<1> DEFINE event == parsed.event
           said == BitbucketDataCenter!SetEventTypeAndTargetPR(BitbucketDataCenter!NewEvent, hook.comment, "/")
           typed == [BitbucketDataCenter!NewEvent EXCEPT !.type = "pull_request"]
           start == IF hook.kind = "comment" THEN said ELSE typed
           request == [start EXCEPT !.trigger = "pull_request", !.number = hook.number,
                                !.sha = hook.pull.head, !.sender = hook.by,
                                !.head = hook.pull.branch, !.base = hook.pull.base]
           pushed == [BitbucketDataCenter!NewEvent EXCEPT !.trigger = "push", !.type = "push", !.sha = hook.sha,
                               !.sender = hook.by, !.head = hook.ref, !.base = hook.ref]
<1>1. Is("bitbucket-datacenter") /\ ~Is("gitlab") /\ ~Is("github") /\ ~Is("gitea") /\ ~Is("bitbucket-cloud")
  BY DEF Is
<1>2. BitbucketDataCenter!Failed.outcome # "event"
  BY DEF BitbucketDataCenter!Failed
<1>3. ~Cancels(hook)
  BY <1>1 DEF Cancels
<1>4. DOMAIN BitbucketDataCenter!NewEvent = EventFields /\ BitbucketDataCenter!NewEvent.sameRepo = FALSE
  BY ANewEvent
<1>5. hook.kind \in {"push", "pull_request", "comment"}
  BY <1>1 DEF Detect, BitbucketDataCenter!Detect
<1>8. CASE hook.kind = "push"
  <2>1. parsed = BitbucketDataCenter!Parsed(pushed)
    BY <1>2, <1>8 DEF BitbucketDataCenter!ParsePayload, BitbucketDataCenter!processPush
  <2>2. DOMAIN pushed = EventFields /\ pushed.sha = hook.sha /\ pushed.number = 0
    BY <1>4, NothingIsKnownYet DEF EventFields
  <2> HIDE DEF pushed
  <2>3. event = pushed
    BY <2>1 DEF BitbucketDataCenter!Parsed
  <2>4. EventTells(hook, event)
    BY <1>8, <2>2, <2>3 DEF EventTells
  <2> QED
    BY <1>8, <2>2, <2>3, <2>4
<1>9. CASE hook.kind \in {"pull_request", "comment"}
  <2>1. parsed = BitbucketDataCenter!Parsed(request)
    BY <1>2, <1>9 DEF BitbucketDataCenter!ParsePayload, BitbucketDataCenter!processPullRequest
  <2>2. DOMAIN said = EventFields
    BY <1>4 DEF BitbucketDataCenter!SetEventTypeAndTargetPR, BitbucketDataCenter!OfType
  <2>3. DOMAIN typed = EventFields /\ typed.sameRepo = FALSE
    BY <1>4 DEF EventFields
  <2> HIDE DEF said, typed
  <2>4. DOMAIN start = EventFields /\ (hook.kind = "pull_request" => start.sameRepo = FALSE)
    BY <2>2, <2>3
  <2> HIDE DEF start
  <2>5. /\ DOMAIN request = EventFields /\ request.sender = hook.by /\ request.number = hook.number
        /\ hook.kind = "pull_request" => request.sameRepo = FALSE
        /\ request.trigger # "push" /\ request.sha = hook.pull.head
    BY <2>4 DEF EventFields
  <2> HIDE DEF request
  <2>6. event = request
    BY <2>1 DEF BitbucketDataCenter!Parsed
  <2>7. Sender(hook) = hook.by
    BY <1>1 DEF Sender
  <2>8. EventTells(hook, event)
    BY <1>1, <1>9, <2>5, <2>6 DEF EventTells, ByCommit
  <2> QED
    BY <1>3, <1>9, <2>5, <2>6, <2>7, <2>8 DEF EventOK
<1> QED
  BY <1>5, <1>8, <1>9

\* What the provider makes of a hook, and of the commit it asks for.
LEMMA EventsOfHooks ==
    ASSUME setup \in Setups, NEW hook, HookOK(hook), Detect(hook), NEW broken,
           NEW parsed, parsed = ParsePayload(hook, broken), parsed.outcome = "event"
    PROVE  /\ DOMAIN parsed.event = EventFields /\ EventTells(hook, parsed.event)
           /\ hook.kind \notin {"push", "incoming"} => EventOK(hook, parsed.event)
<1>1. CASE Is("github")
  <2>1. parsed = GitHub!ParsePayload(hook, Forge, Settings, broken)
    BY <1>1 DEF ParsePayload, Is
  <2> QED
    BY <1>1, <2>1, EventsOfGitHub
<1>2. CASE Is("gitlab")
  <2>1. parsed = GitLab!ParsePayload(hook, Forge, Settings, broken)
    BY <1>2 DEF ParsePayload, Is
  <2> QED
    BY <1>2, <2>1, EventsOfGitLab
<1>3. CASE Is("gitea")
  <2>1. parsed = Gitea!ParsePayload(hook, Forge, Settings, broken)
    BY <1>3 DEF ParsePayload, Is
  <2> QED
    BY <1>3, <2>1, EventsOfGitea
<1>4. CASE Is("bitbucket-cloud")
  <2>1. parsed = BitbucketCloud!ParsePayload(hook, Forge, Settings, broken)
    BY <1>4 DEF ParsePayload, Is
  <2> QED
    BY <1>4, <2>1, EventsOfBitbucketCloud
<1>5. CASE Is("bitbucket-datacenter")
  <2>1. parsed = BitbucketDataCenter!ParsePayload(hook, Forge, Settings, broken)
    BY <1>5 DEF ParsePayload, Is
  <2> QED
    BY <1>5, <2>1, EventsOfBitbucketDataCenter
<1> QED
  BY <1>1, <1>2, <1>3, <1>4, <1>5, IntakeAssumption DEF Is

LEMMA CommitInfoTellsOfTheCommit ==
    ASSUME setup \in Setups, NEW event, DOMAIN event = EventFields, NEW now, now = GetCommitInfo(event)
    PROVE  /\ DOMAIN now = EventFields
           /\ now.sender = event.sender /\ now.number = event.number /\ now.sameRepo = event.sameRepo
           /\ now.trigger = event.trigger /\ now.type = event.type /\ now.cancel = event.cancel
<1>1. \/ now = event
      \/ \E a, b, c, d : now = [[event EXCEPT !.sha = a] EXCEPT !.titled = b, !.skipTitle = c, !.skip = d]
      \/ \E a, b, c, d, e :
           now = [[[event EXCEPT !.sha = a] EXCEPT !.titled = b, !.skipTitle = c, !.skip = d] EXCEPT !.incomplete = e]
      \/ \E b, c, d : now = [event EXCEPT !.titled = b, !.skipTitle = c, !.skip = d]
  <2>1. CASE Is("github")
    BY <2>1, ZenonT(60) DEF GetCommitInfo, Is, GitHub!GetCommitInfo, GitHub!WithCommitInfo
  <2>2. CASE Is("gitlab")
    BY <2>2, ZenonT(60) DEF GetCommitInfo, Is, GitLab!GetCommitInfo, GitLab!WithCommitInfo
  <2>3. CASE Is("gitea")
    BY <2>3, ZenonT(60) DEF GetCommitInfo, Is, Gitea!GetCommitInfo, Gitea!WithCommitInfo
  <2>4. CASE Is("bitbucket-cloud")
    BY <2>4, ZenonT(60) DEF GetCommitInfo, Is, BitbucketCloud!GetCommitInfo, BitbucketCloud!WithCommitInfo
  <2>5. CASE Is("bitbucket-datacenter")
    BY <2>5 DEF GetCommitInfo, Is, BitbucketDataCenter!GetCommitInfo, BitbucketDataCenter!WithCommitInfo
  <2> QED
    BY <2>1, <2>2, <2>3, <2>4, <2>5, IntakeAssumption, ZenonT(60) DEF Is
<1> QED
  BY <1>1, ZenonT(60) DEF EventFields

\* The commit is only looked for when none is known.
LEMMA TheCommitStays ==
    ASSUME setup \in Setups, NEW event, DOMAIN event = EventFields, event.sha # Nobody
    PROVE  GetCommitInfo(event).sha = event.sha
<1> DEFINE asked == [event EXCEPT !.sha = IF event.sha = "" THEN Forge.branches[event.head.name] ELSE event.sha]
<1>1. DOMAIN asked = EventFields /\ asked.sha = event.sha
  BY DEF Nobody, EventFields
<1> HIDE DEF asked
<1>2. CASE Is("github")
  <2>1. GetCommitInfo(event) = GitHub!WithCommitInfo(asked, Forge)
    BY <1>2 DEF GetCommitInfo, Is, GitHub!GetCommitInfo, asked
  <2> QED
    BY <1>1, <2>1 DEF GitHub!WithCommitInfo, EventFields
<1>3. CASE Is("gitlab")
  <2> DEFINE with == GitLab!WithCommitInfo(asked, Forge)
  <2>1. GetCommitInfo(event) \in {event, [with EXCEPT !.incomplete = FALSE]}
    BY <1>3 DEF GetCommitInfo, Is, GitLab!GetCommitInfo, asked
  <2>2. DOMAIN with = EventFields /\ with.sha = event.sha
    BY <1>1 DEF GitLab!WithCommitInfo, EventFields
  <2> HIDE DEF with
  <2> QED
    BY <2>1, <2>2 DEF EventFields
<1>4. CASE Is("gitea")
  <2>1. GetCommitInfo(event) = Gitea!WithCommitInfo(asked, Forge)
    BY <1>4 DEF GetCommitInfo, Is, Gitea!GetCommitInfo, asked
  <2> QED
    BY <1>1, <2>1 DEF Gitea!WithCommitInfo, EventFields
<1>5. CASE Is("bitbucket-cloud")
  <2>1. GetCommitInfo(event) = BitbucketCloud!WithCommitInfo(asked, Forge)
    BY <1>5 DEF GetCommitInfo, Is, BitbucketCloud!GetCommitInfo, asked
  <2> QED
    BY <1>1, <2>1 DEF BitbucketCloud!WithCommitInfo, EventFields
<1>6. CASE Is("bitbucket-datacenter")
  <2>1. GetCommitInfo(event) = BitbucketDataCenter!WithCommitInfo(event, Forge)
    BY <1>6 DEF GetCommitInfo, Is, BitbucketDataCenter!GetCommitInfo
  <2> QED
    BY <2>1 DEF BitbucketDataCenter!WithCommitInfo, EventFields
<1> QED
  BY <1>2, <1>3, <1>4, <1>5, <1>6, IntakeAssumption DEF Is

\* Only a comment is answered at once: with what it lacks, by GitHub.
LEMMA OnlyCommentsAreAnswered ==
    ASSUME setup \in Setups, NEW hook, Detect(hook), NEW broken, NEW parsed, parsed = ParsePayload(hook, broken), parsed.reply
    PROVE  hook.kind = "comment"
<1>1. CASE Is("github")
  <2>1. parsed = GitHub!ParsePayload(hook, Forge, Settings, broken)
    BY <1>1 DEF ParsePayload, Is
  <2>2. ~GitHub!Failed.reply /\ ~GitHub!Skipped.reply /\ \A e : ~GitHub!Parsed(e).reply
    BY DEF GitHub!Failed, GitHub!Skipped, GitHub!Parsed
  <2>3. ~(Settings.app /\ "token" \in broken)
    BY <2>1, <2>2 DEF GitHub!ParsePayload
  <2>4. ASSUME hook.kind = "push" PROVE FALSE
    <3>1. ~GitHub!processPush(hook, Forge, Settings, broken).reply
      BY <2>2 DEF GitHub!processPush
    <3> QED
      BY <2>1, <2>3, <2>4, <3>1 DEF GitHub!ParsePayload
  <2>5. ASSUME hook.kind = "pull_request" PROVE FALSE
    <3>1. ~GitHub!processPullRequest(hook).reply
      BY <2>2 DEF GitHub!processPullRequest
    <3> QED
      BY <2>1, <2>3, <2>5, <3>1 DEF GitHub!ParsePayload
  <2>6. ASSUME hook.kind = "commit_comment" PROVE FALSE
    <3>1. \A said : ~GitHub!OnBranchOrTag(said, Forge, broken).reply
      BY <2>2 DEF GitHub!OnBranchOrTag
    <3>2. ~GitHub!handleCommitCommentEvent(hook, Forge, Settings, broken).reply
      BY <2>2, <3>1 DEF GitHub!handleCommitCommentEvent
    <3> QED
      BY <2>1, <2>2, <2>3, <2>6, <3>2 DEF GitHub!ParsePayload
  <2>7. \A listed, trigger : ~GitHub!Rerequested(hook, Forge, listed, broken, trigger).reply
    BY <2>2 DEF GitHub!Rerequested
  <2>8. ASSUME hook.kind = "check_suite" PROVE FALSE
    BY <2>1, <2>2, <2>3, <2>7, <2>8 DEF GitHub!ParsePayload, GitHub!handleCheckSuites
  <2>9. ASSUME hook.kind = "check_run" PROVE FALSE
    BY <2>1, <2>2, <2>3, <2>7, <2>9 DEF GitHub!ParsePayload, GitHub!handleReRequestEvent
  <2> QED
    BY <2>1, <2>2, <2>3, <2>4, <2>5, <2>6, <2>8, <2>9 DEF GitHub!ParsePayload
<1>2. CASE Is("gitlab")
  <2>1. parsed = GitLab!ParsePayload(hook, Forge, Settings, broken)
    BY <1>2 DEF ParsePayload, Is
  <2>2. ~GitLab!Failed.reply /\ \A e : ~GitLab!Parsed(e).reply
    BY DEF GitLab!Failed, GitLab!Parsed
  <2>3. \A said : ~GitLab!OnBranchOrTag(said, Forge, broken).reply
    BY <2>2 DEF GitLab!OnBranchOrTag
  <2>4. ~GitLab!handleCommitCommentEvent(hook, Forge, Settings, broken).reply
    BY <2>2, <2>3 DEF GitLab!handleCommitCommentEvent
  <2>5. ~GitLab!processMergeEvent(hook, Forge).reply /\ ~GitLab!processPush(hook, Forge).reply
    BY <2>2 DEF GitLab!processMergeEvent, GitLab!processPush
  <2> QED
    BY <2>1, <2>2, <2>4, <2>5 DEF GitLab!ParsePayload
<1>3. CASE Is("gitea")
  <2>1. parsed = Gitea!ParsePayload(hook, Forge, Settings, broken)
    BY <1>3 DEF ParsePayload, Is
  <2>2. ~Gitea!Failed.reply /\ \A e : ~Gitea!Parsed(e).reply
    BY DEF Gitea!Failed, Gitea!Parsed
  <2>3. ~Gitea!processPullRequest(hook).reply /\ ~Gitea!processPush(hook, Forge).reply
    BY <2>2 DEF Gitea!processPullRequest, Gitea!processPush
  <2> QED
    BY <2>1, <2>2, <2>3 DEF Gitea!ParsePayload
<1>4. CASE Is("bitbucket-cloud")
  <2>1. parsed = BitbucketCloud!ParsePayload(hook, Forge, Settings, broken)
    BY <1>4 DEF ParsePayload, Is
  <2>2. ~BitbucketCloud!Failed.reply /\ \A e : ~BitbucketCloud!Parsed(e).reply
    BY DEF BitbucketCloud!Failed, BitbucketCloud!Parsed
  <2> QED
    BY <2>1, <2>2 DEF BitbucketCloud!ParsePayload
<1>5. CASE Is("bitbucket-datacenter")
  <2>1. parsed = BitbucketDataCenter!ParsePayload(hook, Forge, Settings, broken)
    BY <1>5 DEF ParsePayload, Is
  <2>2. ~BitbucketDataCenter!Failed.reply /\ \A e : ~BitbucketDataCenter!Parsed(e).reply
    BY DEF BitbucketDataCenter!Failed, BitbucketDataCenter!Parsed
  <2>3. ~BitbucketDataCenter!processPush(hook).reply /\ ~BitbucketDataCenter!processPullRequest(hook).reply
    BY <2>2 DEF BitbucketDataCenter!processPush, BitbucketDataCenter!processPullRequest
  <2> QED
    BY <2>1, <2>3 DEF BitbucketDataCenter!ParsePayload
<1> QED
  BY <1>1, <1>2, <1>3, <1>4, <1>5, IntakeAssumption DEF Is

\* Where the definitions are: at the commit, or at the head of the default branch.
LEMMA WhereDefinitionsAre ==
    ASSUME setup \in Setups, ForgeTells, NEW event
    PROVE  /\ FromOK(event.sha, GetTektonDir(event).from)
           /\ GetTektonDir(event).byBranch => Settings.provenance # "source"
<1> DEFINE at == IF Settings.provenance = "source" THEN event.sha ELSE Forge.branches[DefaultBranch]
<1>1. FromOK(event.sha, at)
  BY ForgeIsTheForge DEF FromOK, ForgeTells
<1>2. CASE Is("github")
  <2>1. GetTektonDir(event) = GitHub!GetTektonDir(event, Forge, Settings.provenance)
    BY <1>2 DEF GetTektonDir, Is
  <2> QED
    BY <1>1, <2>1 DEF GitHub!GetTektonDir, GitHub!TektonRevision, GitHub!DefaultBranch, DefaultBranch
<1>3. CASE Is("gitlab")
  <2>1. GetTektonDir(event) = GitLab!GetTektonDir(event, Forge, Settings.provenance)
    BY <1>3 DEF GetTektonDir, Is
  <2>2. GetTektonDir(event).from = at
    BY <2>1 DEF GitLab!GetTektonDir, GitLab!TektonRevision, GitLab!DefaultBranch, DefaultBranch
  <2>3. GetTektonDir(event).byBranch => Settings.provenance # "source"
    <3>1. PICK b : b = (Settings.provenance = "default_branch")
      OBVIOUS
    <3>2. \E f : GetTektonDir(event) = [from |-> f, byBranch |-> b]
      BY <2>1, <3>1, Zenon DEF GitLab!GetTektonDir
    <3>3. GetTektonDir(event).byBranch = b
      BY <3>2
    <3> QED
      BY <3>1, <3>3, Zenon
  <2> QED
    BY <1>1, <2>2, <2>3
<1>4. CASE Is("gitea")
  <2>1. GetTektonDir(event) = Gitea!GetTektonDir(event, Forge, Settings.provenance)
    BY <1>4 DEF GetTektonDir, Is
  <2> QED
    BY <1>1, <2>1 DEF Gitea!GetTektonDir, Gitea!TektonRevision, Gitea!DefaultBranch, DefaultBranch
<1>5. CASE Is("bitbucket-cloud")
  <2>1. GetTektonDir(event) = BitbucketCloud!GetTektonDir(event, Forge, Settings.provenance)
    BY <1>5 DEF GetTektonDir, Is
  <2>2. GetTektonDir(event).from = at
    BY <2>1 DEF BitbucketCloud!GetTektonDir, BitbucketCloud!TektonRevision, BitbucketCloud!DefaultBranch, DefaultBranch
  <2>3. GetTektonDir(event).byBranch => Settings.provenance # "source"
    <3>1. PICK b : b = (Settings.provenance = "default_branch")
      OBVIOUS
    <3>2. \E f : GetTektonDir(event) = [from |-> f, byBranch |-> b]
      BY <2>1, <3>1, Zenon DEF BitbucketCloud!GetTektonDir
    <3>3. GetTektonDir(event).byBranch = b
      BY <3>2
    <3> QED
      BY <3>1, <3>3, Zenon
  <2> QED
    BY <1>1, <2>2, <2>3
<1>6. CASE Is("bitbucket-datacenter")
  <2>1. GetTektonDir(event) = BitbucketDataCenter!GetTektonDir(event, Forge, Settings.provenance)
    BY <1>6 DEF GetTektonDir, Is
  <2>2. GetTektonDir(event).from = at
    BY <2>1 DEF BitbucketDataCenter!GetTektonDir, BitbucketDataCenter!TektonRevision, BitbucketDataCenter!DefaultBranch, DefaultBranch
  <2>3. GetTektonDir(event).byBranch => Settings.provenance # "source"
    <3>1. PICK b : b = (Settings.provenance # "source")
      OBVIOUS
    <3>2. \E f : GetTektonDir(event) = [from |-> f, byBranch |-> b]
      BY <2>1, <3>1, Zenon DEF BitbucketDataCenter!GetTektonDir
    <3>3. GetTektonDir(event).byBranch = b
      BY <3>2
    <3> QED
      BY <3>1, <3>3, Zenon
  <2> QED
    BY <1>1, <2>2, <2>3
<1> QED
  BY <1>2, <1>3, <1>4, <1>5, <1>6, IntakeAssumption DEF Is

\* The commits of a pull request are commits, and it is one that the forge has.
LEMMA CommitsAreCommits ==
    ASSUME IntakeInv, acts <= Len(setup.script), NEW n, NEW sha \in CommitsBy(setup, acts, n)
    PROVE  sha # Nobody /\ n \in DOMAIN forge.pulls
<1>1. setup \in Setups /\ acts \in Nat /\ NumbersBy(setup, acts) \subseteq DOMAIN forge.pulls
  BY DEF IntakeInv, ForgeOK
<1>2. PICK k \in 0..acts : n \in DOMAIN PullsAt(setup, k) /\ sha \in PullsAt(setup, k)[n].commits
  BY DEF CommitsBy
<1>3. k = 0 \/ k \in DOMAIN setup.script
  <2>1. setup.script \in Seq(Range(setup.script))
    BY <1>1, IntakeAssumption
  <2>2. Len(setup.script) \in Nat /\ DOMAIN setup.script = 1 .. Len(setup.script)
    BY <2>1, LenProperties
  <2> QED
    BY <1>1, <2>2
<1>4. PullsAt(setup, k) \in PullsOf(setup)
  BY <1>3 DEF PullsAt, PullsOf
<1>5. Nobody \notin PullsAt(setup, k)[n].commits
  BY <1>1, <1>2, <1>4, IntakeAssumption DEF Nobody
<1>6. n \in NumbersBy(setup, acts)
  <2>1. CASE k = 0
    BY <1>2, <2>1 DEF PullsAt, NumbersBy
  <2>2. CASE k # 0
    <3>1. k \in 1..acts /\ n \in DOMAIN setup.script[k].pulls
      BY <1>1, <1>2, <2>2 DEF PullsAt
    <3> QED
      BY <3>1 DEF NumbersBy
  <2> QED
    BY <2>1, <2>2
<1> QED
  BY <1>1, <1>2, <1>5, <1>6

\* What is parsed is of the commit the hook is about.
LEMMA WhatIsParsedTells ==
    ASSUME IntakeInv, CommitInv, NEW hook, HookOK(hook), HookTells(hook), Detect(hook), NEW broken,
           NEW parsed, parsed = ParsePayload(hook, broken), parsed.outcome = "event",
           NEW event, event \in {parsed.event, GetCommitInfo(parsed.event)}
    PROVE  CommitOK(hook, event) /\ event.number \in {0} \cup DOMAIN forge.pulls
<1> DEFINE said == parsed.event
<1>1. setup \in Setups /\ ForgeTells /\ acts <= Len(setup.script) /\ DOMAIN forge.pulls \subseteq Nat
  BY DEF IntakeInv, CommitInv, ForgeTells
<1>2. /\ DOMAIN said = EventFields /\ EventTells(hook, said)
      /\ hook.kind \notin {"push", "incoming"} => EventOK(hook, said)
  BY <1>1, EventsOfHooks
<1> HIDE DEF said
<1>3. ASSUME hook.kind = "comment"
      PROVE  /\ hook.number \in DOMAIN forge.pulls
             /\ said.sha \in CommitsBy(setup, acts, hook.number) /\ said.sha # Nobody
  <2>1. hook.pull.head \in CommitsBy(setup, acts, hook.number)
    BY <1>2, <1>3 DEF HookTells, EventTells
  <2>2. hook.number \in DOMAIN forge.pulls
    BY <1>1, <2>1, CommitsAreCommits
  <2>3. forge.pulls[hook.number].head \in CommitsBy(setup, acts, hook.number)
    BY <1>1, <2>2 DEF ForgeTells
  <2>4. said.sha \in CommitsBy(setup, acts, hook.number)
    BY <1>2, <1>3, <2>1, <2>3 DEF EventTells
  <2> QED
    BY <1>1, <2>2, <2>4, CommitsAreCommits
<1>4. hook.kind \in ByCommit \cup {"pull_request", "comment"} => said.sha # Nobody
  BY <1>2, <1>3 DEF HookTells, EventTells
<1>5. /\ hook.kind \in ByCommit \cup {"pull_request", "comment"} => event.sha = said.sha
      /\ event.number = said.number /\ event.type = said.type
  <2>1. event \in {said, GetCommitInfo(said)}
    BY DEF said
  <2>2. PICK now : now = GetCommitInfo(said)
    OBVIOUS
  <2>3. now.number = said.number /\ now.type = said.type
    BY <1>1, <1>2, <2>2, CommitInfoTellsOfTheCommit
  <2>4. said.sha # Nobody => now.sha = said.sha
    BY <1>1, <1>2, <2>2, TheCommitStays
  <2> QED
    BY <1>4, <2>1, <2>2, <2>3, <2>4
<1>6. CommitOK(hook, event)
  <2>1. hook.kind \in ByCommit => event.sha = hook.sha
    BY <1>2, <1>5 DEF HookTells, EventTells
  <2>2. hook.kind = "pull_request" => event.sha = hook.pull.head
    BY <1>2, <1>5 DEF EventTells
  <2>3. hook.kind = "comment" => event.sha \in CommitsBy(setup, acts, hook.number)
    BY <1>3, <1>5
  <2>4. (hook.kind = "comment" /\ Is("github") /\ Settings.requireSHA /\ event.type = "ok-to-test-comment") =>
          GetSHAFromOkToTestComment(hook.comment, Settings.prefix) = <<"sha", event.sha>>
    BY <1>2, <1>5 DEF EventTells
  <2> QED
    BY <2>1, <2>2, <2>3, <2>4 DEF CommitOK
<1>7. said.number \in {0} \cup DOMAIN forge.pulls
  <2>1. CASE hook.kind = "comment"
    BY <1>2, <1>3, <2>1 DEF EventOK
  <2>2. CASE hook.kind = "pull_request"
    BY <1>2, <2>2 DEF EventOK, HookOK
  <2>3. CASE hook.kind \notin {"comment", "pull_request"}
    BY <1>1, <1>2, <2>3 DEF EventTells
  <2> QED
    BY <2>1, <2>2, <2>3
<1> QED
  BY <1>5, <1>6, <1>7

\* A commit that is known is not looked for.
LEMMA CommitInfoKeepsTheCommit ==
    ASSUME IntakeInv, CommitInv, NEW hook, HookTells(hook), NEW event, DOMAIN event = EventFields, CommitOK(hook, event)
    PROVE  CommitOK(hook, GetCommitInfo(event)) /\ GetCommitInfo(event).number = event.number
<1>1. setup \in Setups /\ acts <= Len(setup.script)
  BY DEF IntakeInv, CommitInv
<1>2. PICK now : now = GetCommitInfo(event)
  OBVIOUS
<1>3. now.number = event.number /\ now.type = event.type
  BY <1>1, <1>2, CommitInfoTellsOfTheCommit
<1>4. event.sha # Nobody => now.sha = event.sha
  BY <1>1, <1>2, TheCommitStays
<1>5. hook.kind \in ByCommit \cup {"pull_request", "comment"} => event.sha # Nobody
  BY <1>1, CommitsAreCommits DEF HookTells, CommitOK
<1>6. CommitOK(hook, now)
  BY <1>3, <1>4, <1>5 DEF CommitOK
<1> QED
  BY <1>2, <1>3, <1>6

(***************************************************************************)
(* Matching: the event is still of whom it was, whatever it has matched    *)
(***************************************************************************)

\* What no definition changes of an event but its type, and that only for a
\* definition that asks for the comment.
StillOf(event, now) ==
  /\ DOMAIN now = EventFields
  /\ now.sender = event.sender /\ now.number = event.number /\ now.sameRepo = event.sameRepo
  /\ now.trigger = event.trigger /\ now.cancel = event.cancel /\ now.sha = event.sha
  /\ now.type \in {event.type, "on-comment"}

MatchingOf(event, m) ==
  DOMAIN m = {"event", "matched", "unmatched", "invalid", "error"} /\ StillOf(event, m.event)

\* Any change of a matching that leaves the event alone.
LEMMA OtherFields ==
    ASSUME NEW event, NEW m, MatchingOf(event, m), NEW v
    PROVE  /\ MatchingOf(event, [m EXCEPT !.matched = v]) /\ MatchingOf(event, [m EXCEPT !.unmatched = v])
           /\ MatchingOf(event, [m EXCEPT !.invalid = v]) /\ MatchingOf(event, [m EXCEPT !.error = v])
BY DEF MatchingOf

LEMMA OtherEvent ==
    ASSUME NEW event, NEW m, MatchingOf(event, m), NEW v, StillOf(event, v)
    PROVE  MatchingOf(event, [m EXCEPT !.event = v])
BY DEF MatchingOf

LEMMA OneDefinition ==
    ASSUME NEW event, NEW m, MatchingOf(event, m), NEW d, NEW seen, NEW broken
    PROVE  MatchingOf(event, MatchOne(m, d, seen, broken))
<1> DEFINE missed == IF d.comments = {} THEN m ELSE Unmatched(m, d)
           read(x) == [x EXCEPT !.event = ReadBy(d.cel, x.event)]
<1>1. ASSUME NEW x, MatchingOf(event, x)
      PROVE  MatchingOf(event, Matches(x, d)) /\ MatchingOf(event, Unmatched(x, d))
  BY <1>1, OtherFields DEF Matches, Unmatched
<1>2. MatchingOf(event, missed)
  BY <1>1
<1>3. ASSUME NEW x, MatchingOf(event, x) PROVE MatchingOf(event, read(x))
  <2>1. StillOf(event, x.event)
    BY <1>3 DEF MatchingOf
  <2>2. \E base : ReadBy(d.cel, x.event) \in {x.event, [x.event EXCEPT !.base = base]}
    BY DEF ReadBy
  <2>3. StillOf(event, ReadBy(d.cel, x.event))
    BY <2>1, <2>2 DEF StillOf, EventFields
  <2> HIDE DEF read
  <2>4. read(x) = [x EXCEPT !.event = ReadBy(d.cel, x.event)]
    BY DEF read
  <2> QED
    BY <1>3, <2>3, <2>4, OtherEvent
<1>4. ASSUME NEW x, MatchingOf(event, x) PROVE MatchingOf(event, WithCEL(x, d, seen, broken))
  <2>1. MatchingOf(event, read(x))
    BY <1>3, <1>4
  <2>2. MatchingOf(event, [x EXCEPT !.invalid = Append(x.invalid, d.name)])
    BY <1>4, OtherFields
  <2>3. WithCEL(x, d, seen, broken) \in
          {[x EXCEPT !.invalid = Append(x.invalid, d.name)], read(x), Matches(read(x), d), Unmatched(read(x), d)}
    BY DEF WithCEL
  <2> HIDE DEF read
  <2> QED
    BY <2>1, <2>2, <2>3, <1>1
<1>5. ASSUME NEW x, MatchingOf(event, x) PROVE MatchingOf(event, WithAnnotations(x, d, seen, broken))
  <2>1. WithAnnotations(x, d, seen, broken) \in
          {x, [x EXCEPT !.error = TRUE], Matches(x, d), Unmatched(x, d)}
    BY DEF WithAnnotations
  <2>2. MatchingOf(event, [x EXCEPT !.error = TRUE])
    BY <1>5, OtherFields
  <2>3. MatchingOf(event, Matches(x, d)) /\ MatchingOf(event, Unmatched(x, d))
    BY <1>5, <1>1
  <2> QED
    BY <2>1, <2>2, <2>3, <1>5
<1>6. MatchingOf(event, [Matches(m, d) EXCEPT !.event.type = "on-comment"])
  <2> DEFINE x == Matches(m, d)
             v == [x.event EXCEPT !.type = "on-comment"]
  <2>1. MatchingOf(event, x)
    BY <1>1
  <2> HIDE DEF x
  <2>2. StillOf(event, x.event)
    BY <2>1 DEF MatchingOf
  <2>3. StillOf(event, v)
    BY <2>2 DEF StillOf, EventFields
  <2> HIDE DEF v
  <2>4. MatchingOf(event, [x EXCEPT !.event = v])
    BY <2>1, <2>3, OtherEvent
  <2>5. [x EXCEPT !.event.type = "on-comment"] = [x EXCEPT !.event = v]
    BY DEF v
  <2> QED
    BY <2>4, <2>5 DEF x
<1>7. MatchOne(m, d, seen, broken) \in
        {m, Matches(m, d), [Matches(m, d) EXCEPT !.event.type = "on-comment"], missed,
         WithCEL(missed, d, seen, broken), WithAnnotations(missed, d, seen, broken)}
  BY DEF MatchOne
<1> HIDE DEF missed
<1> QED
  BY <1>1, <1>2, <1>4, <1>5, <1>6, <1>7

\* The definitions one after the other: the matching of every set of their
\* positions, the last one last.
AfterMatching(f, n, start, s, seen, broken) ==
  f = [t \in SUBSET (1 .. n) |->
         IF t = {} THEN start
         ELSE MatchOne(f[t \ {Max(t)}], s[Max(t)], seen, broken)]

LEMMA MaxOfNumbers ==
    ASSUME NEW n \in Nat, NEW t \in SUBSET (1 .. n), n \in t
    PROVE  Max(t) = n
<1>1. n \in t /\ \A y \in t : n >= y
  OBVIOUS
<1>2. \A x \in t : (\A y \in t : x >= y) => x = n
  OBVIOUS
<1> QED
  BY <1>1, <1>2 DEF Max

LEMMA MatchingsExist ==
    ASSUME NEW start, NEW s, NEW seen, NEW broken
    PROVE  \A n \in Nat : \E f : AfterMatching(f, n, start, s, seen, broken)
<1> DEFINE Exists(n) == \E f : AfterMatching(f, n, start, s, seen, broken)
           T == {n \in Nat : ~Exists(n)}
<1> SUFFICES ASSUME T # {} PROVE FALSE
  OBVIOUS
<1>1. PICK n \in T : \A y \in T : n <= y
  BY SmallestOne
<1>2. n # 0
  <2> DEFINE f == [t \in SUBSET (1 .. 0) |-> start]
  <2>1. \A t \in SUBSET (1 .. 0) : t = {}
    OBVIOUS
  <2>2. f = [t \in SUBSET (1 .. 0) |-> IF t = {} THEN start ELSE MatchOne(f[t \ {Max(t)}], s[Max(t)], seen, broken)]
    BY <2>1
  <2>3. Exists(0)
    BY <2>2 DEF AfterMatching
  <2> QED
    BY <1>1, <2>3
<1>3. n \in Nat /\ n - 1 \in Nat /\ n - 1 \notin T
  BY <1>1, <1>2
<1>4. PICK f : AfterMatching(f, n - 1, start, s, seen, broken)
  BY <1>3
<1> DEFINE g == [t \in SUBSET (1 .. n) |->
                   IF n \in t THEN MatchOne(f[t \ {n}], s[n], seen, broken) ELSE f[t]]
           Of(h, t) == IF t = {} THEN start ELSE MatchOne(h[t \ {Max(t)}], s[Max(t)], seen, broken)
<1>5. f = [t \in SUBSET (1 .. n - 1) |-> Of(f, t)]
  BY <1>4 DEF AfterMatching
<1>6. ASSUME NEW t \in SUBSET (1 .. n) PROVE g[t] = Of(g, t)
  <2>1. g[t] = IF n \in t THEN MatchOne(f[t \ {n}], s[n], seen, broken) ELSE f[t]
    OBVIOUS
  <2>2. CASE n \in t
    <3>1. Max(t) = n
      BY <1>3, <2>2, MaxOfNumbers
    <3>2. t \ {n} \in SUBSET (1 .. n) /\ n \notin t \ {n}
      OBVIOUS
    <3>3. g[t \ {n}] = f[t \ {n}]
      BY <3>2
    <3> QED
      BY <2>1, <2>2, <3>1, <3>3
  <2>3. CASE n \notin t
    <3>1. t \in SUBSET (1 .. n - 1)
      BY <1>3, <2>3
    <3>2. f[t] = Of(f, t)
      BY <1>5, <3>1
    <3>3. ASSUME t # {} PROVE g[t \ {Max(t)}] = f[t \ {Max(t)}]
      <4>1. t \ {Max(t)} \in SUBSET (1 .. n) /\ n \notin t \ {Max(t)}
        BY <2>3
      <4> QED
        BY <4>1
    <3> QED
      BY <2>1, <2>3, <3>2, <3>3
  <2> QED
    BY <2>2, <2>3
<1>7. g = [t \in SUBSET (1 .. n) |-> Of(g, t)]
  <2> HIDE DEF Of
  <2> QED
    BY <1>6
<1>8. Exists(n)
  BY <1>7 DEF AfterMatching
<1> QED
  BY <1>1, <1>8

MatchAll(start, s, seen, broken) == FoldLeft(LAMBDA m, d : MatchOne(m, d, seen, broken), start, s)

LEMMA AllDefinitions ==
    ASSUME NEW event, NEW start, MatchingOf(event, start), NEW s, s \in Seq(Range(s)), NEW seen, NEW broken
    PROVE  MatchingOf(event, MatchAll(start, s, seen, broken))
<1> DEFINE n == Len(s)
           After(f) == AfterMatching(f, n, start, s, seen, broken)
           h == CHOOSE f : f = [t \in SUBSET (DOMAIN s) |->
                  IF t = {} THEN start ELSE MatchOne(f[t \ {Max(t)}], s[Max(t)], seen, broken)]
<1>1. n \in Nat /\ DOMAIN s = 1 .. n
  OBVIOUS
<1>2. MatchAll(start, s, seen, broken) = h[DOMAIN s]
  BY DEF MatchAll, FoldLeft, MapThenFoldSet
<1>3. After(h)
  <2>1. h = CHOOSE f : After(f)
    BY <1>1 DEF AfterMatching
  <2>2. \E f : After(f)
    BY <1>1, MatchingsExist
  <2> HIDE DEF h, After
  <2> QED
    BY <2>1, <2>2
<1> HIDE DEF h
<1>4. \A k \in Nat : k <= n => MatchingOf(event, h[1 .. k])
  <2> DEFINE T == {k \in Nat : k <= n /\ ~MatchingOf(event, h[1 .. k])}
  <2> SUFFICES ASSUME T # {} PROVE FALSE
    OBVIOUS
  <2>1. PICK k \in T : \A y \in T : k <= y
    BY SmallestOne
  <2>2. k \in Nat /\ k <= n /\ 1 .. k \in SUBSET (1 .. n)
    BY <1>1, <2>1
  <2>3. h[1 .. k] = IF 1 .. k = {} THEN start
                  ELSE MatchOne(h[(1 .. k) \ {Max(1 .. k)}], s[Max(1 .. k)], seen, broken)
    BY <1>3, <2>2 DEF AfterMatching
  <2>4. CASE k = 0
    BY <2>1, <2>3, <2>4
  <2>5. CASE k # 0
    <3>1. k \in 1 .. k /\ 1 .. k # {} /\ k - 1 \in Nat /\ k - 1 <= n
      BY <1>1, <2>2, <2>5
    <3>2. Max(1 .. k) = k
      BY <2>2, <3>1, MaxOfNumbers
    <3>3. (1 .. k) \ {k} = 1 .. k - 1
      BY <2>2
    <3>4. h[1 .. k] = MatchOne(h[1 .. k - 1], s[k], seen, broken)
      BY <2>3, <3>1, <3>2, <3>3
    <3>5. MatchingOf(event, h[1 .. k - 1])
      BY <2>1, <3>1
    <3> QED
      BY <2>1, <3>4, <3>5, OneDefinition
  <2> QED
    BY <2>4, <2>5
<1>5. 1 .. n = DOMAIN s /\ n <= n
  BY <1>1
<1>6. MatchingOf(event, h[DOMAIN s])
  BY <1>1, <1>4, <1>5
<1> QED
  BY <1>2, <1>6

\* What comes of matching the definitions of a delivery.
LEMMA TheEventMatched ==
    ASSUME NEW definitions, definitions \in Seq(Range(definitions)), NEW event, DOMAIN event = EventFields, NEW seen, NEW broken
    PROVE  StillOf(event, MatchPipelinerunByAnnotation(definitions, event, seen, broken).event)
<1> DEFINE start == [event |-> event, matched |-> <<>>, unmatched |-> {}, invalid |-> <<>>, error |-> FALSE]
           all == MatchAll(start, definitions, seen, broken)
<1>1. StillOf(event, event)
  BY DEF StillOf
<1>2. MatchingOf(event, start)
  BY <1>1 DEF MatchingOf
<1> HIDE DEF start
<1>3. MatchingOf(event, all)
  BY <1>2, AllDefinitions
<1>4. MatchPipelinerunByAnnotation(definitions, event, seen, broken) = AllMatched(all, seen, broken)
  BY DEF MatchPipelinerunByAnnotation, start, MatchAll
<1> HIDE DEF all
<1>5. AllMatched(all, seen, broken).event = all.event
  BY DEF AllMatched, Outcome
<1> QED
  BY <1>3, <1>4, <1>5 DEF MatchingOf

(***************************************************************************)
(* Comments: those of others stay, and the bot gives no commands           *)
(***************************************************************************)

LEMMA SeqOfItsRange ==
    ASSUME NEW S, NEW s \in Seq(S)
    PROVE  s \in Seq(Range(s))
<1>1. Len(s) \in Nat /\ DOMAIN s = 1 .. Len(s) /\ s = [i \in 1 .. Len(s) |-> s[i]]
  BY LenProperties, ElementOfSeq
<1>2. \A i \in 1 .. Len(s) : s[i] \in Range(s)
  BY <1>1 DEF Range
<1>3. s \in [1 .. Len(s) -> Range(s)]
  BY <1>1, <1>2
<1> QED
  BY <1>1, <1>3, SeqDef

LEMMA SeqAppended ==
    ASSUME NEW s, s \in Seq(Range(s)), NEW e
    PROVE  /\ Append(s, e) \in Seq(Range(Append(s, e)))
           /\ Len(s) \in Nat /\ DOMAIN s = 1 .. Len(s) /\ DOMAIN Append(s, e) = 1 .. Len(s) + 1
           /\ \A i \in DOMAIN s : Append(s, e)[i] = s[i]
           /\ Append(s, e)[Len(s) + 1] = e
<1> DEFINE S == Range(s) \cup {e}
<1>1. s \in Seq(S)
  BY SeqMonotonic
<1>2. /\ Append(s, e) \in Seq(S) /\ Len(Append(s, e)) = Len(s) + 1
      /\ \A i \in 1 .. Len(s) : Append(s, e)[i] = s[i]
      /\ Append(s, e)[Len(s) + 1] = e
  BY <1>1, AppendProperties
<1>3. Len(s) \in Nat /\ DOMAIN s = 1 .. Len(s) /\ DOMAIN Append(s, e) = 1 .. Len(s) + 1
  BY <1>1, <1>2, LenProperties
<1> QED
  BY <1>2, <1>3, SeqOfItsRange

LEMMA SeqJoined ==
    ASSUME NEW s, s \in Seq(Range(s)), NEW t, t \in Seq(Range(t))
    PROVE  /\ s \o t \in Seq(Range(s \o t))
           /\ Len(s) \in Nat /\ DOMAIN s = 1 .. Len(s) /\ Len(t) \in Nat /\ DOMAIN t = 1 .. Len(t)
           /\ DOMAIN (s \o t) = 1 .. Len(s) + Len(t)
           /\ \A i \in DOMAIN s : (s \o t)[i] = s[i]
           /\ \A i \in DOMAIN (s \o t) : i \notin DOMAIN s => i - Len(s) \in DOMAIN t /\ (s \o t)[i] = t[i - Len(s)]
<1> DEFINE S == Range(s) \cup Range(t)
<1>1. s \in Seq(S) /\ t \in Seq(S)
  BY SeqMonotonic
<1>2. /\ s \o t \in Seq(S) /\ Len(s \o t) = Len(s) + Len(t)
      /\ \A i \in 1 .. Len(s) + Len(t) : (s \o t)[i] = IF i <= Len(s) THEN s[i] ELSE t[i - Len(s)]
  BY <1>1, ConcatProperties
<1>3. /\ Len(s) \in Nat /\ DOMAIN s = 1 .. Len(s) /\ Len(t) \in Nat /\ DOMAIN t = 1 .. Len(t)
      /\ DOMAIN (s \o t) = 1 .. Len(s) + Len(t)
  BY <1>1, <1>2, LenProperties
<1>4. s \o t \in Seq(Range(s \o t))
  BY <1>2, SeqOfItsRange
<1>5. \A i \in DOMAIN s : (s \o t)[i] = s[i]
  BY <1>2, <1>3
<1>6. \A i \in DOMAIN (s \o t) : i \notin DOMAIN s => i - Len(s) \in DOMAIN t /\ (s \o t)[i] = t[i - Len(s)]
  BY <1>2, <1>3
<1> QED
  BY <1>3, <1>4, <1>5, <1>6

LEMMA SeqChanged ==
    ASSUME NEW s, s \in Seq(Range(s)), NEW i, NEW e
    PROVE  /\ [s EXCEPT ![i] = e] \in Seq(Range([s EXCEPT ![i] = e]))
           /\ DOMAIN [s EXCEPT ![i] = e] = DOMAIN s
           /\ \A j \in DOMAIN s : [s EXCEPT ![i] = e][j] = IF j = i THEN e ELSE s[j]
<1> DEFINE S == Range(s) \cup {e}
           t == [s EXCEPT ![i] = e]
<1>1. Len(s) \in Nat /\ DOMAIN s = 1 .. Len(s)
  BY LenProperties
<1>2. DOMAIN t = DOMAIN s /\ \A j \in DOMAIN s : t[j] = IF j = i THEN e ELSE s[j]
  OBVIOUS
<1>3. \A j \in DOMAIN s : t[j] \in Range(t)
  BY <1>2 DEF Range
<1>4. t = [j \in 1 .. Len(s) |-> t[j]]
  BY <1>1, <1>2
<1> HIDE DEF t
<1>5. t \in [1 .. Len(s) -> Range(t)]
  BY <1>1, <1>3, <1>4
<1>6. t \in Seq(Range(t))
  BY <1>1, <1>5, SeqDef
<1> QED
  BY <1>2, <1>6 DEF t

\* The hook that comes of a comment of the bot on a pull request.
Echoes(number, d) ==
  /\ number # 0
  /\ \E h : /\ d = Delivery(h) /\ h.by = Bot /\ h.kind = "comment"
            /\ h.number = number /\ h.pull = forge.pulls[number]

CommentsKept(comments) ==
  /\ comments \in Seq(Range(comments))
  /\ \A i \in DOMAIN comments : comments[i].by = Bot => ~IsOkToTestComment(comments[i].text, Prefix)
  /\ \A i \in DOMAIN forge.comments : IsOkToTestComment(forge.comments[i].text, Prefix) =>
       i \in DOMAIN comments /\ comments[i] = forge.comments[i]

WrittenOK(number, w) ==
  /\ DOMAIN w = {"comments", "hooks", "new"}
  /\ CommentsKept(w.comments)
  /\ w.hooks \in Seq(Range(w.hooks))
  /\ \A j \in DOMAIN w.hooks : Echoes(number, w.hooks[j])

LEMMA OneComment ==
    ASSUME NEW number, NEW w, WrittenOK(number, w), NEW text, NEW marker, ~IsOkToTestComment(text, Prefix)
    PROVE  WrittenOK(number, CreateComment(w, number, text, marker))
<1> DEFINE comment == [by |-> Bot, on |-> number, text |-> text]
           hook(action) == Delivery([kind |-> "comment", action |-> action, by |-> Bot, number |-> number,
                                pull |-> forge.pulls[number], comment |-> text])
           S == {k \in 1 .. Len(w.comments) : w.comments[k].by = Bot /\ w.comments[k].on = number
                                             /\ Head(w.comments[k].text).says = marker}
           i == IF marker = "" THEN 0
                ELSE IF S # {} THEN CHOOSE x \in S : \A y \in S : x <= y ELSE 0
           appended == [comments |-> Append(w.comments, comment),
                        hooks |-> Append(w.hooks, hook("created")), new |-> w.new + 1]
           edited == [[w EXCEPT !.comments[i] = comment] EXCEPT !.hooks = Append(w.hooks, hook("edited"))]
<1>1. CreateComment(w, number, text, marker) =
        IF number = 0 \/ Is("bitbucket-cloud") \/ Is("bitbucket-datacenter") THEN w
        ELSE IF i = 0 THEN appended
        ELSE IF w.comments[i] = comment THEN w ELSE edited
  BY DEF CreateComment, SelectInSeq, Min
<1>2. Len(w.comments) \in Nat /\ DOMAIN w.comments = 1 .. Len(w.comments)
  BY LenProperties DEF WrittenOK, CommentsKept
<1>3. ASSUME i # 0 PROVE i \in S
  <2>1. S \in SUBSET Nat
    BY <1>2
  <2> HIDE DEF S
  <2>2. S # {}
    BY <1>3
  <2> QED
    BY <1>3, <2>1, <2>2, Smallest
<1>4. number # 0 => \A a : Echoes(number, hook(a))
  BY DEF Echoes
<1>5. comment.by = Bot /\ comment.text = text
  OBVIOUS
<1> HIDE DEF comment, hook, S, i
<1>6. ASSUME number # 0, NEW a
      PROVE  LET hooks == Append(w.hooks, hook(a))
             IN  hooks \in Seq(Range(hooks)) /\ \A j \in DOMAIN hooks : Echoes(number, hooks[j])
  <2>1. w.hooks \in Seq(Range(w.hooks)) /\ \A j \in DOMAIN w.hooks : Echoes(number, w.hooks[j])
    BY DEF WrittenOK
  <2> DEFINE hooks == Append(w.hooks, hook(a))
  <2>2. /\ hooks \in Seq(Range(hooks))
        /\ Len(w.hooks) \in Nat /\ DOMAIN w.hooks = 1 .. Len(w.hooks) /\ DOMAIN hooks = 1 .. Len(w.hooks) + 1
        /\ \A j \in DOMAIN w.hooks : hooks[j] = w.hooks[j]
        /\ hooks[Len(w.hooks) + 1] = hook(a)
    BY <2>1, SeqAppended
  <2> HIDE DEF hooks
  <2>3. \A j \in DOMAIN hooks : Echoes(number, hooks[j])
    BY <2>1, <2>2, <1>4, <1>6
  <2> QED
    BY <2>2, <2>3 DEF hooks
<1>7. ASSUME number # 0 PROVE WrittenOK(number, appended)
  <2> DEFINE cs == Append(w.comments, comment)
  <2>1. CommentsKept(w.comments)
    BY DEF WrittenOK
  <2>2. /\ cs \in Seq(Range(cs)) /\ DOMAIN cs = 1 .. Len(w.comments) + 1
        /\ \A j \in DOMAIN w.comments : cs[j] = w.comments[j]
        /\ cs[Len(w.comments) + 1] = comment
    BY <2>1, SeqAppended DEF CommentsKept
  <2> HIDE DEF cs
  <2>3. \A j \in DOMAIN cs : j \in DOMAIN w.comments \/ cs[j] = comment
    BY <1>2, <2>2
  <2>4. \A j \in DOMAIN w.comments : j \in DOMAIN cs
    BY <1>2, <2>2
  <2>5. CommentsKept(cs)
    BY <2>1, <2>2, <2>3, <2>4, <1>5 DEF CommentsKept
  <2> QED
    BY <2>5, <1>6, <1>7 DEF WrittenOK, cs
<1>8. ASSUME number # 0, i # 0 PROVE WrittenOK(number, edited)
  <2> DEFINE cs == [w.comments EXCEPT ![i] = comment]
  <2>1. CommentsKept(w.comments) /\ DOMAIN w = {"comments", "hooks", "new"}
    BY DEF WrittenOK
  <2>2. /\ cs \in Seq(Range(cs)) /\ DOMAIN cs = DOMAIN w.comments
        /\ \A j \in DOMAIN w.comments : cs[j] = IF j = i THEN comment ELSE w.comments[j]
    BY <2>1, SeqChanged DEF CommentsKept
  <2>3. i \in DOMAIN w.comments /\ w.comments[i].by = Bot
    BY <1>2, <1>3, <1>8 DEF S
  <2>4. edited = [[w EXCEPT !.comments = cs] EXCEPT !.hooks = Append(w.hooks, hook("edited"))]
    BY <2>1
  <2> HIDE DEF cs
  <2>5. CommentsKept(cs)
    BY <2>1, <2>2, <2>3, <1>5 DEF CommentsKept
  <2>6. DOMAIN edited = {"comments", "hooks", "new"} /\ edited.comments = cs
        /\ edited.hooks = Append(w.hooks, hook("edited"))
    BY <2>1, <2>4
  <2> HIDE DEF edited
  <2> QED
    BY <2>5, <2>6, <1>6, <1>8 DEF WrittenOK
<1> HIDE DEF appended, edited
<1> QED
  BY <1>1, <1>7, <1>8

\* The comments one after the other.
AfterWriting(f, n, number, start, s) ==
  f = [t \in SUBSET (1 .. n) |->
         IF t = {} THEN start
         ELSE CreateComment(f[t \ {Max(t)}], number, s[Max(t)][1], s[Max(t)][2])]

LEMMA WritingsExist ==
    ASSUME NEW number, NEW start, NEW s
    PROVE  \A n \in Nat : \E f : AfterWriting(f, n, number, start, s)
<1> DEFINE Exists(n) == \E f : AfterWriting(f, n, number, start, s)
           T == {n \in Nat : ~Exists(n)}
<1> SUFFICES ASSUME T # {} PROVE FALSE
  OBVIOUS
<1>1. PICK n \in T : \A y \in T : n <= y
  BY SmallestOne
<1>2. n # 0
  <2> DEFINE f == [t \in SUBSET (1 .. 0) |-> start]
  <2>1. \A t \in SUBSET (1 .. 0) : t = {}
    OBVIOUS
  <2>2. f = [t \in SUBSET (1 .. 0) |->
               IF t = {} THEN start ELSE CreateComment(f[t \ {Max(t)}], number, s[Max(t)][1], s[Max(t)][2])]
    BY <2>1
  <2>3. Exists(0)
    BY <2>2 DEF AfterWriting
  <2> QED
    BY <1>1, <2>3
<1>3. n \in Nat /\ n - 1 \in Nat /\ n - 1 \notin T
  BY <1>1, <1>2
<1>4. PICK f : AfterWriting(f, n - 1, number, start, s)
  BY <1>3
<1> DEFINE g == [t \in SUBSET (1 .. n) |->
                   IF n \in t THEN CreateComment(f[t \ {n}], number, s[n][1], s[n][2]) ELSE f[t]]
           Of(h, t) == IF t = {} THEN start
                       ELSE CreateComment(h[t \ {Max(t)}], number, s[Max(t)][1], s[Max(t)][2])
<1>5. f = [t \in SUBSET (1 .. n - 1) |-> Of(f, t)]
  BY <1>4 DEF AfterWriting
<1>6. ASSUME NEW t \in SUBSET (1 .. n) PROVE g[t] = Of(g, t)
  <2>1. g[t] = IF n \in t THEN CreateComment(f[t \ {n}], number, s[n][1], s[n][2]) ELSE f[t]
    OBVIOUS
  <2>2. CASE n \in t
    <3>1. Max(t) = n
      BY <1>3, <2>2, MaxOfNumbers
    <3>2. t \ {n} \in SUBSET (1 .. n) /\ n \notin t \ {n}
      OBVIOUS
    <3>3. g[t \ {n}] = f[t \ {n}]
      BY <3>2
    <3> QED
      BY <2>1, <2>2, <3>1, <3>3
  <2>3. CASE n \notin t
    <3>1. t \in SUBSET (1 .. n - 1)
      BY <1>3, <2>3
    <3>2. f[t] = Of(f, t)
      BY <1>5, <3>1
    <3>3. ASSUME t # {} PROVE g[t \ {Max(t)}] = f[t \ {Max(t)}]
      <4>1. t \ {Max(t)} \in SUBSET (1 .. n) /\ n \notin t \ {Max(t)}
        BY <2>3
      <4> QED
        BY <4>1
    <3> QED
      BY <2>1, <2>3, <3>2, <3>3
  <2> QED
    BY <2>2, <2>3
<1>7. g = [t \in SUBSET (1 .. n) |-> Of(g, t)]
  <2> HIDE DEF Of
  <2> QED
    BY <1>6
<1>8. Exists(n)
  BY <1>7 DEF AfterWriting
<1> QED
  BY <1>1, <1>8

WriteAll(number, start, s) == FoldLeft(LAMBDA w, t : CreateComment(w, number, t[1], t[2]), start, s)

LEMMA AllComments ==
    ASSUME NEW number, NEW start, WrittenOK(number, start), NEW s, s \in Seq(Range(s)),
           \A k \in DOMAIN s : ~IsOkToTestComment(s[k][1], Prefix)
    PROVE  WrittenOK(number, WriteAll(number, start, s))
<1> DEFINE n == Len(s)
           After(f) == AfterWriting(f, n, number, start, s)
           h == CHOOSE f : f = [t \in SUBSET (DOMAIN s) |->
                  IF t = {} THEN start
                  ELSE CreateComment(f[t \ {Max(t)}], number, s[Max(t)][1], s[Max(t)][2])]
<1>1. n \in Nat /\ DOMAIN s = 1 .. n
  OBVIOUS
<1>2. WriteAll(number, start, s) = h[DOMAIN s]
  BY DEF WriteAll, FoldLeft, MapThenFoldSet
<1>3. After(h)
  <2>1. h = CHOOSE f : After(f)
    BY <1>1 DEF AfterWriting
  <2>2. \E f : After(f)
    BY <1>1, WritingsExist
  <2> HIDE DEF h, After
  <2> QED
    BY <2>1, <2>2
<1> HIDE DEF h
<1>4. \A k \in Nat : k <= n => WrittenOK(number, h[1 .. k])
  <2> DEFINE T == {k \in Nat : k <= n /\ ~WrittenOK(number, h[1 .. k])}
  <2> SUFFICES ASSUME T # {} PROVE FALSE
    OBVIOUS
  <2>1. PICK k \in T : \A y \in T : k <= y
    BY SmallestOne
  <2>2. k \in Nat /\ k <= n /\ 1 .. k \in SUBSET (1 .. n)
    BY <1>1, <2>1
  <2>3. h[1 .. k] = IF 1 .. k = {} THEN start
                  ELSE CreateComment(h[(1 .. k) \ {Max(1 .. k)}], number, s[Max(1 .. k)][1], s[Max(1 .. k)][2])
    BY <1>3, <2>2 DEF AfterWriting
  <2>4. CASE k = 0
    BY <2>1, <2>3, <2>4
  <2>5. CASE k # 0
    <3>1. k \in 1 .. k /\ 1 .. k # {} /\ k - 1 \in Nat /\ k - 1 <= n /\ k \in DOMAIN s
      BY <1>1, <2>2, <2>5
    <3>2. Max(1 .. k) = k
      BY <2>2, <3>1, MaxOfNumbers
    <3>3. (1 .. k) \ {k} = 1 .. k - 1
      BY <2>2
    <3>4. h[1 .. k] = CreateComment(h[1 .. k - 1], number, s[k][1], s[k][2])
      BY <2>3, <3>1, <3>2, <3>3
    <3>5. WrittenOK(number, h[1 .. k - 1])
      BY <2>1, <3>1
    <3> QED
      BY <2>1, <3>1, <3>4, <3>5, OneComment
  <2> QED
    BY <2>4, <2>5
<1>5. 1 .. n = DOMAIN s /\ n <= n
  BY <1>1
<1>6. WrittenOK(number, h[DOMAIN s])
  BY <1>1, <1>4, <1>5
<1> QED
  BY <1>2, <1>6

\* A delivery as it was, but for what is counted and recorded of it.
Counted(d, after) ==
  /\ DOMAIN after = DOMAIN d
  /\ \A f \in DOMAIN d : f \notin {"comments", "failed"} => after[f] = d[f]

LEMMA WhatIsWritten ==
    ASSUME ForgeOK, NEW i \in DOMAIN deliveries, NEW d, NEW texts, texts \in Seq(Range(texts)), NEW broken,
           \A k \in DOMAIN texts : ~IsOkToTestComment(texts[k][1], Prefix),
           Commented(i, d, texts, broken)
    PROVE  \E after, comments, hooks :
             /\ Counted(d, after)
             /\ CommentsKept(comments)
             /\ hooks \in Seq(Range(hooks)) /\ \A j \in DOMAIN hooks : Echoes(d.event.number, hooks[j])
             /\ forge' = [forge EXCEPT !.comments = comments]
             /\ deliveries' = [deliveries EXCEPT ![i] = after] \o hooks
<1> DEFINE before == [comments |-> forge.comments, hooks |-> <<>>, new |-> 0]
           written == IF "note" \in broken THEN before ELSE WriteAll(d.event.number, before, texts)
           after == [[d EXCEPT !.comments = d.comments + written.new] EXCEPT !.failed = d.failed \cup broken]
<1>1. /\ forge' = [forge EXCEPT !.comments = written.comments]
      /\ deliveries' = [deliveries EXCEPT ![i] = after] \o written.hooks
  BY DEF Commented, WriteAll
<1>2. WrittenOK(d.event.number, before)
  <2>1. CommentsKept(forge.comments)
    BY DEF CommentsKept, ForgeOK
  <2>2. <<>> \in Seq(Range(<<>>)) /\ DOMAIN <<>> = {}
    OBVIOUS
  <2> QED
    BY <2>1, <2>2 DEF WrittenOK
<1> HIDE DEF before
<1>3. WrittenOK(d.event.number, written)
  BY <1>2, AllComments
<1> HIDE DEF written
<1>4. Counted(d, after)
  BY DEF Counted
<1> HIDE DEF after
<1> QED
  BY <1>1, <1>3, <1>4 DEF WrittenOK

(***************************************************************************)
(* What lasts from a step to the next                                      *)
(***************************************************************************)

\* The forge may get more pull requests and comments; what is approved stays so.
ForgeLasts ==
  /\ setup' = setup
  /\ \A n \in DOMAIN forge.pulls :
       n \in DOMAIN forge'.pulls /\ forge'.pulls[n].sameRepo = forge.pulls[n].sameRepo
  /\ \A k \in DOMAIN forge.comments : IsOkToTestComment(forge.comments[k].text, Prefix) =>
       k \in DOMAIN forge'.comments /\ forge'.comments[k] = forge.comments[k]

LEMMA TheInstallationLasts ==
    ASSUME setup' = setup, NEW hook, NEW provider
    PROVE  /\ Settings' = Settings /\ Is(provider)' = Is(provider) /\ Prefix' = Prefix
           /\ (Detect(hook))' = Detect(hook)
           /\ (Cancels(hook))' = Cancels(hook)
           /\ (Sender(hook))' = Sender(hook)
           /\ (HasPolicy(hook))' = HasPolicy(hook)
           /\ (Trusted(hook))' = Trusted(hook)
           /\ AsksForNoTeam' = AsksForNoTeam
<1>1. Settings' = Settings
  BY DEF Settings
<1>2. \A p : Is(p)' = Is(p)
  BY DEF Is
<1>3. Prefix' = Prefix
  BY <1>1, <1>2 DEF Prefix, Is
<1>4. (Detect(hook))' = Detect(hook)
  BY <1>1 DEF Detect, Is
<1>5. (Cancels(hook))' = Cancels(hook)
  BY <1>1 DEF Cancels, Is
<1>6. (Sender(hook))' = Sender(hook)
  BY DEF Sender, Is
<1>7. (HasPolicy(hook))' = HasPolicy(hook)
  BY <1>1 DEF HasPolicy, Is
<1>8. (Trusted(hook))' = Trusted(hook)
  BY <1>1, <1>7 DEF Trusted, Owners, PolicyMembers
<1>9. AsksForNoTeam' = AsksForNoTeam
  BY <1>1 DEF AsksForNoTeam, Is
<1> QED
  BY <1>1, <1>2, <1>3, <1>4, <1>5, <1>6, <1>7, <1>8, <1>9

LEMMA WhatIsEntitledStays ==
    ASSUME ForgeLasts, NEW hook, NEW number, Entitled(hook, number)
    PROVE  (Entitled(hook, number))'
<1>1. setup' = setup
  BY DEF ForgeLasts
<1>2. CASE IsOfTheForge(hook, number)
  <2>1. (IsOfTheForge(hook, number))'
    BY <1>2 DEF IsOfTheForge
  <2> QED
    BY <2>1 DEF Entitled
<1>3. CASE IsOfTheRepository(hook, number)
  <2>1. (HasPolicy(hook))' = HasPolicy(hook) /\ Is("github")' = Is("github")
    BY <1>1, TheInstallationLasts
  <2>2. (IsOfTheRepository(hook, number))'
    BY <1>3, <2>1 DEF IsOfTheRepository, ForgeLasts
  <2> QED
    BY <2>2 DEF Entitled
<1>4. CASE AsksForNoTeam
  BY <1>1, <1>4, TheInstallationLasts DEF Entitled
<1>5. CASE Sender(hook) \in Trusted(hook)
  BY <1>1, <1>5, TheInstallationLasts DEF Entitled
<1>6. CASE IsApproved(hook, number)
  <2>1. PICK c \in Counting(hook, number) : IsOkToTestComment(c.text, Prefix) /\ c.by \in Trusted(hook)
    BY <1>6 DEF IsApproved
  <2>2. Prefix' = Prefix /\ (Trusted(hook))' = Trusted(hook) /\ Settings' = Settings
    BY <1>1, TheInstallationLasts
  <2>3. c \in (Counting(hook, number))'
    <3>1. ASSUME NEW k \in DOMAIN forge.comments, forge.comments[k] = c
          PROVE  c \in Range(forge'.comments)
      BY <2>1, <3>1 DEF ForgeLasts, Range
    <3>2. c \in Range(forge.comments) => c \in Range(forge'.comments)
      BY <3>1 DEF Range
    <3> QED
      BY <1>1, <2>1, <2>2, <3>2 DEF Counting, Is
  <2>4. (IsApproved(hook, number))'
    BY <2>1, <2>2, <2>3 DEF IsApproved
  <2> QED
    BY <2>4 DEF Entitled
<1> QED
  BY <1>2, <1>3, <1>4, <1>5, <1>6 DEF Entitled

LEMMA WhatIsInOrderStays ==
    ASSUME ForgeLasts, NEW d, DeliveryOK(d)
    PROVE  (DeliveryOK(d))'
<1>1. setup' = setup
  BY DEF ForgeLasts
<1>2. (HookOK(d.hook))'
  <2>1. HookOK(d.hook)
    BY DEF DeliveryOK
  <2> QED
    BY <2>1 DEF HookOK, ForgeLasts
<1>3. EventOK(d.hook, d.event) => (EventOK(d.hook, d.event))'
  <2> SUFFICES ASSUME EventOK(d.hook, d.event) PROVE (EventOK(d.hook, d.event))'
    OBVIOUS
  <2>1. (Sender(d.hook))' = Sender(d.hook) /\ (Cancels(d.hook))' = Cancels(d.hook)
    BY <1>1, TheInstallationLasts
  <2>2. OfTheRepository(d.event.number) => (OfTheRepository(d.event.number))'
    BY DEF OfTheRepository, ForgeLasts
  <2> QED
    BY <2>1, <2>2 DEF EventOK
<1>4. Cleared(d) => (Cleared(d))'
  <2>1. Entitled(d.hook, d.event.number) => (Entitled(d.hook, d.event.number))'
    BY WhatIsEntitledStays
  <2> QED
    BY <2>1 DEF Cleared
<1>5. (Detect(d.hook))' = Detect(d.hook)
  BY <1>1, TheInstallationLasts
<1> QED
  BY <1>2, <1>3, <1>4, <1>5 DEF DeliveryOK

LEMMA EchoesAreInOrder ==
    ASSUME NEW number, NEW d, Echoes(number, d)
    PROVE  (DeliveryOK(d))'
<1>1. PICK h : d = Delivery(h) /\ h.by = Bot /\ h.kind = "comment"
  BY DEF Echoes
<1>2. DOMAIN d = DeliveryFields /\ d.hook = h /\ d.pc = "sent" /\ d.event = NewEvent
  BY <1>1 DEF Delivery, DeliveryFields
<1>3. DOMAIN d.event = EventFields
  BY <1>2, ANewEvent
<1>4. (HookOK(h))'
  <2>1. h.by # ""
    BY <1>1 DEF Bot
  <2>2. h.kind # "pull_request" /\ h.kind \notin {"check_suite", "check_run"}
    BY <1>1
  <2> QED
    BY <2>1, <2>2 DEF HookOK
<1> QED
  BY <1>2, <1>3, <1>4 DEF DeliveryOK

\* What a delivery may start.
StartedBy(r, i) ==
  /\ {"by", "number", "status"} \subseteq DOMAIN r
  /\ r.by = i
  /\ \A hook \in {deliveries[i].hook} : Entitled(hook, r.number)

\* A step of one delivery, the hooks it has caused and the runs it has started.
LEMMA StepOfADelivery ==
    ASSUME IntakeInv, ForgeLasts, ForgeOK', acts' = acts,
           NEW i \in DOMAIN deliveries, \A r \in runs' : r \in runs \/ StartedBy(r, i), NEW after, (DeliveryOK(after))', after.hook = deliveries[i].hook,
           NEW number, NEW hooks, hooks \in Seq(Range(hooks)), \A j \in DOMAIN hooks : Echoes(number, hooks[j]),
           deliveries' = [deliveries EXCEPT ![i] = after] \o hooks
    PROVE  IntakeInv'
<1> DEFINE changed == [deliveries EXCEPT ![i] = after]
<1>1. deliveries \in Seq(Range(deliveries))
  BY DEF IntakeInv
<1>2. /\ changed \in Seq(Range(changed)) /\ DOMAIN changed = DOMAIN deliveries
      /\ \A j \in DOMAIN deliveries : changed[j] = IF j = i THEN after ELSE deliveries[j]
  BY <1>1, SeqChanged
<1> HIDE DEF changed
<1>3. /\ deliveries' = changed \o hooks
      /\ deliveries' \in Seq(Range(deliveries'))
      /\ Len(changed) \in Nat /\ DOMAIN changed = 1 .. Len(changed) /\ Len(hooks) \in Nat
      /\ DOMAIN deliveries' = 1 .. Len(changed) + Len(hooks)
      /\ \A j \in DOMAIN changed : deliveries'[j] = changed[j]
      /\ \A j \in DOMAIN deliveries' :
           j \notin DOMAIN changed => j - Len(changed) \in DOMAIN hooks /\ deliveries'[j] = hooks[j - Len(changed)]
  <2>1. deliveries' = changed \o hooks
    BY DEF changed
  <2> DEFINE joined == changed \o hooks
  <2>2. /\ joined \in Seq(Range(joined))
        /\ Len(changed) \in Nat /\ DOMAIN changed = 1 .. Len(changed) /\ Len(hooks) \in Nat
        /\ DOMAIN joined = 1 .. Len(changed) + Len(hooks)
        /\ \A j \in DOMAIN changed : joined[j] = changed[j]
        /\ \A j \in DOMAIN joined :
             j \notin DOMAIN changed => j - Len(changed) \in DOMAIN hooks /\ joined[j] = hooks[j - Len(changed)]
    BY <1>2, SeqJoined
  <2> HIDE DEF joined
  <2>3. deliveries' = joined
    BY <2>1 DEF joined
  <2> QED
    BY <2>1, <2>2, <2>3
<1>4. ASSUME NEW d \in Range(deliveries') PROVE (DeliveryOK(d))'
  <2>1. PICK j \in DOMAIN deliveries' : d = deliveries'[j]
    BY <1>4 DEF Range
  <2>2. CASE j \in DOMAIN changed /\ j # i
    <3>1. d \in Range(deliveries)
      BY <1>2, <1>3, <2>1, <2>2 DEF Range
    <3>2. DeliveryOK(d)
      BY <3>1 DEF IntakeInv
    <3> QED
      BY <3>2, WhatIsInOrderStays
  <2>3. CASE j \in DOMAIN changed /\ j = i
    <3>1. d = after
      BY <1>2, <1>3, <2>1, <2>3
    <3> QED
      BY <3>1
  <2>4. CASE j \notin DOMAIN changed
    <3>1. Echoes(number, d)
      BY <1>3, <2>1, <2>4
    <3> QED
      BY <3>1, EchoesAreInOrder
  <2> QED
    BY <2>2, <2>3, <2>4
<1>5. \A j \in DOMAIN deliveries : j \in DOMAIN deliveries' /\ deliveries'[j].hook = deliveries[j].hook
  BY <1>2, <1>3
<1>6. ASSUME NEW r \in runs' PROVE (RunOK(r))'
  <2>1. /\ {"by", "number", "status"} \subseteq DOMAIN r /\ r.by \in DOMAIN deliveries
        /\ \A hook \in {deliveries[r.by].hook} : Entitled(hook, r.number)
    <3>1. CASE r \in runs
      <4>1. RunOK(r)
        BY <3>1 DEF IntakeInv
      <4> QED
        BY <4>1 DEF RunOK
    <3>2. CASE StartedBy(r, i)
      BY <3>2 DEF StartedBy
    <3> QED
      BY <3>1, <3>2
  <2>2. r.by \in DOMAIN deliveries /\ r.by \in DOMAIN deliveries' /\ deliveries'[r.by].hook = deliveries[r.by].hook
    BY <1>5, <2>1
  <2>3. PICK hook : hook = deliveries[r.by].hook
    OBVIOUS
  <2>4. Entitled(hook, r.number)
    BY <2>1, <2>3
  <2>5. (Entitled(hook, r.number))'
    BY <2>4, WhatIsEntitledStays
  <2>6. \A h \in {deliveries'[r.by].hook} : (Entitled(h, r.number))'
    BY <2>2, <2>3, <2>5
  <2> QED
    BY <2>1, <2>2, <2>6 DEF RunOK
<1>7. setup' \in Setups /\ acts' \in Nat
  BY DEF IntakeInv, ForgeLasts
<1> QED
  BY <1>3, <1>4, <1>6, <1>7 DEF IntakeInv

\* The script goes on, and what has happened stays so.
ScriptGoesOn ==
  /\ setup' = setup /\ acts \in Nat /\ acts' \in {acts, acts + 1}
  /\ DOMAIN forge.pulls \subseteq DOMAIN forge'.pulls

LEMMA CommitsStay ==
    ASSUME ScriptGoesOn, NEW n
    PROVE  /\ CommitsBy(setup, acts, n) \subseteq (CommitsBy(setup, acts, n))'
           /\ DefaultHeadsBy(setup, acts) \subseteq (DefaultHeadsBy(setup, acts))'
           /\ (CommitsBy(setup, acts, n))' = CommitsBy(setup, acts', n)
           /\ (DefaultHeadsBy(setup, acts))' = DefaultHeadsBy(setup, acts')
<1>1. 0..acts \subseteq 0..acts'
  BY DEF ScriptGoesOn
<1>2. CommitsBy(setup, acts, n) \subseteq CommitsBy(setup, acts', n)
  BY <1>1 DEF CommitsBy
<1>3. DefaultHeadsBy(setup, acts) \subseteq DefaultHeadsBy(setup, acts')
  BY <1>1 DEF DefaultHeadsBy
<1>4. (CommitsBy(setup, acts, n))' = CommitsBy(setup, acts', n)
  BY DEF ScriptGoesOn, CommitsBy, PullsAt
<1>5. (DefaultHeadsBy(setup, acts))' = DefaultHeadsBy(setup, acts')
  BY DEF ScriptGoesOn, DefaultHeadsBy, BranchesAt
<1> QED
  BY <1>2, <1>3, <1>4, <1>5

LEMMA WhatIsKnownStays ==
    ASSUME ScriptGoesOn
    PROVE  /\ \A hook : HookTells(hook) => (HookTells(hook))'
           /\ \A hook, e : CommitOK(hook, e) => (CommitOK(hook, e))'
           /\ \A sha, from : FromOK(sha, from) => (FromOK(sha, from))'
           /\ \A d : DeliveryTells(d) => (DeliveryTells(d))'
<1>1. /\ Settings' = Settings /\ Is("github")' = Is("github") /\ Is("gitea")' = Is("gitea")
      /\ DOMAIN forge.pulls \subseteq DOMAIN forge'.pulls
  BY DEF ScriptGoesOn, Settings, Is
<1>2. ASSUME NEW hook, HookTells(hook) PROVE (HookTells(hook))'
  BY <1>1, <1>2, CommitsStay DEF HookTells
<1>3. ASSUME NEW hook, NEW e, CommitOK(hook, e) PROVE (CommitOK(hook, e))'
  BY <1>1, <1>3, CommitsStay DEF CommitOK
<1>4. ASSUME NEW sha, NEW from, FromOK(sha, from) PROVE (FromOK(sha, from))'
  BY <1>1, <1>4, CommitsStay DEF FromOK
<1>5. ASSUME NEW d, DeliveryTells(d) PROVE (DeliveryTells(d))'
  <2>1. (HookTells(d.hook))'
    BY <1>2, <1>5 DEF DeliveryTells
  <2>2. CommitOK(d.hook, d.event) => (CommitOK(d.hook, d.event))'
    BY <1>3
  <2>3. FromOK(d.event.sha, d.from) => (FromOK(d.event.sha, d.from))'
    BY <1>4
  <2> QED
    BY <1>1, <1>5, <2>1, <2>2, <2>3 DEF DeliveryTells
<1> QED
  BY <1>2, <1>3, <1>4, <1>5

\* What is known of the commits of the forge, while it keeps them.
LEMMA ForgeStillTells ==
    ASSUME ForgeTells, ScriptGoesOn, acts' = acts, forge'.pulls = forge.pulls, forge'.branches = forge.branches
    PROVE  ForgeTells'
<1>1. /\ \A n : (CommitsBy(setup, acts, n))' = CommitsBy(setup, acts, n)
      /\ (DefaultHeadsBy(setup, acts))' = DefaultHeadsBy(setup, acts)
  BY CommitsStay
<1> QED
  BY <1>1 DEF ForgeTells

\* What is sent for a comment of the bot tells of the pull request.
LEMMA EchoesTell ==
    ASSUME CommitInv, NEW number, number \in {0} \cup DOMAIN forge.pulls, NEW d, Echoes(number, d)
    PROVE  DeliveryTells(d)
<1>1. PICK h : /\ d = Delivery(h) /\ h.kind = "comment" /\ h.number = number /\ h.pull = forge.pulls[number]
               /\ number # 0
  BY DEF Echoes
<1>2. d.hook = h /\ d.pc = "sent"
  BY <1>1 DEF Delivery
<1>3. h.pull.head \in CommitsBy(setup, acts, h.number)
  BY <1>1 DEF CommitInv, ForgeTells
<1>4. HookTells(h)
  BY <1>1, <1>3 DEF HookTells, ByCommit
<1> QED
  BY <1>2, <1>4 DEF DeliveryTells

\* The commit of what a delivery starts, and of its definition.
TellsBy(r, i) ==
  /\ {"sha", "from", "type"} \subseteq DOMAIN r
  /\ FromOK(r.sha, r.from)
  /\ \A hook \in {deliveries[i].hook} : CommitOK(hook, r)

LEMMA CommitsOfADelivery ==
    ASSUME IntakeInv, CommitInv, setup' = setup, acts' = acts,
           forge'.pulls = forge.pulls, forge'.branches = forge.branches,
           NEW i \in DOMAIN deliveries, \A r \in runs' : r \in runs \/ (StartedBy(r, i) /\ TellsBy(r, i)),
           NEW after, DeliveryTells(after), after.hook = deliveries[i].hook,
           NEW hooks, hooks \in Seq(Range(hooks)), \A j \in DOMAIN hooks : DeliveryTells(hooks[j]),
           deliveries' = [deliveries EXCEPT ![i] = after] \o hooks
    PROVE  CommitInv'
<1> DEFINE changed == [deliveries EXCEPT ![i] = after]
<1>1. deliveries \in Seq(Range(deliveries)) /\ acts \in Nat
  BY DEF IntakeInv
<1>2. /\ changed \in Seq(Range(changed)) /\ DOMAIN changed = DOMAIN deliveries
      /\ \A j \in DOMAIN deliveries : changed[j] = IF j = i THEN after ELSE deliveries[j]
  BY <1>1, SeqChanged
<1>3. deliveries' = changed \o hooks
  OBVIOUS
<1> HIDE DEF changed
<1>4. PICK joined : joined = changed \o hooks
  OBVIOUS
<1>5. /\ \A j \in DOMAIN changed : j \in DOMAIN joined /\ joined[j] = changed[j]
      /\ \A j \in DOMAIN joined : j \notin DOMAIN changed => \E k \in DOMAIN hooks : joined[j] = hooks[k]
  <2>1. /\ Len(changed) \in Nat /\ DOMAIN changed = 1 .. Len(changed) /\ Len(hooks) \in Nat
        /\ DOMAIN joined = 1 .. Len(changed) + Len(hooks)
        /\ \A j \in DOMAIN changed : joined[j] = changed[j]
        /\ \A j \in DOMAIN joined :
             j \notin DOMAIN changed => j - Len(changed) \in DOMAIN hooks /\ joined[j] = hooks[j - Len(changed)]
    BY <1>2, <1>4, SeqJoined
  <2>2. DOMAIN changed \subseteq DOMAIN joined
    BY <2>1
  <2> QED
    BY <2>1, <2>2
<1>6. deliveries' = joined
  BY <1>3, <1>4
<1>7. ScriptGoesOn
  BY <1>1 DEF ScriptGoesOn
<1>8. ASSUME NEW d \in Range(joined) PROVE DeliveryTells(d)
  <2>1. PICK j \in DOMAIN joined : d = joined[j]
    BY <1>8 DEF Range
  <2>2. CASE j \in DOMAIN changed /\ j # i
    <3>1. d \in Range(deliveries)
      BY <1>2, <1>5, <2>1, <2>2 DEF Range
    <3> QED
      BY <3>1 DEF CommitInv
  <2>3. CASE j \in DOMAIN changed /\ j = i
    BY <1>2, <1>5, <2>1, <2>3
  <2>4. CASE j \notin DOMAIN changed
    BY <1>5, <2>1, <2>4
  <2> QED
    BY <2>2, <2>3, <2>4
<1>9. ASSUME NEW d \in Range(deliveries') PROVE (DeliveryTells(d))'
  <2>1. DeliveryTells(d)
    BY <1>6, <1>8
  <2> QED
    BY <1>7, <2>1, WhatIsKnownStays
<1>10. \A j \in DOMAIN deliveries : deliveries'[j].hook = deliveries[j].hook
  BY <1>2, <1>5, <1>6
<1>11. ASSUME NEW r \in runs' PROVE (RunTells(r))'
  <2>1. /\ {"by", "number", "status", "sha", "from", "type"} \subseteq DOMAIN r /\ r.by \in DOMAIN deliveries
        /\ FromOK(r.sha, r.from) /\ \A hook \in {deliveries[r.by].hook} : CommitOK(hook, r)
    <3>1. CASE r \in runs
      <4>1. RunOK(r) /\ RunTells(r)
        BY <3>1 DEF IntakeInv, CommitInv
      <4> QED
        BY <4>1 DEF RunOK, RunTells
    <3>2. CASE StartedBy(r, i) /\ TellsBy(r, i)
      BY <3>2 DEF StartedBy, TellsBy
    <3> QED
      BY <3>1, <3>2
  <2>2. PICK hook : hook = deliveries[r.by].hook
    OBVIOUS
  <2>3. (CommitOK(hook, r))' /\ (FromOK(r.sha, r.from))'
    BY <1>7, <2>1, <2>2, WhatIsKnownStays
  <2>4. \A h \in {deliveries'[r.by].hook} : (CommitOK(h, r))'
    BY <1>10, <2>1, <2>2, <2>3
  <2> QED
    BY <2>1, <2>3, <2>4 DEF RunTells
<1>12. ForgeTells'
  <2>1. ForgeTells
    BY DEF CommitInv
  <2> QED
    BY <1>7, <2>1, ForgeStillTells
<1>13. acts' <= Len(setup'.script)
  BY DEF CommitInv
<1> QED
  BY <1>9, <1>11, <1>12, <1>13 DEF CommitInv

\* Neither what was called nor what was written matters to what is in order.
LEMMA CountedAreInOrder ==
    ASSUME NEW d, DeliveryOK(d), NEW after, Counted(d, after)
    PROVE  /\ DeliveryOK(after) /\ after.hook = d.hook
           /\ DeliveryTells(d) => DeliveryTells(after)
<1>1. DOMAIN d = DeliveryFields
  BY DEF DeliveryOK
<1>2. DOMAIN after = DeliveryFields /\ \A f \in DeliveryFields : f \notin {"comments", "failed"} => after[f] = d[f]
  BY <1>1 DEF Counted
<1>3. /\ after.hook = d.hook /\ after.pc = d.pc /\ after.event = d.event /\ after.names = d.names
      /\ after.definitions = d.definitions /\ after.from = d.from /\ after.byBranch = d.byBranch
  BY <1>2 DEF DeliveryFields
<1>4. DeliveryOK(after)
  BY <1>2, <1>3 DEF DeliveryOK, Cleared
<1>5. DeliveryTells(d) => DeliveryTells(after)
  BY <1>3 DEF DeliveryTells
<1> QED
  BY <1>3, <1>4, <1>5

\* A step of a goroutine that leaves the forge as it is.
LEMMA StepThatAsks ==
    ASSUME IntakeInv, NEW i \in DOMAIN deliveries, NEW after, NEW broken,
           Calls(i, after, broken), UNCHANGED <<setup, forge, acts>>,
           \A r \in runs' : r \in runs \/ (StartedBy(r, i) /\ (CommitInv => TellsBy(r, i))),
           DeliveryOK(after), CommitInv => DeliveryTells(after), after.hook = deliveries[i].hook
    PROVE  IntakeInv' /\ (CommitInv => CommitInv')
<1> DEFINE now == [after EXCEPT !.failed = after.failed \cup broken]
           changed == [deliveries EXCEPT ![i] = now]
<1>1. ForgeLasts
  <2>1. setup' = setup /\ forge' = forge
    OBVIOUS
  <2> QED
    BY <2>1 DEF ForgeLasts
<1>2. ForgeOK'
  <2>1. ForgeOK /\ setup' = setup /\ forge' = forge /\ acts' = acts
    BY DEF IntakeInv
  <2>2. Prefix' = Prefix
    BY <2>1, TheInstallationLasts
  <2> QED
    BY <2>1, <2>2 DEF ForgeOK
<1>3. deliveries' = changed
  BY DEF Calls
<1>4. Counted(after, now)
  BY DEF Counted
<1> HIDE DEF now
<1>5. DeliveryOK(now) /\ now.hook = deliveries[i].hook /\ (CommitInv => DeliveryTells(now))
  BY <1>4, CountedAreInOrder
<1>6. (DeliveryOK(now))'
  BY <1>1, <1>5, WhatIsInOrderStays
<1>7. deliveries \in Seq(Range(deliveries))
  BY DEF IntakeInv
<1>8. changed \in Seq(Range(changed))
  BY <1>7, SeqChanged
<1>9. changed \o <<>> = changed
  BY <1>8, ConcatEmptySeq
<1>10. deliveries' = changed \o <<>>
  BY <1>3, <1>9
<1>11. <<>> \in Seq(Range(<<>>)) /\ \A j \in DOMAIN <<>> : Echoes(0, <<>>[j])
  OBVIOUS
<1>12. acts' = acts
  OBVIOUS
<1>13. IntakeInv'
  BY <1>1, <1>2, <1>5, <1>6, <1>10, <1>11, <1>12, StepOfADelivery DEF changed
<1>14. ASSUME CommitInv PROVE CommitInv'
  <2>1. \A r \in runs' : r \in runs \/ (StartedBy(r, i) /\ TellsBy(r, i))
    BY <1>14
  <2>2. <<>> \in Seq(Range(<<>>)) /\ \A j \in DOMAIN <<>> : DeliveryTells(<<>>[j])
    OBVIOUS
  <2>3. setup' = setup /\ forge'.pulls = forge.pulls /\ forge'.branches = forge.branches
    OBVIOUS
  <2> QED
    BY <1>5, <1>10, <1>12, <1>14, <2>1, <2>2, <2>3, CommitsOfADelivery DEF changed
<1> QED
  BY <1>13, <1>14

\* A step of a goroutine that may write comments.
LEMMA StepThatWrites ==
    ASSUME IntakeInv, NEW i \in DOMAIN deliveries, NEW d, NEW texts, texts \in Seq(Range(texts)), NEW broken,
           \A k \in DOMAIN texts : ~IsOkToTestComment(texts[k][1], Prefix),
           Commented(i, d, texts, broken), UNCHANGED <<setup, acts, runs>>,
           DeliveryOK(d), d.hook = deliveries[i].hook,
           CommitInv => DeliveryTells(d) /\ d.event.number \in {0} \cup DOMAIN forge.pulls
    PROVE  IntakeInv' /\ (CommitInv => CommitInv')
<1>1. ForgeOK
  BY DEF IntakeInv
<1>2. PICK after, comments, hooks :
         /\ Counted(d, after)
         /\ CommentsKept(comments)
         /\ hooks \in Seq(Range(hooks)) /\ \A j \in DOMAIN hooks : Echoes(d.event.number, hooks[j])
         /\ forge' = [forge EXCEPT !.comments = comments]
         /\ deliveries' = [deliveries EXCEPT ![i] = after] \o hooks
  BY <1>1, WhatIsWritten
<1>3. setup' = setup /\ acts' = acts /\ runs' = runs
  OBVIOUS
<1>4. /\ DOMAIN forge' = DOMAIN forge /\ forge'.pulls = forge.pulls /\ forge'.comments = comments
      /\ forge'.branches = forge.branches
  BY <1>1, <1>2 DEF ForgeOK
<1>5. ForgeLasts
  BY <1>2, <1>3, <1>4 DEF ForgeLasts, CommentsKept
<1>6. ForgeOK'
  <2>1. Prefix' = Prefix
    BY <1>3, TheInstallationLasts
  <2> QED
    BY <1>1, <1>2, <1>3, <1>4, <2>1 DEF ForgeOK, CommentsKept
<1>7. DeliveryOK(after) /\ after.hook = deliveries[i].hook /\ (CommitInv => DeliveryTells(after))
  BY <1>2, CountedAreInOrder
<1>8. (DeliveryOK(after))'
  BY <1>5, <1>7, WhatIsInOrderStays
<1>9. IntakeInv'
  BY <1>2, <1>3, <1>5, <1>6, <1>7, <1>8, StepOfADelivery
<1>10. ASSUME CommitInv PROVE CommitInv'
  <2>1. \A j \in DOMAIN hooks : DeliveryTells(hooks[j])
    BY <1>2, <1>10, EchoesTell
  <2>2. \A r \in runs' : r \in runs \/ (StartedBy(r, i) /\ TellsBy(r, i))
    BY <1>3
  <2> QED
    BY <1>2, <1>3, <1>4, <1>7, <1>10, <2>1, <2>2, CommitsOfADelivery
<1> QED
  BY <1>9, <1>10

(***************************************************************************)
(* The provider's answer is one of three                                   *)
(***************************************************************************)
Answers == {"allowed", "denied", "error"}

LEMMA FirstAnswersAreAnswers ==
    ASSUME NEW answers, Len(answers) \in Nat, \A i \in 1 .. Len(answers) : answers[i] \in Answers
    PROVE  /\ GitHub!FirstAnswer(answers) \in Answers
           /\ Gitea!FirstAnswer(answers) \in Answers
           /\ BitbucketCloud!FirstAnswer(answers) \in Answers
           /\ BitbucketDataCenter!FirstAnswer(answers) \in Answers
<1> DEFINE S == {i \in 1 .. Len(answers) : answers[i] # "denied"}
           m == CHOOSE x \in S : \A y \in S : x <= y
           first == IF S # {} THEN m ELSE 0
           answer == IF first = 0 THEN "denied" ELSE answers[first]
<1>0. S \in SUBSET Nat
  OBVIOUS
<1> HIDE DEF S
<1>1. S # {} => m \in S
  BY <1>0, Smallest
<1> USE DEF S
<1>2. answer \in Answers
  BY <1>1 DEF Answers
<1>3. GitHub!FirstAnswer(answers) = answer
  BY DEF GitHub!FirstAnswer, GitHub!SelectInSeq, GitHub!Min
<1>4. Gitea!FirstAnswer(answers) = answer
  BY DEF Gitea!FirstAnswer, Gitea!SelectInSeq, Gitea!Min
<1>5. BitbucketCloud!FirstAnswer(answers) = answer
  BY DEF BitbucketCloud!FirstAnswer, BitbucketCloud!SelectInSeq, BitbucketCloud!Min
<1>6. BitbucketDataCenter!FirstAnswer(answers) = answer
  BY DEF BitbucketDataCenter!FirstAnswer, BitbucketDataCenter!SelectInSeq, BitbucketDataCenter!Min
<1> QED
  BY <1>2, <1>3, <1>4, <1>5, <1>6

LEMMA ChecksAreAnswers ==
    ASSUME NEW u, NEW event, NEW hook, NEW broken
    PROVE  /\ GitHub!aclCheckAll(u, event, hook, Settings, broken) \in Answers
           /\ Gitea!aclCheckAll(u, Settings, broken) \in Answers
           /\ BitbucketCloud!checkMember(u, Settings, broken) \in Answers
           /\ BitbucketDataCenter!checkMemberShip(u, Settings, broken) \in Answers
<1>1. GitHub!aclCheckAll(u, event, hook, Settings, broken) \in Answers
  BY DEF Answers, GitHub!aclCheckAll, GitHub!Else, GitHub!Asked, GitHub!Answer
<1>2. Gitea!aclCheckAll(u, Settings, broken) \in Answers
  BY DEF Answers, Gitea!aclCheckAll, Gitea!Else, Gitea!Asked, Gitea!Answer
<1>3. BitbucketCloud!checkMember(u, Settings, broken) \in Answers
  BY DEF Answers, BitbucketCloud!checkMember, BitbucketCloud!isWorkspaceMember, BitbucketCloud!Else,
    BitbucketCloud!Asked, BitbucketCloud!Answer
<1>4. BitbucketDataCenter!checkMemberShip(u, Settings, broken) \in Answers
  BY DEF Answers, BitbucketDataCenter!checkMemberShip, BitbucketDataCenter!Else, BitbucketDataCenter!Asked,
    BitbucketDataCenter!Answer
<1> QED
  BY <1>1, <1>2, <1>3, <1>4

LEMMA IsAllowedAnswers ==
    ASSUME setup \in Setups, ForgeOK, NEW event, NEW hook, NEW broken
    PROVE  IsAllowed(event, hook, broken) \in Answers
<1>1. /\ Forge.comments = forge.comments
      /\ Len(forge.comments) \in Nat /\ DOMAIN forge.comments = 1 .. Len(forge.comments)
  BY ForgeIsTheForge, LenProperties DEF ForgeOK
<1>2. "denied" \in Answers /\ "allowed" \in Answers /\ "error" \in Answers
  BY DEF Answers
<1>3. CASE Is("github")
  <2> DEFINE check(by) == GitHub!aclCheckAll(by, event, hook, Settings, broken)
             said == GitHub!GetStringPullRequestComment(hook.number, Forge, Settings.prefix)
             answers == [i \in DOMAIN Forge.comments |-> IF i \in said THEN check(Forge.comments[i].by) ELSE "denied"]
             about == GitHub!FirstAnswer(answers)
             fromOwner == GitHub!aclAllowedOkToTestFromAnOwner(event, hook, Forge, Settings, broken)
  <2>1. \A by : check(by) \in Answers
    BY ChecksAreAnswers
  <2> HIDE DEF said, check
  <2>2. Len(answers) \in Nat /\ \A i \in 1 .. Len(answers) : answers[i] \in Answers
    BY <1>1, <1>2, <2>1
  <2> HIDE DEF answers
  <2>3. about \in Answers
    BY <2>2, FirstAnswersAreAnswers
  <2>4. fromOwner \in {"denied", "error", about} \cup {check(by) : by \in {hook.by}}
    BY DEF GitHub!aclAllowedOkToTestFromAnOwner, GitHub!FirstAbout, about, answers, said, check
  <2>5. fromOwner \in Answers
    BY <1>2, <2>1, <2>3, <2>4
  <2> HIDE DEF about, fromOwner
  <2>6. GitHub!IsAllowed(event, hook, Forge, Settings, broken) \in {"allowed", "denied", fromOwner, check(event.sender)}
    BY DEF GitHub!IsAllowed, GitHub!Else, check, fromOwner
  <2>7. IsAllowed(event, hook, broken) = GitHub!IsAllowed(event, hook, Forge, Settings, broken)
    BY <1>3 DEF IsAllowed, Is
  <2> QED
    BY <1>2, <2>1, <2>5, <2>6, <2>7
<1>4. CASE Is("gitlab")
  <2>1. IsAllowed(event, hook, broken) = GitLab!IsAllowed(event, hook, Forge, Settings, broken)
    BY <1>4 DEF IsAllowed, Is
  <2> QED
    BY <2>1 DEF GitLab!IsAllowed, GitLab!checkOkToTestCommentFromApprovedMember,
      GitLab!aclAllowedOkToTestCurrentComment, GitLab!Answer, Answers
<1>5. CASE Is("gitea")
  <2> DEFINE check(by) == Gitea!aclCheckAll(by, Settings, broken)
             said == Gitea!GetStringPullRequestComment(hook.number, Forge)
             answers == [i \in DOMAIN Forge.comments |-> IF i \in said THEN check(Forge.comments[i].by) ELSE "denied"]
             about == Gitea!FirstAnswer(answers)
             fromOwner == Gitea!aclAllowedOkToTestFromAnOwner(hook, Forge, Settings, broken)
  <2>1. \A by : check(by) \in Answers
    BY ChecksAreAnswers
  <2> HIDE DEF said, check
  <2>2. Len(answers) \in Nat /\ \A i \in 1 .. Len(answers) : answers[i] \in Answers
    BY <1>1, <1>2, <2>1
  <2> HIDE DEF answers
  <2>3. about \in Answers
    BY <2>2, FirstAnswersAreAnswers
  <2>4. fromOwner \in {"denied", "error", about} \cup {check(by) : by \in {hook.by}}
    BY DEF Gitea!aclAllowedOkToTestFromAnOwner, Gitea!aclAllowedOkToTestCurrentComment, Gitea!FirstAbout, about, answers, said, check
  <2>5. fromOwner \in Answers
    BY <1>2, <2>1, <2>3, <2>4
  <2> HIDE DEF about, fromOwner
  <2>6. Gitea!IsAllowed(event, hook, Forge, Settings, broken) \in {"allowed", "denied", fromOwner, check(event.sender)}
    BY DEF Gitea!IsAllowed, Gitea!Else, check, fromOwner
  <2>7. IsAllowed(event, hook, broken) = Gitea!IsAllowed(event, hook, Forge, Settings, broken)
    BY <1>5 DEF IsAllowed, Is
  <2> QED
    BY <1>2, <2>1, <2>5, <2>6, <2>7
<1>6. CASE Is("bitbucket-cloud")
  <2> DEFINE check(by) == BitbucketCloud!checkMember(by, Settings, broken)
             said == {i \in DOMAIN Forge.comments :
                        /\ Forge.comments[i].on = event.number
                        /\ BitbucketCloud!IsOkToTestComment(Forge.comments[i].text, "/")}
             answers == [i \in DOMAIN Forge.comments |-> IF i \in said THEN check(Forge.comments[i].by) ELSE "denied"]
             about == BitbucketCloud!FirstAnswer(answers)
  <2>1. \A by : check(by) \in Answers
    BY ChecksAreAnswers
  <2> HIDE DEF said, check
  <2>2. Len(answers) \in Nat /\ \A i \in 1 .. Len(answers) : answers[i] \in Answers
    BY <1>1, <1>2, <2>1
  <2> HIDE DEF answers
  <2>3. about \in Answers
    BY <2>2, FirstAnswersAreAnswers
  <2>4. BitbucketCloud!IsAllowed(event, hook, Forge, Settings, broken) \in {"error", about, check(event.sender)}
    BY DEF BitbucketCloud!IsAllowed, BitbucketCloud!Else, BitbucketCloud!checkOkToTestCommentFromApprovedMember,
      BitbucketCloud!FirstAbout, about, answers, said, check
  <2>5. IsAllowed(event, hook, broken) = BitbucketCloud!IsAllowed(event, hook, Forge, Settings, broken)
    BY <1>6 DEF IsAllowed, Is
  <2> HIDE DEF about
  <2> QED
    BY <1>2, <2>1, <2>3, <2>4, <2>5
<1>7. CASE Is("bitbucket-datacenter")
  <2> DEFINE check(by) == BitbucketDataCenter!checkMemberShip(by, Settings, broken)
             said == {i \in DOMAIN Forge.comments :
                        /\ Forge.comments[i].on = event.number
                        /\ BitbucketDataCenter!IsOkToTestComment(Forge.comments[i].text, "/")}
             answers == [i \in DOMAIN Forge.comments |-> IF i \in said THEN check(Forge.comments[i].by) ELSE "denied"]
             about == BitbucketDataCenter!FirstAnswer(answers)
  <2>1. \A by : check(by) \in Answers
    BY ChecksAreAnswers
  <2> HIDE DEF said, check
  <2>2. Len(answers) \in Nat /\ \A i \in 1 .. Len(answers) : answers[i] \in Answers
    BY <1>1, <1>2, <2>1
  <2> HIDE DEF answers
  <2>3. about \in Answers
    BY <2>2, FirstAnswersAreAnswers
  <2>4. BitbucketDataCenter!IsAllowed(event, hook, Forge, Settings, broken) \in {"error", about, check(event.sender)}
    BY DEF BitbucketDataCenter!IsAllowed, BitbucketDataCenter!Else,
      BitbucketDataCenter!checkOkToTestCommentFromApprovedMember, BitbucketDataCenter!FirstAbout, about, answers, said, check
  <2>5. IsAllowed(event, hook, broken) = BitbucketDataCenter!IsAllowed(event, hook, Forge, Settings, broken)
    BY <1>7 DEF IsAllowed, Is
  <2> HIDE DEF about
  <2> QED
    BY <1>2, <2>1, <2>3, <2>4, <2>5
<1> QED
  BY <1>3, <1>4, <1>5, <1>6, <1>7, IntakeAssumption DEF Is

(***************************************************************************)
(* What becomes of a delivery when a step has answered                     *)
(***************************************************************************)
Sound(d) ==
  /\ DOMAIN d = DeliveryFields /\ DOMAIN d.event = EventFields
  /\ HookOK(d.hook)
  /\ d.hook.kind = "incoming" \/ Detect(d.hook)

\* Nothing is started for a delivery that is over.
Over(d, now) == Sound(now) /\ now.hook = d.hook /\ now.pc \in {"done", "cancels"}

LEMMA OverIsInOrder ==
    ASSUME NEW d, NEW now, Over(d, now)
    PROVE  /\ DeliveryOK(now) /\ now.hook = d.hook
           /\ HookTells(d.hook) => DeliveryTells(now)
BY DEF Over, Sound, DeliveryOK, DeliveryTells

LEMMA WhatIsToldIsSound ==
    ASSUME NEW d, Sound(d), NEW status, NEW broken
    PROVE  /\ Sound(Tell(d, status, broken)) /\ Tell(d, status, broken).hook = d.hook
           /\ Tell(d, status, broken).pc = d.pc /\ Tell(d, status, broken).event = d.event
           /\ Tell(d, status, broken).names = d.names /\ Tell(d, status, broken).definitions = d.definitions
<1> DEFINE told == [d EXCEPT !.told = status]
<1>1. Sound(told) /\ told.hook = d.hook /\ told.pc = d.pc /\ told.event = d.event
      /\ told.names = d.names /\ told.definitions = d.definitions
  BY DEF Sound, DeliveryFields
<1>2. Tell(d, status, broken) = d \/ Tell(d, status, broken) = told
  BY DEF Tell
<1> HIDE DEF told
<1> QED
  BY <1>1, <1>2

LEMMA WhatIsEndedIsOver ==
    ASSUME NEW d, NEW now, Sound(now), now.hook = d.hook
    PROVE  Over(d, End(now)) /\ End(now).event = now.event
<1> DEFINE a == [now EXCEPT !.pc = "done"]
           b == [a EXCEPT !.names = <<>>]
           c == [b EXCEPT !.definitions = <<>>]
           e == [c EXCEPT !.files = {}]
<1>1. Sound(a) /\ a.hook = d.hook /\ a.pc = "done" /\ a.event = now.event
  BY DEF Sound, DeliveryFields
<1> HIDE DEF a
<1>2. Sound(b) /\ b.hook = d.hook /\ b.pc = "done" /\ b.event = now.event
  BY <1>1 DEF Sound, DeliveryFields
<1> HIDE DEF b
<1>3. Sound(c) /\ c.hook = d.hook /\ c.pc = "done" /\ c.event = now.event
  BY <1>2 DEF Sound, DeliveryFields
<1> HIDE DEF c
<1>4. Sound(e) /\ e.hook = d.hook /\ e.pc = "done" /\ e.event = now.event
  BY <1>3 DEF Sound, DeliveryFields
<1> HIDE DEF e
<1>5. End(now) = e
  BY DEF End, a, b, c, e
<1> QED
  BY <1>4, <1>5 DEF Over

LEMMA WhatEndsADelivery ==
    ASSUME NEW d, NEW now, Sound(now), now.hook = d.hook, NEW broken
    PROVE  /\ Over(d, End(now)) /\ \A status : Over(d, End(Tell(now, status, broken)))
           /\ Over(d, Error(now, broken)) /\ Over(d, Denied(now, broken)) /\ Over(d, Nothing(now, broken))
           /\ \A end \in {End(now), Error(now, broken), Denied(now, broken), Nothing(now, broken)} :
                end.event = now.event
<1>1. ASSUME NEW status
      PROVE  Over(d, End(Tell(now, status, broken))) /\ End(Tell(now, status, broken)).event = now.event
  <2>1. Sound(Tell(now, status, broken)) /\ Tell(now, status, broken).hook = d.hook
        /\ Tell(now, status, broken).event = now.event
    BY WhatIsToldIsSound
  <2> QED
    BY <2>1, WhatIsEndedIsOver
<1>2. Over(d, End(now)) /\ End(now).event = now.event
  BY WhatIsEndedIsOver
<1>3. Over(d, Error(now, broken)) /\ Error(now, broken).event = now.event
  BY <1>1, <1>2 DEF Error
<1>4. Over(d, Denied(now, broken)) /\ Denied(now, broken).event = now.event
  BY <1>1, <1>3 DEF Denied
<1>5. Over(d, Nothing(now, broken)) /\ Nothing(now, broken).event = now.event
  BY <1>1, <1>2 DEF Nothing
<1> QED
  BY <1>1, <1>2, <1>3, <1>4, <1>5

\* The delivery a step is of.
LEMMA TheDelivery ==
    ASSUME IntakeInv, NEW i \in DOMAIN deliveries
    PROVE  /\ DeliveryOK(deliveries[i])
           /\ deliveries[i].pc \notin {"sent", "refused", "ignored"} => Sound(deliveries[i])
           /\ CommitInv => DeliveryTells(deliveries[i]) /\ HookTells(deliveries[i].hook)
<1>1. deliveries[i] \in Range(deliveries)
  BY DEF Range
<1>2. DeliveryOK(deliveries[i])
  BY <1>1 DEF IntakeInv
<1>3. CommitInv => DeliveryTells(deliveries[i])
  BY <1>1 DEF CommitInv
<1> QED
  BY <1>2, <1>3 DEF DeliveryOK, Sound, DeliveryTells

(***************************************************************************)
(* The steps of a goroutine                                                *)
(***************************************************************************)
LEMMA IncomingIsAnEvent ==
    ASSUME NEW hook
    PROVE  DOMAIN Incoming(hook) = EventFields
<1>1. DOMAIN NewEvent = EventFields
  BY ANewEvent
<1> QED
  BY <1>1 DEF Incoming

LEMMA StepOfHandling ==
    ASSUME IntakeInv, NEW i \in DOMAIN deliveries, handleEvent(i)
    PROVE  IntakeInv' /\ (CommitInv => CommitInv')
<1> DEFINE d == deliveries[i]
           verified == [[d EXCEPT !.pc = "verify"] EXCEPT !.event = Incoming(d.hook)]
           put(pc) == [d EXCEPT !.pc = pc]
<1>1. DeliveryOK(d) /\ d.pc = "sent" /\ (CommitInv => HookTells(d.hook))
  BY TheDelivery DEF handleEvent
<1>2. DOMAIN d = DeliveryFields /\ DOMAIN d.event = EventFields /\ HookOK(d.hook)
  BY <1>1 DEF DeliveryOK
<1>3. PICK broken, after :
        /\ Calls(i, after, broken)
        /\ \/ d.hook.kind = "incoming" /\ after = verified
           \/ after = put("refused")
           \/ after = put("ignored")
           \/ after = put("accepted") /\ Detect(d.hook)
  BY DEF handleEvent
<1> HIDE DEF d
<1>4. ASSUME d.hook.kind = "incoming"
      PROVE  DeliveryOK(verified) /\ verified.hook = d.hook /\ (HookTells(d.hook) => DeliveryTells(verified))
  <2>1. /\ DOMAIN verified = DeliveryFields /\ verified.hook = d.hook /\ verified.pc = "verify"
        /\ verified.event = Incoming(d.hook)
    BY <1>2 DEF DeliveryFields
  <2> HIDE DEF verified
  <2>2. DOMAIN verified.event = EventFields
    BY <2>1, IncomingIsAnEvent
  <2>3. verified.event.number = 0
    BY <2>1, ANewEvent, NothingIsKnownYet DEF Incoming, EventFields
  <2>4. DeliveryOK(verified)
    BY <1>2, <1>4, <2>1, <2>2 DEF DeliveryOK
  <2>5. HookTells(d.hook) => DeliveryTells(verified)
    BY <1>4, <2>1, <2>3 DEF DeliveryTells, CommitOK, ByCommit
  <2> QED
    BY <2>1, <2>4, <2>5
<1>5. ASSUME NEW pc \in {"refused", "ignored", "accepted"}, pc = "accepted" => Detect(d.hook)
      PROVE  DeliveryOK(put(pc)) /\ put(pc).hook = d.hook /\ (HookTells(d.hook) => DeliveryTells(put(pc)))
  <2> DEFINE now == put(pc)
  <2>1. DOMAIN now = DeliveryFields /\ now.hook = d.hook /\ now.pc = pc /\ now.event = d.event
    BY <1>2 DEF DeliveryFields
  <2> HIDE DEF now
  <2>2. DeliveryOK(now)
    BY <1>2, <1>5, <2>1 DEF DeliveryOK
  <2>3. HookTells(d.hook) => DeliveryTells(now)
    BY <1>5, <2>1 DEF DeliveryTells
  <2> QED
    BY <2>1, <2>2, <2>3 DEF now
<1> HIDE DEF put, verified
<1>7. DeliveryOK(after) /\ after.hook = d.hook /\ (CommitInv => DeliveryTells(after))
  BY <1>1, <1>3, <1>4, <1>5
<1>8. UNCHANGED <<setup, forge, acts>> /\ runs' = runs
  BY DEF handleEvent
<1> QED
  BY <1>3, <1>7, <1>8, StepThatAsks DEF d

LEMMA TheSameOfAHook ==
    ASSUME NEW hook, NEW event, EventOK(hook, event), NEW now,
           now.sender = event.sender, now.number = event.number, now.sameRepo = event.sameRepo,
           now.trigger = event.trigger, now.type = event.type, now.cancel = event.cancel
    PROVE  EventOK(hook, now)
BY DEF EventOK

LEMMA TextsAreNoCommands ==
    ASSUME NEW sha, NEW prefix
    PROVE  /\ ~IsOkToTestComment(SHAIsNeeded, prefix)
           /\ ~IsOkToTestComment(NothingToRetest, prefix)
           /\ ~IsOkToTestComment(ValidationErrors(sha), prefix)
<1>1. \A k \in DOMAIN SHAIsNeeded : SHAIsNeeded[k].quoted
  BY DEF SHAIsNeeded, Quoted, Line
<1>2. \A k \in DOMAIN NothingToRetest : NothingToRetest[k].quoted
  BY DEF NothingToRetest, Quoted, Line
<1>3. \A k \in DOMAIN ValidationErrors(sha) : ValidationErrors(sha)[k].says # "ok-to-test"
  BY DEF ValidationErrors, Line
<1> QED
  BY <1>1, <1>2, <1>3 DEF IsOkToTestComment, SaysAny, Says

LEMMA OneText ==
    ASSUME NEW text, NEW marker
    PROVE  LET texts == <<<<text, marker>>>>
           IN  /\ texts \in Seq(Range(texts))
               /\ \A k \in DOMAIN texts : texts[k][1] = text
<1> DEFINE texts == <<<<text, marker>>>>
<1>1. texts \in Seq({<<text, marker>>}) /\ \A k \in DOMAIN texts : texts[k] = <<text, marker>>
  OBVIOUS
<1>2. texts \in Seq(Range(texts))
  BY <1>1, SeqOfItsRange
<1> QED
  BY <1>1, <1>2

LEMMA VerifiedIsInOrder ==
    ASSUME setup \in Setups, NEW d, Sound(d), Detect(d.hook),
           NEW broken, NEW parsed, parsed = ParsePayload(d.hook, broken), parsed.outcome = "event",
           NEW event, event = IF LooksAtCommit(parsed.event) THEN GetCommitInfo(parsed.event) ELSE parsed.event,
           NEW looked, looked = [d EXCEPT !.event = event, !.pc = "verify"]
    PROVE  Sound(looked) /\ DeliveryOK(looked) /\ looked.hook = d.hook
<1>1. HookOK(d.hook)
  BY DEF Sound
<1>2. DOMAIN parsed.event = EventFields /\ (d.hook.kind \notin {"push", "incoming"} => EventOK(d.hook, parsed.event))
  BY <1>1, EventsOfHooks
<1>3. /\ DOMAIN event = EventFields
      /\ event.sender = parsed.event.sender /\ event.number = parsed.event.number
      /\ event.sameRepo = parsed.event.sameRepo
      /\ event.trigger = parsed.event.trigger /\ event.type = parsed.event.type /\ event.cancel = parsed.event.cancel
  BY <1>2, CommitInfoTellsOfTheCommit
<1>4. d.hook.kind \notin {"push", "incoming"} => EventOK(d.hook, event)
  BY <1>2, <1>3, TheSameOfAHook
<1>5. /\ DOMAIN looked = DeliveryFields /\ looked.hook = d.hook /\ looked.pc = "verify" /\ looked.event = event
  <2> DEFINE a == [d EXCEPT !.event = event]
  <2>1. DOMAIN a = DeliveryFields /\ a.hook = d.hook /\ a.event = event
    BY DEF Sound, DeliveryFields
  <2> HIDE DEF a
  <2>2. looked = [a EXCEPT !.pc = "verify"]
    BY DEF a
  <2> QED
    BY <2>1, <2>2 DEF DeliveryFields
<1>6. Sound(looked)
  BY <1>3, <1>5 DEF Sound
<1>7. DeliveryOK(looked)
  BY <1>3, <1>4, <1>5 DEF DeliveryOK, Sound
<1> QED
  BY <1>5, <1>6, <1>7

LEMMA StepOfProcessing ==
    ASSUME IntakeInv, NEW i \in DOMAIN deliveries, processEvent(i)
    PROVE  IntakeInv' /\ (CommitInv => CommitInv')
<1> DEFINE d == deliveries[i]
           replied == [d EXCEPT !.event.number = d.hook.number]
           looked(event) == [d EXCEPT !.event = event, !.pc = "verify"]
           texts == <<<<SHAIsNeeded, "">>>>
<1>1. DeliveryOK(d) /\ Sound(d) /\ d.pc = "accepted" /\ setup \in Setups
  BY TheDelivery DEF processEvent, IntakeInv
<1>0. CommitInv => HookTells(d.hook)
  BY TheDelivery
<1>2. Detect(d.hook)
  BY <1>1 DEF DeliveryOK
<1>3. PICK broken, parsed, event :
        /\ parsed = ParsePayload(d.hook, broken)
        /\ event = IF LooksAtCommit(parsed.event) THEN GetCommitInfo(parsed.event) ELSE parsed.event
        /\ \/ parsed.reply /\ Commented(i, End(replied), texts, broken)
           \/ \E after : /\ Calls(i, after, broken) /\ UNCHANGED forge
                         /\ \/ after \in {End(d)}
                            \/ parsed.outcome = "event" /\ after \in {End(looked(event))}
                            \/ parsed.outcome = "event" /\ after \in {End(Tell(looked(event), "skipped", broken))}
                            \/ parsed.outcome = "event" /\ after \in {looked(event)}
  <2>1. PICK broken, parsed, event :
          /\ parsed = ParsePayload(d.hook, broken)
          /\ event = IF LooksAtCommit(parsed.event) THEN GetCommitInfo(parsed.event) ELSE parsed.event
          /\ IF parsed.reply THEN Commented(i, End(replied), texts, broken)
             ELSE /\ Calls(i, IF parsed.outcome # "event" \/ ~Settings.known THEN End(d)
                              ELSE IF \/ "client" \in broken
                                      \/ LooksAtCommit(parsed.event) /\ "info" \in broken
                                THEN End(looked(event))
                              ELSE IF SkippedEarly(parsed.event, event)
                                THEN End(Tell(looked(event), "skipped", broken))
                              ELSE looked(event), broken)
                  /\ UNCHANGED forge
    BY DEF processEvent
  <2> HIDE DEF looked, replied, texts, d
  <2> QED
    BY <2>1
<1>4. UNCHANGED <<setup, acts>> /\ runs' = runs
  BY DEF processEvent
<1>5. CASE parsed.reply /\ Commented(i, End(replied), texts, broken)
  <2>1. Sound(replied) /\ replied.hook = d.hook /\ replied.event.number = d.hook.number
    <3> DEFINE e == [d.event EXCEPT !.number = d.hook.number]
    <3>1. DOMAIN e = EventFields /\ e.number = d.hook.number
      BY <1>1 DEF Sound, EventFields
    <3> HIDE DEF e
    <3>2. replied = [d EXCEPT !.event = e]
      BY DEF e
    <3> QED
      BY <1>1, <3>1, <3>2 DEF Sound, DeliveryFields
  <2> HIDE DEF replied
  <2>2. /\ DeliveryOK(End(replied)) /\ End(replied).hook = d.hook /\ (CommitInv => DeliveryTells(End(replied)))
        /\ End(replied).event.number = d.hook.number
    BY <1>0, <2>1, WhatIsEndedIsOver, OverIsInOrder
  <2>5. d.hook.kind = "comment"
    BY <1>1, <1>2, <1>3, <1>5, OnlyCommentsAreAnswered
  <2>6. ASSUME CommitInv PROVE d.hook.number \in {0} \cup DOMAIN forge.pulls
    <3>1. acts <= Len(setup.script) /\ HookTells(d.hook)
      BY <1>0, <2>6 DEF CommitInv
    <3>2. d.hook.number # 0 => d.hook.pull.head \in CommitsBy(setup, acts, d.hook.number)
      BY <2>5, <3>1 DEF HookTells
    <3> QED
      BY <3>1, <3>2, CommitsAreCommits
  <2>3. texts \in Seq(Range(texts)) /\ \A k \in DOMAIN texts : texts[k][1] = SHAIsNeeded
    BY OneText
  <2> HIDE DEF texts
  <2>4. \A k \in DOMAIN texts : ~IsOkToTestComment(texts[k][1], Prefix)
    BY <2>3, TextsAreNoCommands
  <2> QED
    BY <1>4, <1>5, <2>2, <2>3, <2>4, <2>6, StepThatWrites
<1> HIDE DEF replied, texts
<1>6. ASSUME NEW after, Calls(i, after, broken), UNCHANGED forge, DeliveryOK(after), after.hook = d.hook,
             CommitInv => DeliveryTells(after)
      PROVE  IntakeInv' /\ (CommitInv => CommitInv')
  BY <1>4, <1>6, StepThatAsks
<1>7. Over(d, End(d))
  BY <1>1, WhatEndsADelivery
<1>8. ASSUME parsed.outcome = "event"
      PROVE  /\ DeliveryOK(looked(event)) /\ looked(event).hook = d.hook
             /\ CommitInv => DeliveryTells(looked(event))
             /\ Over(d, End(looked(event))) /\ Over(d, End(Tell(looked(event), "skipped", broken)))
  <2>1. PICK now : now = looked(event)
    OBVIOUS
  <2>2. now = [d EXCEPT !.event = event, !.pc = "verify"]
    BY <2>1
  <2> HIDE DEF looked, d
  <2>3. Sound(now) /\ DeliveryOK(now) /\ now.hook = d.hook
    BY <1>1, <1>2, <1>3, <1>8, <2>2, VerifiedIsInOrder, ZenonT(60)
  <2>5. now.event = event /\ now.pc = "verify"
    BY <1>1, <2>2 DEF Sound, DeliveryFields
  <2>4. ASSUME CommitInv PROVE DeliveryTells(now)
    <3>1. HookTells(d.hook) /\ HookOK(d.hook)
      BY <1>0, <1>1, <2>4 DEF Sound
    <3>2. event \in {parsed.event, GetCommitInfo(parsed.event)}
      BY <1>3
    <3>3. CommitOK(d.hook, event) /\ event.number \in {0} \cup DOMAIN forge.pulls
      BY <1>2, <1>3, <1>8, <2>4, <3>1, <3>2, WhatIsParsedTells
    <3> QED
      BY <2>3, <2>5, <3>1, <3>3 DEF DeliveryTells
  <2> QED
    BY <2>1, <2>3, <2>4, WhatEndsADelivery
<1> HIDE DEF looked, d
<1>9. CASE \E after : /\ Calls(i, after, broken) /\ UNCHANGED forge
                      /\ \/ after \in {End(d)}
                         \/ parsed.outcome = "event" /\ after \in {End(looked(event))}
                         \/ parsed.outcome = "event" /\ after \in {End(Tell(looked(event), "skipped", broken))}
                         \/ parsed.outcome = "event" /\ after \in {looked(event)}
  <2>1. PICK after : /\ Calls(i, after, broken) /\ UNCHANGED forge
                     /\ \/ after \in {End(d)}
                        \/ parsed.outcome = "event" /\ after \in {End(looked(event))}
                        \/ parsed.outcome = "event" /\ after \in {End(Tell(looked(event), "skipped", broken))}
                        \/ parsed.outcome = "event" /\ after \in {looked(event)}
    BY <1>9
  <2>2. DeliveryOK(after) /\ after.hook = d.hook /\ (CommitInv => DeliveryTells(after))
    <3>1. Over(d, after) \/ (DeliveryOK(after) /\ after.hook = d.hook /\ (CommitInv => DeliveryTells(after)))
      BY <1>7, <1>8, <2>1
    <3> QED
      BY <1>0, <3>1, OverIsInOrder
  <2> QED
    BY <1>6, <2>1, <2>2
<1> QED
  BY <1>3, <1>5, <1>9

LEMMA CommandsAreChecked ==
    ASSUME NEW type \in OpsTypes
    PROVE  IsAnyOpsEventType(type)
<1>1. Len(Precedence) = 8 /\ DOMAIN Precedence = 1 .. 8
  BY DEF Precedence
<1>2. /\ Precedence[1].type = "retest-all-comment" /\ Precedence[2].type = "retest-comment"
      /\ Precedence[3].type = "test-all-comment" /\ Precedence[4].type = "test-comment"
      /\ Precedence[5].type = "ok-to-test-comment"
      /\ Precedence[7].type = "cancel-all-comment" /\ Precedence[8].type = "cancel-comment"
  BY DEF Precedence
<1>3. /\ 1 \in DOMAIN Precedence /\ 2 \in DOMAIN Precedence /\ 3 \in DOMAIN Precedence /\ 4 \in DOMAIN Precedence
      /\ 5 \in DOMAIN Precedence /\ 7 \in DOMAIN Precedence /\ 8 \in DOMAIN Precedence
  BY <1>1
<1> QED
  BY <1>2, <1>3 DEF IsAnyOpsEventType, OpsTypes

\* Whoever is let through is entitled, but for comments without a command,
\* which are asked about when a definition has matched them.
LEMMA WhoIsLetThroughIsCleared ==
    ASSUME setup \in Setups, ForgeOK, NEW d, Sound(d), d.pc # "start", ~d.event.cancel,
           d.hook.kind \notin {"push", "incoming"} => EventOK(d.hook, d.event),
           NEW broken, ChecksAccess(d.event) => IsAllowed(d.event, d.hook, broken) = "allowed"
    PROVE  Cleared(d)
<1>1. CASE d.hook.kind \in {"push", "incoming"}
  BY <1>1 DEF Cleared, Entitled, IsOfTheForge
<1>2. CASE d.hook.kind \notin {"push", "incoming"} /\ ChecksAccess(d.event)
  <2>1. Detect(d.hook)
    BY <1>2 DEF Sound
  <2>2. Entitled(d.hook, d.event.number)
    BY <1>2, <2>1, AllowedAreEntitled
  <2> QED
    BY <2>2 DEF Cleared
<1>3. CASE d.hook.kind \notin {"push", "incoming"} /\ ~ChecksAccess(d.event)
  <2>1. CASE d.hook.kind = "check_suite" /\ d.event.number = 0
    BY <2>1 DEF Cleared, Entitled, IsOfTheForge
  <2>2. CASE d.event.trigger # "push"
    BY <1>3, <2>2 DEF ChecksAccess, Cleared, Unasked
  <2>3. CASE d.event.trigger = "push" /\ d.event.type \in OpsTypes \cup Unasked
    BY <1>3, <2>3, CommandsAreChecked DEF ChecksAccess, Cleared
  <2> QED
    BY <1>3, <2>1, <2>2, <2>3 DEF EventOK
<1> QED
  BY <1>1, <1>2, <1>3

LEMMA WhatIsNextIsInOrder ==
    ASSUME setup \in Setups, ForgeOK, NEW d, Sound(d), d.pc = "verify",
           d.hook.kind \notin {"push", "incoming"} => EventOK(d.hook, d.event),
           NEW broken, ChecksAccess(d.event) => IsAllowed(d.event, d.hook, broken) = "allowed"
    PROVE  /\ DeliveryOK(WhatNext(d, broken)) /\ WhatNext(d, broken).hook = d.hook
           /\ DeliveryTells(d) => DeliveryTells(WhatNext(d, broken))
<1> DEFINE approved == /\ d.event.trigger # "push" /\ d.event.type = "ok-to-test-comment"
                       /\ ~(Is("github") /\ Settings.app)
           told == IF approved THEN Tell(d, "success", broken) ELSE d
           cancels == [End(told) EXCEPT !.pc = "cancels"]
           lists == [told EXCEPT !.pc = "list"]
<1>1. Sound(told) /\ told.hook = d.hook /\ told.pc = d.pc /\ told.event = d.event
  BY WhatIsToldIsSound
<1>2. WhatNext(d, broken) =
        IF d.event.trigger = "pull_request_closed" \/ d.event.cancel THEN cancels ELSE lists
  BY DEF WhatNext
<1> HIDE DEF told
<1>3. DeliveryOK(cancels) /\ cancels.hook = d.hook /\ (DeliveryTells(d) => DeliveryTells(cancels))
  <2>1. Over(d, End(told))
    BY <1>1, WhatEndsADelivery
  <2>2. Over(d, cancels)
    BY <2>1 DEF Over, Sound, DeliveryFields
  <2> QED
    BY <2>2, OverIsInOrder DEF DeliveryTells
<1>4. ASSUME ~d.event.cancel
      PROVE  DeliveryOK(lists) /\ lists.hook = d.hook /\ (DeliveryTells(d) => DeliveryTells(lists))
  <2>1. /\ DOMAIN lists = DeliveryFields /\ lists.hook = d.hook /\ lists.event = d.event /\ lists.pc = "list"
    BY <1>1 DEF Sound, DeliveryFields
  <2> HIDE DEF lists
  <2>2. Cleared(d)
    BY <1>4, WhoIsLetThroughIsCleared
  <2>3. Cleared(lists)
    BY <2>1, <2>2 DEF Cleared
  <2>4. DeliveryOK(lists)
    BY <1>4, <2>1, <2>3 DEF DeliveryOK, Sound
  <2>5. DeliveryTells(d) => DeliveryTells(lists)
    BY <2>1 DEF DeliveryTells
  <2> QED
    BY <2>1, <2>4, <2>5
<1> HIDE DEF lists, cancels
<1> QED
  BY <1>2, <1>3, <1>4

LEMMA StepOfVerifying ==
    ASSUME IntakeInv, NEW i \in DOMAIN deliveries, verifyRepoAndUser(i)
    PROVE  IntakeInv' /\ (CommitInv => CommitInv')
<1> DEFINE d == deliveries[i]
           asks == d.event.sha = "" \/ ~d.event.titled
           about == IF asks THEN GetCommitInfo(d.event) ELSE d.event
           known == [d EXCEPT !.event = about]
<1>1. DeliveryOK(d) /\ Sound(d) /\ d.pc = "verify" /\ setup \in Setups /\ ForgeOK
  BY TheDelivery DEF verifyRepoAndUser, IntakeInv
<1>0. CommitInv => DeliveryTells(d) /\ HookTells(d.hook)
  BY TheDelivery
<1>2. UNCHANGED <<setup, forge, acts>> /\ runs' = runs
  BY DEF verifyRepoAndUser
<1>3. PICK broken, access, after :
        /\ access = IF ChecksAccess(known.event) THEN IsAllowed(known.event, d.hook, broken) ELSE "allowed"
        /\ Calls(i, after, broken)
        /\ \/ after = Error(d, broken) \/ after = Error(known, broken) \/ after = Denied(known, broken)
           \/ access \notin {"error", "denied"} /\ after = WhatNext(known, broken)
  <2>1. known = [d EXCEPT !.event = IF asks THEN GetCommitInfo(d.event) ELSE @]
    OBVIOUS
  <2> HIDE DEF known
  <2>2. PICK broken, access :
        /\ access = IF ChecksAccess(known.event) THEN IsAllowed(known.event, d.hook, broken) ELSE "allowed"
        /\ Calls(i, IF asks /\ "info" \in broken THEN Error(d, broken)
                    ELSE IF access = "error" THEN Error(known, broken)
                    ELSE IF access = "denied" THEN Denied(known, broken)
                    ELSE WhatNext(known, broken), broken)
    BY <2>1 DEF verifyRepoAndUser
  <2> HIDE DEF d, asks
  <2> QED
    BY <2>2
<1> HIDE DEF asks
<1>4. DOMAIN d.event = EventFields /\ (d.hook.kind \notin {"push", "incoming"} => EventOK(d.hook, d.event))
  BY <1>1 DEF DeliveryOK
<1> HIDE DEF d
<1>5. DOMAIN about = EventFields /\ (d.hook.kind \notin {"push", "incoming"} => EventOK(d.hook, about))
  <2>1. PICK now : now = GetCommitInfo(d.event)
    OBVIOUS
  <2>2. /\ DOMAIN now = EventFields
        /\ now.sender = d.event.sender /\ now.number = d.event.number /\ now.sameRepo = d.event.sameRepo
        /\ now.trigger = d.event.trigger /\ now.type = d.event.type /\ now.cancel = d.event.cancel
    BY <1>1, <1>4, <2>1, CommitInfoTellsOfTheCommit
  <2>3. d.hook.kind \notin {"push", "incoming"} => EventOK(d.hook, now)
    BY <1>4, <2>2, TheSameOfAHook
  <2> QED
    BY <1>4, <2>1, <2>2, <2>3
<1>10. ASSUME CommitInv PROVE CommitOK(d.hook, about) /\ about.number \in {0} \cup DOMAIN forge.pulls
  <2>1. HookTells(d.hook) /\ CommitOK(d.hook, d.event) /\ d.event.number \in {0} \cup DOMAIN forge.pulls
    BY <1>0, <1>1, <1>10 DEF DeliveryTells
  <2>2. CommitOK(d.hook, GetCommitInfo(d.event)) /\ GetCommitInfo(d.event).number = d.event.number
    BY <1>4, <1>10, <2>1, CommitInfoKeepsTheCommit
  <2> QED
    BY <2>1, <2>2
<1> HIDE DEF about
<1>6. Sound(known) /\ known.hook = d.hook /\ known.pc = "verify" /\ known.event = about
  BY <1>1, <1>5 DEF Sound, DeliveryFields
<1> HIDE DEF known
<1>7. Over(d, Error(d, broken)) /\ Over(d, Error(known, broken)) /\ Over(d, Denied(known, broken))
  BY <1>1, <1>6, WhatEndsADelivery
<1>8. ASSUME access \notin {"error", "denied"}
      PROVE  /\ DeliveryOK(WhatNext(known, broken)) /\ WhatNext(known, broken).hook = d.hook
             /\ CommitInv => DeliveryTells(WhatNext(known, broken))
  <2>1. ChecksAccess(known.event) => IsAllowed(known.event, known.hook, broken) = "allowed"
    BY <1>1, <1>3, <1>6, <1>8, IsAllowedAnswers DEF Answers
  <2>2. CommitInv => DeliveryTells(known)
    BY <1>0, <1>6, <1>10 DEF DeliveryTells
  <2> QED
    BY <1>1, <1>5, <1>6, <2>1, <2>2, WhatIsNextIsInOrder
<1>9. DeliveryOK(after) /\ after.hook = d.hook /\ (CommitInv => DeliveryTells(after))
  BY <1>0, <1>3, <1>7, <1>8, OverIsInOrder
<1> QED
  BY <1>2, <1>3, <1>9, StepThatAsks DEF d

LEMMA NamesAreListed ==
    ASSUME setup \in Setups, NEW sha
    PROVE  NamesIn(sha) \in Seq(Range(NamesIn(sha)))
<1>1. \A t \in DOMAIN setup.forge.trees :
         setup.forge.trees[t].definitions \in Seq(Range(setup.forge.trees[t].definitions))
  BY IntakeAssumption
<1>2. Forge.trees = setup.forge.trees
  BY DEF Forge
<1>3. <<>> \in Seq(Range(<<>>))
  OBVIOUS
<1> QED
  BY <1>1, <1>2, <1>3 DEF NamesIn

\* What is read and matched is of the delivery it was.
LEMMA StillInOrder ==
    ASSUME NEW d, DeliveryOK(d), d.pc \in {"list", "read", "match"},
           NEW now, DOMAIN now = DeliveryFields, now.hook = d.hook, now.pc \in {"read", "match"},
           StillOf(d.event, now.event),
           now.pc = "read" => now.names \in Seq(Range(now.names)),
           now.pc = "match" => now.definitions \in Seq(Range(now.definitions))
    PROVE  DeliveryOK(now)
<1>1. /\ now.event.sender = d.event.sender /\ now.event.number = d.event.number
      /\ now.event.sameRepo = d.event.sameRepo /\ now.event.trigger = d.event.trigger
      /\ now.event.cancel = d.event.cancel /\ now.event.type \in {d.event.type, "on-comment"}
      /\ DOMAIN now.event = EventFields
  BY DEF StillOf
<1>2. EventOK(d.hook, d.event) => EventOK(d.hook, now.event)
  BY <1>1 DEF EventOK, Unasked
<1>3. Cleared(d) => Cleared(now)
  BY <1>1 DEF Cleared, Unasked
<1>4. /\ HookOK(d.hook) /\ (d.hook.kind = "incoming" \/ Detect(d.hook))
      /\ d.hook.kind \notin {"push", "incoming"} => EventOK(d.hook, d.event)
      /\ ~d.event.cancel /\ Cleared(d)
  BY DEF DeliveryOK
<1> QED
  BY <1>1, <1>2, <1>3, <1>4 DEF DeliveryOK

LEMMA StillTheEvent ==
    ASSUME NEW event, DOMAIN event = EventFields
    PROVE  StillOf(event, event)
BY DEF StillOf

LEMMA StillTells ==
    ASSUME NEW d, DeliveryTells(d), d.pc \in {"list", "read", "match"},
           NEW now, now.hook = d.hook, now.pc \in {"read", "match", "start"}, StillOf(d.event, now.event),
           FromOK(d.event.sha, now.from),
           now.pc = "read" /\ now.byBranch => Settings.provenance # "source"
    PROVE  DeliveryTells(now)
<1>1. now.event.number = d.event.number /\ now.event.sha = d.event.sha /\ now.event.type \in {d.event.type, "on-comment"}
  BY DEF StillOf
<1>2. HookTells(d.hook) /\ CommitOK(d.hook, d.event) /\ d.event.number \in {0} \cup DOMAIN forge.pulls
  BY DEF DeliveryTells
<1>3. CommitOK(d.hook, now.event)
  BY <1>1, <1>2 DEF CommitOK
<1> QED
  BY <1>1, <1>2, <1>3 DEF DeliveryTells

LEMMA StepOfListing ==
    ASSUME IntakeInv, NEW i \in DOMAIN deliveries, ListTektonDir(i)
    PROVE  IntakeInv' /\ (CommitInv => CommitInv')
<1> DEFINE d == deliveries[i]
           listed(found) == [d EXCEPT !.pc = "read", !.from = found.from, !.byBranch = found.byBranch,
                                      !.names = NamesIn(found.from)]
<1>1. DeliveryOK(d) /\ Sound(d) /\ d.pc = "list" /\ setup \in Setups
  BY TheDelivery DEF ListTektonDir, IntakeInv
<1>0. CommitInv => DeliveryTells(d) /\ HookTells(d.hook)
  BY TheDelivery
<1>2. UNCHANGED <<setup, forge, acts>> /\ runs' = runs
  BY DEF ListTektonDir
<1>3. PICK broken, found, after :
        /\ Calls(i, after, broken) /\ found = GetTektonDir(d.event)
        /\ after = Nothing(d, broken) \/ after = listed(found)
  BY DEF ListTektonDir
<1> HIDE DEF d
<1>4. Over(d, Nothing(d, broken))
  BY <1>1, WhatEndsADelivery
<1>5. DeliveryOK(listed(found)) /\ listed(found).hook = d.hook /\ (CommitInv => DeliveryTells(listed(found)))
  <2> DEFINE a == [d EXCEPT !.pc = "read"]
             b == [a EXCEPT !.from = found.from]
             c == [b EXCEPT !.byBranch = found.byBranch]
             e == [c EXCEPT !.names = NamesIn(found.from)]
  <2>1. DOMAIN a = DeliveryFields /\ a.hook = d.hook /\ a.event = d.event /\ a.pc = "read"
    BY <1>1 DEF Sound, DeliveryFields
  <2> HIDE DEF a
  <2>2. DOMAIN b = DeliveryFields /\ b.hook = d.hook /\ b.event = d.event /\ b.pc = "read" /\ b.from = found.from
    BY <2>1 DEF DeliveryFields
  <2> HIDE DEF b
  <2>3. DOMAIN c = DeliveryFields /\ c.hook = d.hook /\ c.event = d.event /\ c.pc = "read" /\ c.from = found.from
        /\ c.byBranch = found.byBranch
    BY <2>2 DEF DeliveryFields
  <2> HIDE DEF c
  <2>4. /\ DOMAIN e = DeliveryFields /\ e.hook = d.hook /\ e.event = d.event /\ e.pc = "read"
        /\ e.names = NamesIn(found.from) /\ e.from = found.from /\ e.byBranch = found.byBranch
    BY <2>3 DEF DeliveryFields
  <2> HIDE DEF e
  <2>5. listed(found) = e
    BY DEF a, b, c, e
  <2>6. StillOf(d.event, e.event)
    BY <1>1, <2>4, StillTheEvent DEF Sound
  <2>7. e.names \in Seq(Range(e.names))
    BY <1>1, <2>4, NamesAreListed
  <2>8. DeliveryOK(e)
    BY <1>1, <2>4, <2>6, <2>7, StillInOrder
  <2>9. ASSUME CommitInv PROVE DeliveryTells(e)
    <3>1. FromOK(d.event.sha, found.from) /\ (found.byBranch => Settings.provenance # "source")
      BY <1>1, <1>3, <2>9, WhereDefinitionsAre DEF CommitInv
    <3> QED
      BY <1>0, <1>1, <2>4, <2>6, <2>9, <3>1, StillTells
  <2> HIDE DEF listed
  <2> QED
    BY <2>4, <2>5, <2>8, <2>9
<1> HIDE DEF listed
<1>6. DeliveryOK(after) /\ after.hook = d.hook /\ (CommitInv => DeliveryTells(after))
  BY <1>0, <1>3, <1>4, <1>5, OverIsInOrder
<1> QED
  BY <1>2, <1>3, <1>6, StepThatAsks DEF d

LEMMA DefinitionsAreASequence ==
    ASSUME NEW d, d.definitions \in Seq(Range(d.definitions))
    PROVE  DefinitionsOf(d) \in Seq(Range(DefinitionsOf(d)))
<1> DEFINE s == DefinitionsOf(d)
           S == {Definitions[n] : n \in Range(d.definitions)}
<1>1. Len(d.definitions) \in Nat /\ DOMAIN d.definitions = 1 .. Len(d.definitions)
  BY LenProperties
<1>2. s = [k \in 1 .. Len(d.definitions) |-> Definitions[d.definitions[k]]]
  BY <1>1 DEF DefinitionsOf
<1>3. \A k \in 1 .. Len(d.definitions) : Definitions[d.definitions[k]] \in S
  BY <1>1 DEF Range
<1> HIDE DEF S, s
<1>4. s \in Seq(S)
  BY <1>1, <1>2, <1>3
<1>5. s \in Seq(Range(s))
  BY <1>4, SeqOfItsRange
<1> QED
  BY <1>5 DEF s

\* The files are asked for on the way, and nothing else changes.
SameButFiles(d, now) ==
  /\ DOMAIN now = DeliveryFields
  /\ now.hook = d.hook /\ now.pc = d.pc /\ now.event = d.event /\ now.names = d.names
  /\ now.definitions = d.definitions /\ now.from = d.from

LEMMA FilesChangeNothingElse ==
    ASSUME NEW d, DOMAIN d = DeliveryFields, NEW broken
    PROVE  SameButFiles(d, WithFiles(d, broken))
<1> DEFINE a == [d EXCEPT !.files = GetFiles(d.event)]
           b == [a EXCEPT !.known = {"files"}]
<1>1. SameButFiles(d, d)
  BY DEF SameButFiles
<1>2. SameButFiles(d, a)
  BY DEF SameButFiles, DeliveryFields
<1> HIDE DEF a
<1>3. SameButFiles(d, b)
  BY <1>2 DEF SameButFiles, DeliveryFields
<1> HIDE DEF b
<1>4. WithFiles(d, broken) \in {d, b}
  BY DEF WithFiles, a, b
<1> QED
  BY <1>1, <1>3, <1>4

LEMMA TheFirstMatch ==
    ASSUME NEW d, DOMAIN d = DeliveryFields, DOMAIN d.event = EventFields,
           d.definitions \in Seq(Range(d.definitions)), NEW broken
    PROVE  LET now == FirstMatch(d, broken)
           IN  /\ DOMAIN now = DeliveryFields
               /\ now.hook = d.hook /\ now.pc = d.pc /\ now.definitions = d.definitions /\ now.from = d.from
               /\ StillOf(d.event, now.event)
<1>1. StillOf(d.event, Match(d, broken).event)
  BY DefinitionsAreASequence, TheEventMatched DEF Match
<1>2. StillOf(d.event, d.event)
  BY StillTheEvent
<1> DEFINE matched == Match(d, broken).event
           now == [d EXCEPT !.event = matched]
<1>3. StillOf(d.event, matched)
  BY <1>1
<1> HIDE DEF matched
<1>4. /\ DOMAIN now = DeliveryFields
      /\ now.hook = d.hook /\ now.pc = d.pc /\ now.definitions = d.definitions /\ now.event = matched
      /\ now.from = d.from
  BY DEF DeliveryFields
<1> HIDE DEF now
<1>5. FirstMatch(d, broken) \in {d, now}
  BY DEF FirstMatch, now, matched
<1> QED
  BY <1>2, <1>3, <1>4, <1>5

LEMMA ErrorsAreNoCommands ==
    ASSUME NEW sha, NEW texts, texts \in {<<>>, <<<<ValidationErrors(sha), "errors">>>>}
    PROVE  texts \in Seq(Range(texts)) /\ \A k \in DOMAIN texts : ~IsOkToTestComment(texts[k][1], Prefix)
<1>1. CASE texts = <<>>
  BY <1>1
<1>2. CASE texts = <<<<ValidationErrors(sha), "errors">>>>
  <2>1. texts \in Seq(Range(texts)) /\ \A k \in DOMAIN texts : texts[k][1] = ValidationErrors(sha)
    BY <1>2, OneText
  <2> QED
    BY <2>1, TextsAreNoCommands
<1> QED
  BY <1>1, <1>2

LEMMA StepOfReading ==
    ASSUME IntakeInv, NEW i \in DOMAIN deliveries, ReadTektonDir(i)
    PROVE  IntakeInv' /\ (CommitInv => CommitInv')
<1> DEFINE d == deliveries[i]
           from == IF d.byBranch THEN forge.branches[DefaultBranch] ELSE d.from
           read == [d EXCEPT !.from = from, !.pc = "match", !.definitions = d.names]
<1>1. DeliveryOK(d) /\ Sound(d) /\ d.pc = "read"
  BY TheDelivery DEF ReadTektonDir
<1>0. CommitInv => DeliveryTells(d) /\ HookTells(d.hook)
  BY TheDelivery
<1>2. UNCHANGED <<setup, acts, runs>>
  BY DEF ReadTektonDir
<1>3. PICK broken, next, texts :
        /\ Commented(i, next, texts, broken)
        /\ next \in {Nothing(d, broken), End(d), FirstMatch(WithFiles(read, broken), broken)}
        /\ texts \in {<<>>, <<<<ValidationErrors(d.event.sha), "errors">>>>}
  <2> DEFINE tree == Forge.trees[from]
             wrong == d.event.trigger = "pull_request" /\ (~tree.valid \/ tree.errors)
  <2>1. PICK broken, next :
        /\ next = IF "dir" \in broken \/ ~(Range(d.names) \subseteq Range(NamesIn(from)))
                       THEN Nothing(d, broken)
                     ELSE IF ~tree.valid
                       THEN IF wrong THEN End(d) ELSE Nothing(d, broken)
                     ELSE FirstMatch(WithFiles(read, broken), broken)
        /\ Commented(i, next,
             IF wrong /\ "dir" \notin broken
               THEN <<<<ValidationErrors(d.event.sha), "errors">>>> ELSE <<>>, broken)
    BY ZenonT(60) DEF ReadTektonDir
  <2> HIDE DEF read, wrong, tree, from, d
  <2> QED
    BY <2>1, SMTT(30)
<1>15. ASSUME CommitInv PROVE FromOK(d.event.sha, from)
  <2>1. FromOK(d.event.sha, d.from) /\ (d.byBranch => Settings.provenance # "source")
    BY <1>0, <1>1, <1>15 DEF DeliveryTells
  <2>2. forge.branches[DefaultBranch] \in DefaultHeadsBy(setup, acts)
    BY <1>15 DEF CommitInv, ForgeTells
  <2> QED
    BY <2>1, <2>2 DEF FromOK
<1> HIDE DEF d, from
<1>4. /\ Over(d, Nothing(d, broken)) /\ Over(d, End(d))
      /\ Nothing(d, broken).event = d.event /\ End(d).event = d.event
  BY <1>1, WhatEndsADelivery
<1>5. /\ DOMAIN read = DeliveryFields /\ read.hook = d.hook /\ read.event = d.event /\ read.pc = "match"
      /\ read.definitions = d.names /\ read.from = from
  <2> DEFINE a == [d EXCEPT !.from = from]
             b == [a EXCEPT !.pc = "match"]
             c == [b EXCEPT !.definitions = d.names]
  <2>1. DOMAIN a = DeliveryFields /\ a.hook = d.hook /\ a.event = d.event /\ a.from = from
    BY <1>1 DEF Sound, DeliveryFields
  <2> HIDE DEF a
  <2>2. DOMAIN b = DeliveryFields /\ b.hook = d.hook /\ b.event = d.event /\ b.pc = "match" /\ b.from = from
    BY <2>1 DEF DeliveryFields
  <2> HIDE DEF b
  <2>3. /\ DOMAIN c = DeliveryFields /\ c.hook = d.hook /\ c.event = d.event /\ c.pc = "match"
        /\ c.definitions = d.names /\ c.from = from
    BY <2>2 DEF DeliveryFields
  <2> HIDE DEF c
  <2>4. read = c
    BY DEF a, b, c
  <2> QED
    BY <2>3, <2>4
<1> HIDE DEF read
<1>6. PICK filed : filed = WithFiles(read, broken)
  OBVIOUS
<1>7. SameButFiles(read, filed)
  BY <1>5, <1>6, FilesChangeNothingElse
<1>8. d.names \in Seq(Range(d.names)) /\ DOMAIN d.event = EventFields
  BY <1>1 DEF DeliveryOK
<1>9. PICK now : now = FirstMatch(filed, broken)
  OBVIOUS
<1>10. /\ DOMAIN filed = DeliveryFields /\ filed.hook = d.hook /\ filed.event = d.event /\ filed.pc = "match"
       /\ filed.definitions = d.names /\ filed.from = from
  BY <1>5, <1>7 DEF SameButFiles
<1>11. /\ DOMAIN now = DeliveryFields /\ now.hook = d.hook /\ now.pc = "match"
       /\ now.definitions = d.names /\ now.from = from /\ StillOf(d.event, now.event)
  BY <1>8, <1>9, <1>10, TheFirstMatch
<1>12. DeliveryOK(now)
  BY <1>1, <1>8, <1>11, StillInOrder
<1>16. CommitInv => DeliveryTells(now)
  BY <1>0, <1>1, <1>11, <1>15, StillTells
<1>13. DeliveryOK(next) /\ next.hook = d.hook /\ (CommitInv => DeliveryTells(next))
  BY <1>0, <1>3, <1>4, <1>6, <1>9, <1>11, <1>12, <1>16, OverIsInOrder
<1>17. CommitInv => next.event.number \in {0} \cup DOMAIN forge.pulls
  <2>1. next.event.number = d.event.number
    BY <1>3, <1>4, <1>6, <1>9, <1>11 DEF StillOf
  <2> QED
    BY <1>0, <1>1, <2>1 DEF DeliveryTells
<1>14. texts \in Seq(Range(texts)) /\ \A k \in DOMAIN texts : ~IsOkToTestComment(texts[k][1], Prefix)
  BY <1>3, ErrorsAreNoCommands
<1> QED
  BY <1>2, <1>3, <1>13, <1>14, <1>17, StepThatWrites DEF d

LEMMA MatchingsAreNoCommands ==
    ASSUME NEW sha, NEW a, a \in {<<>>, <<<<ValidationErrors(sha), "errors">>>>},
           NEW marker, NEW b, b \in {<<>>, <<<<NothingToRetest, marker>>>>}, NEW texts, texts = a \o b
    PROVE  texts \in Seq(Range(texts)) /\ \A k \in DOMAIN texts : ~IsOkToTestComment(texts[k][1], Prefix)
<1>1. a \in Seq(Range(a)) /\ \A k \in DOMAIN a : ~IsOkToTestComment(a[k][1], Prefix)
  BY ErrorsAreNoCommands
<1>2. b \in Seq(Range(b)) /\ \A k \in DOMAIN b : ~IsOkToTestComment(b[k][1], Prefix)
  <2>1. CASE b = <<>>
    BY <2>1
  <2>2. CASE b = <<<<NothingToRetest, marker>>>>
    <3>1. b \in Seq(Range(b)) /\ \A k \in DOMAIN b : b[k][1] = NothingToRetest
      BY <2>2, OneText
    <3> QED
      BY <3>1, TextsAreNoCommands
  <2> QED
    BY <2>1, <2>2
<1>3. /\ texts \in Seq(Range(texts))
      /\ \A k \in DOMAIN a : texts[k] = a[k]
      /\ \A k \in DOMAIN texts : k \notin DOMAIN a => k - Len(a) \in DOMAIN b /\ texts[k] = b[k - Len(a)]
  <2> DEFINE joined == a \o b
  <2>1. /\ joined \in Seq(Range(joined))
        /\ \A k \in DOMAIN a : joined[k] = a[k]
        /\ \A k \in DOMAIN joined : k \notin DOMAIN a => k - Len(a) \in DOMAIN b /\ joined[k] = b[k - Len(a)]
    BY <1>1, <1>2, SeqJoined
  <2> HIDE DEF joined
  <2>2. texts = joined
    BY DEF joined
  <2> QED
    BY <2>1, <2>2
<1> QED
  BY <1>1, <1>2, <1>3

\* Whoever only wrote a comment is asked about once a definition has matched it.
LEMMA WhoIsMatchedIsEntitled ==
    ASSUME setup \in Setups, ForgeOK, NEW d, DeliveryOK(d), d.pc = "match",
           NEW event, StillOf(d.event, event), NEW broken,
           MatchComment(event) => IsAllowed(event, d.hook, broken) = "allowed"
    PROVE  Entitled(d.hook, event.number)
<1>1. /\ event.sender = d.event.sender /\ event.number = d.event.number
      /\ event.sameRepo = d.event.sameRepo /\ event.trigger = d.event.trigger
      /\ event.cancel = d.event.cancel /\ event.type \in {d.event.type, "on-comment"}
  BY DEF StillOf
<1>2. /\ d.hook.kind = "incoming" \/ Detect(d.hook)
      /\ d.hook.kind \notin {"push", "incoming"} => EventOK(d.hook, d.event)
      /\ ~d.event.cancel /\ Cleared(d)
  BY DEF DeliveryOK
<1>3. CASE Entitled(d.hook, d.event.number)
  BY <1>1, <1>3
<1>4. CASE d.hook.kind \in {"push", "incoming"}
  BY <1>4 DEF Entitled, IsOfTheForge
<1>5. CASE d.event.type \in Unasked /\ d.hook.kind \notin {"push", "incoming"}
  <2>1. EventOK(d.hook, event)
    BY <1>1, <1>2, <1>5 DEF EventOK, Unasked
  <2>2. IsAllowed(event, d.hook, broken) = "allowed"
    BY <1>1, <1>5 DEF MatchComment, Unasked
  <2> QED
    BY <1>1, <1>2, <1>5, <2>1, <2>2, AllowedAreEntitled
<1> QED
  BY <1>2, <1>3, <1>4, <1>5 DEF Cleared

LEMMA WhatIsMatchedIsInOrder ==
    ASSUME setup \in Setups, ForgeOK, NEW d, DeliveryOK(d), Sound(d), d.pc = "match",
           NEW matching, StillOf(d.event, matching.event), NEW broken,
           NEW access, access = IF MatchComment(matching.event) THEN IsAllowed(matching.event, d.hook, broken)
                                                               ELSE "allowed",
           NEW after, after = Matched(d, matching, access, broken)
    PROVE  /\ DeliveryOK(after) /\ after.hook = d.hook /\ after.event.number = d.event.number
           /\ DeliveryTells(d) => DeliveryTells(after)
<1> DEFINE event == matching.event
           now == [d EXCEPT !.event = event]
           chosen == IF d.event.test = NoName THEN NamesOf(matching.matched) ELSE d.definitions
           starting == [now EXCEPT !.pc = "start"]
           start == [starting EXCEPT !.definitions = chosen]
           begun == [now EXCEPT !.pc = "start",
                       !.definitions = IF d.event.test = NoName THEN NamesOf(matching.matched) ELSE @]
<1>1. /\ DOMAIN now = DeliveryFields /\ now.hook = d.hook /\ now.event = event /\ now.pc = "match"
      /\ now.definitions = d.definitions /\ now.from = d.from
  BY DEF Sound, DeliveryFields
<1>2. \/ after = Error(now, broken) \/ after = End(now) \/ after = Nothing(now, broken)
      \/ after = Denied(now, broken)
      \/ access \notin {"error", "denied"} /\ after = start
  <2>1. begun = start
    BY <1>1
  <2>2. \/ after = Error(now, broken) \/ after = End(now) \/ after = Nothing(now, broken)
        \/ after = Denied(now, broken)
        \/ access # "error" /\ access # "denied" /\ after = begun
    BY Zenon DEF Matched
  <2> HIDE DEF begun, start, now
  <2> QED
    BY <2>1, <2>2
<1>3. StillOf(d.event, event)
  OBVIOUS
<1>4. access = IF MatchComment(event) THEN IsAllowed(event, d.hook, broken) ELSE "allowed"
  OBVIOUS
<1> HIDE DEF event, chosen, begun, now
<1>5. Sound(now)
  BY <1>1, <1>3 DEF Sound, StillOf
<1>6. /\ Over(d, Error(now, broken)) /\ Over(d, End(now)) /\ Over(d, Nothing(now, broken))
      /\ Over(d, Denied(now, broken))
  BY <1>1, <1>5, WhatEndsADelivery
<1>10. /\ Error(now, broken).event = event /\ End(now).event = event /\ Nothing(now, broken).event = event
       /\ Denied(now, broken).event = event
  BY <1>1, <1>5, WhatEndsADelivery
<1>7. ASSUME access \notin {"error", "denied"}
      PROVE  /\ DeliveryOK(start) /\ start.hook = d.hook /\ start.event = event
             /\ DeliveryTells(d) => DeliveryTells(start)
  <2>1. /\ DOMAIN starting = DeliveryFields /\ starting.hook = d.hook /\ starting.event = event
        /\ starting.pc = "start" /\ starting.from = d.from
    BY <1>1 DEF DeliveryFields
  <2> HIDE DEF starting
  <2>2. /\ DOMAIN start = DeliveryFields /\ start.hook = d.hook /\ start.event = event /\ start.pc = "start"
        /\ start.from = d.from
    BY <2>1 DEF DeliveryFields
  <2> HIDE DEF start
  <2>3. MatchComment(event) => IsAllowed(event, d.hook, broken) = "allowed"
    BY <1>4, <1>7, IsAllowedAnswers DEF Answers
  <2>4. Entitled(d.hook, event.number)
    BY <1>3, <2>3, WhoIsMatchedIsEntitled
  <2>5. d.hook.kind \notin {"push", "incoming"} => EventOK(d.hook, event)
    BY <1>3 DEF DeliveryOK, StillOf, EventOK, Unasked
  <2>6. ~event.cancel /\ DOMAIN event = EventFields
    BY <1>3 DEF DeliveryOK, StillOf
  <2>7. Cleared(start)
    BY <2>2, <2>4 DEF Cleared
  <2>8. DeliveryOK(start)
    BY <2>2, <2>5, <2>6, <2>7 DEF DeliveryOK, Sound
  <2>9. ASSUME DeliveryTells(d) PROVE DeliveryTells(start)
    <3>1. FromOK(d.event.sha, start.from)
      BY <2>2, <2>9 DEF DeliveryTells
    <3> QED
      BY <1>3, <2>2, <2>9, <3>1, StillTells
  <2> QED
    BY <2>2, <2>8, <2>9
<1> HIDE DEF start
<1>8. after.event = event /\ event.number = d.event.number
  BY <1>2, <1>3, <1>10, <1>7 DEF StillOf
<1>9. DeliveryTells(d) => HookTells(d.hook)
  BY DEF DeliveryTells
<1> QED
  BY <1>2, <1>6, <1>7, <1>8, <1>9, OverIsInOrder

LEMMA StepOfMatching ==
    ASSUME IntakeInv, NEW i \in DOMAIN deliveries, MatchDefinitions(i)
    PROVE  IntakeInv' /\ (CommitInv => CommitInv')
<1> DEFINE before == deliveries[i]
<1>1. DeliveryOK(before) /\ Sound(before) /\ before.pc = "match" /\ setup \in Setups /\ ForgeOK
  BY TheDelivery DEF MatchDefinitions, IntakeInv
<1>0. CommitInv => DeliveryTells(before)
  BY TheDelivery
<1>2. UNCHANGED <<setup, acts, runs>>
  BY DEF MatchDefinitions
<1>3. PICK broken, d, matching, access, errors, nothing, marker :
        /\ d = WithFiles(before, broken)
        /\ matching.event \in {Match(d, broken).event, d.event}
        /\ access = IF MatchComment(matching.event) THEN IsAllowed(matching.event, d.hook, broken)
                                                    ELSE "allowed"
        /\ errors \in {<<>>, <<<<ValidationErrors(d.event.sha), "errors">>>>}
        /\ nothing \in {<<>>, <<<<NothingToRetest, marker>>>>}
        /\ Commented(i, Matched(d, matching, access, broken), errors \o nothing, broken)
  <2>1. PICK broken, d, matching, access :
        /\ d = WithFiles(before, broken)
        /\ matching = IF d.event.test = NoName THEN Match(d, broken)
                     ELSE [event |-> d.event, matched |-> <<>>, unmatched |-> {},
                           invalid |-> <<>>, outcome |-> "matched"]
        /\ access = IF MatchComment(matching.event) THEN IsAllowed(matching.event, d.hook, broken)
                                                    ELSE "allowed"
        /\ Commented(i, Matched(d, matching, access, broken),
             (IF matching.invalid = <<>> THEN <<>> ELSE <<<<ValidationErrors(d.event.sha), "errors">>>>)
             \o (IF matching.outcome = "no failed" THEN <<<<NothingToRetest, Nobody>>>> ELSE <<>>), broken)
    BY ZenonT(60) DEF MatchDefinitions, Nobody
  <2>2. matching.event \in {Match(d, broken).event, d.event}
    BY <2>1
  <2> HIDE DEF before
  <2> QED
    BY <2>1, <2>2
<1> HIDE DEF before
<1>4. SameButFiles(before, d)
  BY <1>1, <1>3, FilesChangeNothingElse DEF Sound
<1>5. Sound(d) /\ d.pc = "match" /\ d.hook = before.hook
  BY <1>1, <1>4 DEF Sound, SameButFiles
<1>6. DeliveryOK(d)
  BY <1>1, <1>4 DEF DeliveryOK, SameButFiles, Cleared
<1>14. CommitInv => DeliveryTells(d) /\ d.event.number \in {0} \cup DOMAIN forge.pulls
  BY <1>0, <1>1, <1>4 DEF DeliveryTells, SameButFiles
<1>7. d.definitions \in Seq(Range(d.definitions)) /\ DOMAIN d.event = EventFields
  BY <1>5, <1>6 DEF DeliveryOK
<1>8. StillOf(d.event, matching.event)
  <2>1. StillOf(d.event, Match(d, broken).event)
    BY <1>7, DefinitionsAreASequence, TheEventMatched DEF Match
  <2> QED
    BY <1>3, <1>7, <2>1, StillTheEvent
<1>9. PICK after : after = Matched(d, matching, access, broken)
  OBVIOUS
<1>10. /\ DeliveryOK(after) /\ after.hook = before.hook
       /\ CommitInv => DeliveryTells(after) /\ after.event.number \in {0} \cup DOMAIN forge.pulls
  <2>1. setup \in Setups /\ ForgeOK /\ DeliveryOK(d) /\ Sound(d) /\ d.pc = "match"
    BY <1>1, <1>5, <1>6
  <2>2. access = IF MatchComment(matching.event) THEN IsAllowed(matching.event, d.hook, broken)
                                                 ELSE "allowed"
    BY <1>3
  <2>3. /\ DeliveryOK(after) /\ after.hook = d.hook /\ after.event.number = d.event.number
        /\ DeliveryTells(d) => DeliveryTells(after)
    BY <1>8, <1>9, <2>1, <2>2, WhatIsMatchedIsInOrder
  <2> QED
    BY <1>5, <1>14, <2>3
<1>11. PICK texts : texts = errors \o nothing
  OBVIOUS
<1>12. texts \in Seq(Range(texts)) /\ \A k \in DOMAIN texts : ~IsOkToTestComment(texts[k][1], Prefix)
  BY <1>3, <1>11, MatchingsAreNoCommands
<1>13. Commented(i, after, texts, broken)
  BY <1>3, <1>9, <1>11
<1> QED
  BY <1>2, <1>10, <1>12, <1>13, StepThatWrites DEF before

LEMMA StepOfStarting ==
    ASSUME IntakeInv, NEW i \in DOMAIN deliveries, StartRuns(i)
    PROVE  IntakeInv' /\ (CommitInv => CommitInv')
<1> DEFINE before == deliveries[i]
<1>1. DeliveryOK(before) /\ Sound(before) /\ before.pc = "start"
  BY TheDelivery DEF StartRuns
<1>0. CommitInv => DeliveryTells(before) /\ HookTells(before.hook)
  BY TheDelivery
<1>2. UNCHANGED <<setup, forge, acts>>
  BY DEF StartRuns
<1>3. PICK broken, d, after :
        /\ d = WithFiles(before, broken)
        /\ Calls(i, after, broken)
        /\ after = Error(d, broken) \/ after = End(d)
        /\ \A r \in runs' : r \in runs \/ \E t : r = Run(i, d, t)
  BY DEF StartRuns
<1> HIDE DEF before
<1>4. SameButFiles(before, d)
  BY <1>1, <1>3, FilesChangeNothingElse DEF Sound
<1>5. Sound(d) /\ d.hook = before.hook /\ d.event = before.event /\ d.from = before.from
  BY <1>1, <1>4 DEF Sound, SameButFiles
<1>6. DeliveryOK(after) /\ after.hook = before.hook /\ (CommitInv => DeliveryTells(after))
  <2>1. Over(before, Error(d, broken)) /\ Over(before, End(d))
    BY <1>5, WhatEndsADelivery
  <2> QED
    BY <1>0, <1>3, <2>1, OverIsInOrder
<1>7. Entitled(before.hook, before.event.number)
  BY <1>1 DEF DeliveryOK, Cleared
<1>8. ASSUME NEW r \in runs' PROVE r \in runs \/ (StartedBy(r, i) /\ (CommitInv => TellsBy(r, i)))
  <2>1. CASE \E t : r = Run(i, d, t)
    <3>1. PICK t : r = Run(i, d, t)
      BY <2>1
    <3>2. {"by", "number", "status"} \subseteq DOMAIN r /\ r.by = i /\ r.number = before.event.number
      BY <1>5, <3>1 DEF Run
    <3>3. StartedBy(r, i)
      BY <1>7, <3>2 DEF StartedBy, before
    <3>4. ASSUME CommitInv PROVE TellsBy(r, i)
      <4>1. CommitOK(before.hook, before.event) /\ FromOK(before.event.sha, before.from)
        BY <1>0, <1>1, <3>4 DEF DeliveryTells
      <4>2. /\ {"sha", "from", "type"} \subseteq DOMAIN r
            /\ r.sha = before.event.sha /\ r.from = before.from /\ r.type = before.event.type
        BY <1>5, <3>1 DEF Run
      <4>3. CommitOK(before.hook, r)
        BY <4>1, <4>2 DEF CommitOK
      <4> QED
        BY <4>1, <4>2, <4>3 DEF TellsBy, before
    <3> QED
      BY <3>3, <3>4
  <2> QED
    BY <1>3, <2>1
<1> QED
  BY <1>2, <1>3, <1>6, <1>8, StepThatAsks DEF before

(***************************************************************************)
(* Runs and people                                                         *)
(***************************************************************************)
LEMMA StepOfARun ==
    ASSUME IntakeInv, ForgeLasts, ForgeOK', acts' = acts, deliveries' = deliveries,
           NEW r \in runs, NEW now, runs' = (runs \ {r}) \cup {now},
           DOMAIN now = DOMAIN r, now.by = r.by, now.number = r.number
    PROVE  IntakeInv'
<1>1. deliveries' \in Seq(Range(deliveries')) /\ setup' \in Setups /\ acts' \in Nat
  BY DEF IntakeInv, ForgeLasts
<1>2. \A d \in Range(deliveries') : (DeliveryOK(d))'
  <2>1. ASSUME NEW d \in Range(deliveries) PROVE (DeliveryOK(d))'
    <3>1. DeliveryOK(d)
      BY DEF IntakeInv
    <3> QED
      BY <3>1, WhatIsInOrderStays
  <2> QED
    BY <2>1
<1>3. ASSUME NEW q \in runs' PROVE (RunOK(q))'
  <2>1. \A s \in runs : RunOK(s)
    BY DEF IntakeInv
  <2>2. /\ {"by", "number", "status"} \subseteq DOMAIN q /\ q.by \in DOMAIN deliveries
        /\ \A hook \in {deliveries[q.by].hook} : Entitled(hook, q.number)
    BY <2>1 DEF RunOK
  <2>3. PICK hook : hook = deliveries[q.by].hook
    OBVIOUS
  <2>4. Entitled(hook, q.number)
    BY <2>2, <2>3
  <2>5. (Entitled(hook, q.number))'
    BY <2>4, WhatIsEntitledStays
  <2>6. \A h \in {deliveries'[q.by].hook} : (Entitled(h, q.number))'
    BY <2>3, <2>5
  <2> QED
    BY <2>2, <2>6 DEF RunOK
<1> QED
  BY <1>1, <1>2, <1>3 DEF IntakeInv

\* A step that tells nothing new of what is there, and tells of what is new.
LEMMA CommitsLast ==
    ASSUME IntakeInv, CommitInv, ScriptGoesOn, ForgeTells', acts' <= Len(setup'.script),
           \A d \in Range(deliveries') : d \in Range(deliveries) \/ (DeliveryTells(d))',
           \A j \in DOMAIN deliveries : deliveries'[j].hook = deliveries[j].hook,
           \A q \in runs' : \E r \in runs : DOMAIN q = DOMAIN r /\ \A f \in DOMAIN r \ {"status"} : q[f] = r[f]
    PROVE  CommitInv'
<1>1. \A d \in Range(deliveries') : (DeliveryTells(d))'
  <2>1. \A d \in Range(deliveries) : DeliveryTells(d)
    BY DEF CommitInv
  <2>2. \A d \in Range(deliveries) : (DeliveryTells(d))'
    BY <2>1, WhatIsKnownStays
  <2> QED
    BY <2>2
<1>2. ASSUME NEW q \in runs' PROVE (RunTells(q))'
  <2>1. PICK r \in runs : DOMAIN q = DOMAIN r /\ \A f \in DOMAIN r \ {"status"} : q[f] = r[f]
    OBVIOUS
  <2>2. RunOK(r) /\ RunTells(r)
    BY DEF IntakeInv, CommitInv
  <2>3. /\ {"by", "number", "status", "sha", "from", "type"} \subseteq DOMAIN q
        /\ q.by = r.by /\ q.sha = r.sha /\ q.from = r.from /\ q.type = r.type
    BY <2>1, <2>2 DEF RunTells
  <2>4. PICK hook : hook = deliveries[r.by].hook
    OBVIOUS
  <2>5. FromOK(q.sha, q.from) /\ CommitOK(hook, q)
    BY <2>2, <2>3, <2>4 DEF RunTells, CommitOK
  <2>6. (FromOK(q.sha, q.from))' /\ (CommitOK(hook, q))'
    BY <2>5, WhatIsKnownStays
  <2>7. deliveries'[q.by].hook = hook
    BY <2>2, <2>3, <2>4 DEF RunOK
  <2>8. \A h \in {deliveries'[q.by].hook} : (CommitOK(h, q))'
    BY <2>6, <2>7
  <2> QED
    BY <2>3, <2>6, <2>8 DEF RunTells
<1> QED
  BY <1>1, <1>2 DEF CommitInv

LEMMA StepOfEnding ==
    ASSUME IntakeInv, NEW r \in runs, RunEnds(r) \/ Prune(r)
    PROVE  IntakeInv' /\ (CommitInv => CommitInv')
<1>1. PICK end : runs' = (runs \ {r}) \cup {[r EXCEPT !.status = end]}
  BY DEF RunEnds, Prune
<1>2. UNCHANGED <<setup, acts, deliveries>>
  BY DEF RunEnds, Prune
<1>3. forge' = forge \/ forge' = [forge EXCEPT !.statuses[r.sha] = forge.statuses[r.sha] \cup {r.name}]
  BY DEF RunEnds, Prune
<1>4. ForgeOK
  BY DEF IntakeInv
<1>5. DOMAIN forge' = DOMAIN forge /\ forge'.pulls = forge.pulls /\ forge'.comments = forge.comments
      /\ forge'.branches = forge.branches
  <2>1. ASSUME NEW x, forge' = [forge EXCEPT !.statuses = x]
        PROVE  DOMAIN forge' = DOMAIN forge /\ forge'.pulls = forge.pulls /\ forge'.comments = forge.comments
               /\ forge'.branches = forge.branches
    BY <1>4, <2>1 DEF ForgeOK
  <2> QED
    BY <1>3, <2>1
<1>6. ForgeLasts
  BY <1>2, <1>5 DEF ForgeLasts
<1>7. ForgeOK'
  <2>1. Prefix' = Prefix
    BY <1>2, TheInstallationLasts
  <2> QED
    BY <1>2, <1>4, <1>5, <2>1 DEF ForgeOK
<1>8. PICK now : now = [r EXCEPT !.status = end]
  OBVIOUS
<1>9. DOMAIN now = DOMAIN r /\ now.by = r.by /\ now.number = r.number
  <2>1. RunOK(r)
    BY DEF IntakeInv
  <2> QED
    BY <1>8, <2>1 DEF RunOK
<1>10. IntakeInv'
  BY <1>1, <1>2, <1>6, <1>7, <1>8, <1>9, StepOfARun
<1>11. ASSUME CommitInv PROVE CommitInv'
  <2>1. ScriptGoesOn /\ acts' <= Len(setup'.script)
    BY <1>2, <1>5, <1>11 DEF IntakeInv, CommitInv, ScriptGoesOn
  <2>2. ForgeTells'
    BY <1>2, <1>5, <1>11, <2>1, ForgeStillTells DEF CommitInv
  <2>3. \A q \in runs' : \E p \in runs : DOMAIN q = DOMAIN p /\ \A f \in DOMAIN p \ {"status"} : q[f] = p[f]
    <3>1. DOMAIN now = DOMAIN r /\ \A f \in DOMAIN r \ {"status"} : now[f] = r[f]
      BY <1>8
    <3> QED
      BY <1>1, <1>8, <3>1
  <2>4. deliveries' = deliveries
    BY <1>2
  <2> QED
    BY <1>11, <2>1, <2>2, <2>3, <2>4, CommitsLast
<1> QED
  BY <1>10, <1>11

\* What an act brings about, and what it leaves.
LEMMA WhatAnActChanges ==
    ASSUME IntakeInv, Act
    PROVE  \E act : /\ acts + 1 \in DOMAIN setup.script /\ act = setup.script[acts + 1]
                    /\ acts' = acts + 1 /\ setup' = setup /\ runs' = runs
                    /\ deliveries' = Append(deliveries, Delivery(act.hook))
                    /\ DOMAIN forge' = DOMAIN forge
                    /\ DOMAIN forge'.pulls = DOMAIN act.pulls \cup DOMAIN forge.pulls
                    /\ \A n \in DOMAIN act.pulls : forge'.pulls[n] = act.pulls[n]
                    /\ \A n \in DOMAIN forge.pulls : n \notin DOMAIN act.pulls =>
                         forge'.pulls[n] = forge.pulls[n]
                    /\ forge'.comments = forge.comments \o act.comments
                    /\ DOMAIN forge'.branches = DOMAIN act.branches \cup DOMAIN forge.branches
                    /\ \A n \in DOMAIN act.branches : forge'.branches[n] = act.branches[n]
                    /\ \A n \in DOMAIN forge.branches : n \notin DOMAIN act.branches =>
                         forge'.branches[n] = forge.branches[n]
<1> DEFINE act == setup.script[acts + 1]
           a == [forge EXCEPT !.pulls = Updated(forge.pulls, act.pulls)]
           b == [a EXCEPT !.branches = Updated(forge.branches, act.branches)]
           c == [b EXCEPT !.comments = forge.comments \o act.comments]
<1>1. setup \in Setups /\ acts \in Nat /\ ForgeOK
  BY DEF IntakeInv
<1>2. acts + 1 \in DOMAIN setup.script
  <2>1. setup.script \in Seq(Range(setup.script)) /\ acts < Len(setup.script)
    BY <1>1, IntakeAssumption, ZenonT(60) DEF Act
  <2>2. Len(setup.script) \in Nat /\ DOMAIN setup.script = 1 .. Len(setup.script)
    BY <2>1, LenProperties
  <2> QED
    BY <1>1, <2>1, <2>2
<1>3. forge' = [forge EXCEPT !.pulls = Updated(@, act.pulls),
                             !.branches = Updated(@, act.branches),
                             !.comments = @ \o act.comments]
  BY DEF Act
<1>4. /\ acts' = acts + 1 /\ setup' = setup /\ runs' = runs
      /\ deliveries' = Append(deliveries, Delivery(act.hook))
  BY DEF Act
<1> HIDE DEF act
<1>5. forge' = c
  BY <1>1, <1>3 DEF ForgeOK
<1>6. /\ DOMAIN c = DOMAIN forge /\ c.pulls = Updated(forge.pulls, act.pulls)
      /\ c.comments = forge.comments \o act.comments
      /\ c.branches = Updated(forge.branches, act.branches)
  <2>1. DOMAIN a = DOMAIN forge /\ a.pulls = Updated(forge.pulls, act.pulls)
    BY <1>1 DEF ForgeOK
  <2> HIDE DEF a
  <2>2. DOMAIN b = DOMAIN forge /\ b.pulls = a.pulls /\ b.branches = Updated(forge.branches, act.branches)
    BY <1>1, <2>1 DEF ForgeOK
  <2> HIDE DEF b
  <2>3. DOMAIN c = DOMAIN forge /\ c.pulls = b.pulls /\ c.comments = forge.comments \o act.comments
        /\ c.branches = b.branches
    BY <1>1, <2>2 DEF ForgeOK
  <2> QED
    BY <2>1, <2>2, <2>3
<1> HIDE DEF c
<1>7. /\ DOMAIN Updated(forge.pulls, act.pulls) = DOMAIN act.pulls \cup DOMAIN forge.pulls
      /\ \A n \in DOMAIN act.pulls : Updated(forge.pulls, act.pulls)[n] = act.pulls[n]
      /\ \A n \in DOMAIN forge.pulls : n \notin DOMAIN act.pulls =>
           Updated(forge.pulls, act.pulls)[n] = forge.pulls[n]
  BY DEF Updated
<1>8. /\ DOMAIN Updated(forge.branches, act.branches) = DOMAIN act.branches \cup DOMAIN forge.branches
      /\ \A n \in DOMAIN act.branches : Updated(forge.branches, act.branches)[n] = act.branches[n]
      /\ \A n \in DOMAIN forge.branches : n \notin DOMAIN act.branches =>
           Updated(forge.branches, act.branches)[n] = forge.branches[n]
  BY DEF Updated
<1>9. /\ DOMAIN forge' = DOMAIN forge
      /\ DOMAIN forge'.pulls = DOMAIN act.pulls \cup DOMAIN forge.pulls
      /\ \A n \in DOMAIN act.pulls : forge'.pulls[n] = act.pulls[n]
      /\ \A n \in DOMAIN forge.pulls : n \notin DOMAIN act.pulls => forge'.pulls[n] = forge.pulls[n]
  BY <1>5, <1>6, <1>7
<1>10. /\ forge'.comments = forge.comments \o act.comments
       /\ DOMAIN forge'.branches = DOMAIN act.branches \cup DOMAIN forge.branches
       /\ \A n \in DOMAIN act.branches : forge'.branches[n] = act.branches[n]
       /\ \A n \in DOMAIN forge.branches : n \notin DOMAIN act.branches =>
            forge'.branches[n] = forge.branches[n]
  BY <1>5, <1>6, <1>8
<1>11. act = setup.script[acts + 1]
  BY DEF act
<1>12. WITNESS act
<1> QED
  BY <1>2, <1>4, <1>9, <1>10, <1>11

LEMMA StepOfActing ==
    ASSUME IntakeInv, Act
    PROVE  IntakeInv' /\ (CommitInv => CommitInv')
<1>1. PICK act : /\ acts + 1 \in DOMAIN setup.script /\ act = setup.script[acts + 1]
                 /\ acts' = acts + 1 /\ setup' = setup /\ runs' = runs
                 /\ deliveries' = Append(deliveries, Delivery(act.hook))
                 /\ DOMAIN forge' = DOMAIN forge
                 /\ DOMAIN forge'.pulls = DOMAIN act.pulls \cup DOMAIN forge.pulls
                 /\ \A n \in DOMAIN act.pulls : forge'.pulls[n] = act.pulls[n]
                 /\ \A n \in DOMAIN forge.pulls : n \notin DOMAIN act.pulls => forge'.pulls[n] = forge.pulls[n]
                 /\ forge'.comments = forge.comments \o act.comments
                 /\ DOMAIN forge'.branches = DOMAIN act.branches \cup DOMAIN forge.branches
                 /\ \A n \in DOMAIN act.branches : forge'.branches[n] = act.branches[n]
                 /\ \A n \in DOMAIN forge.branches : n \notin DOMAIN act.branches =>
                      forge'.branches[n] = forge.branches[n]
  BY WhatAnActChanges
<1>2. setup \in Setups /\ acts \in Nat /\ ForgeOK /\ deliveries \in Seq(Range(deliveries))
  BY DEF IntakeInv
<1>3. act.pulls \in PullsOf(setup) /\ act.comments \in CommentsOf(setup)
  BY <1>1 DEF PullsOf, CommentsOf
<1>4. /\ act.comments \in Seq(Range(act.comments))
      /\ \A k \in DOMAIN act.comments : act.comments[k].by = Bot =>
           ~IsOkToTestComment(act.comments[k].text, Prefix)
  <2>1. Prefix = "/" \/ Prefix = setup.settings.prefix
    BY DEF Prefix, Settings
  <2>2. /\ act.comments \in Seq(Range(act.comments))
        /\ \A k \in DOMAIN act.comments : act.comments[k].by = Bot =>
             \A prefix \in {"/", setup.settings.prefix} : ~IsOkToTestComment(act.comments[k].text, prefix)
    BY <1>2, <1>3, IntakeAssumption
  <2> QED
    BY <2>1, <2>2
<1>5. forge.comments \in Seq(Range(forge.comments))
  BY <1>2 DEF ForgeOK
<1>6. /\ forge'.comments \in Seq(Range(forge'.comments))
      /\ DOMAIN forge.comments \subseteq DOMAIN forge'.comments
      /\ \A k \in DOMAIN forge.comments : forge'.comments[k] = forge.comments[k]
      /\ \A k \in DOMAIN forge'.comments : k \notin DOMAIN forge.comments =>
           \E j \in DOMAIN act.comments : forge'.comments[k] = act.comments[j]
  <2> DEFINE joined == forge.comments \o act.comments
  <2>2. /\ joined \in Seq(Range(joined))
        /\ Len(forge.comments) \in Nat /\ DOMAIN forge.comments = 1 .. Len(forge.comments)
        /\ Len(act.comments) \in Nat
        /\ DOMAIN joined = 1 .. Len(forge.comments) + Len(act.comments)
        /\ \A k \in DOMAIN forge.comments : joined[k] = forge.comments[k]
        /\ \A k \in DOMAIN joined : k \notin DOMAIN forge.comments =>
             k - Len(forge.comments) \in DOMAIN act.comments /\ joined[k] = act.comments[k - Len(forge.comments)]
    BY <1>4, <1>5, SeqJoined
  <2>3. forge'.comments = joined
    BY <1>1
  <2> HIDE DEF joined
  <2>4. DOMAIN forge.comments \subseteq DOMAIN joined
    <3>1. \A m, n \in Nat : 1 .. m \subseteq 1 .. m + n
      OBVIOUS
    <3> QED
      BY <2>2, <3>1
  <2> QED
    BY <2>2, <2>3, <2>4
<1>7. ForgeLasts
  <2>1. \A n \in DOMAIN forge.pulls : forge'.pulls[n].sameRepo = forge.pulls[n].sameRepo
    BY <1>1, <1>2, <1>3 DEF ForgeOK
  <2> QED
    BY <1>1, <1>6, <2>1 DEF ForgeLasts
<1>8. Prefix' = Prefix
  BY <1>1, TheInstallationLasts
<1>9. NumbersBy(setup, acts + 1) \subseteq DOMAIN forge'.pulls
  <2>1. ASSUME NEW n \in NumbersBy(setup, acts + 1) PROVE n \in NumbersBy(setup, acts) \cup DOMAIN act.pulls
    <3>1. CASE n \in DOMAIN setup.forge.pulls
      BY <3>1 DEF NumbersBy
    <3>2. CASE \E k \in 1 .. acts + 1 : n \in DOMAIN setup.script[k].pulls
      <4>1. PICK k \in 1 .. acts + 1 : n \in DOMAIN setup.script[k].pulls
        BY <3>2
      <4>2. k \in 1 .. acts \/ k = acts + 1
        BY <1>2
      <4> QED
        BY <1>1, <4>1, <4>2 DEF NumbersBy
    <3> QED
      BY <3>1, <3>2 DEF NumbersBy
  <2>2. NumbersBy(setup, acts) \subseteq DOMAIN forge.pulls
    BY <1>2 DEF ForgeOK
  <2> QED
    BY <1>1, <2>1, <2>2
<1>10. \A n \in DOMAIN forge'.pulls : \A p \in PullsOf(setup) :
         n \in DOMAIN p => p[n].sameRepo = forge'.pulls[n].sameRepo
  <2> SUFFICES ASSUME NEW n \in DOMAIN forge'.pulls, NEW p \in PullsOf(setup), n \in DOMAIN p
               PROVE  p[n].sameRepo = forge'.pulls[n].sameRepo
    OBVIOUS
  <2>1. CASE n \in DOMAIN act.pulls
    <3>1. \A p1, q1 \in PullsOf(setup) : \A m \in DOMAIN p1 \cap DOMAIN q1 : p1[m].sameRepo = q1[m].sameRepo
      BY <1>2, IntakeAssumption
    <3>2. p[n].sameRepo = act.pulls[n].sameRepo
      BY <1>3, <2>1, <3>1
    <3> QED
      BY <1>1, <2>1, <3>2
  <2>2. CASE n \notin DOMAIN act.pulls
    BY <1>1, <1>2, <2>2 DEF ForgeOK
  <2> QED
    BY <2>1, <2>2
<1>11. ForgeOK'
  <2>1. \A k \in DOMAIN forge'.comments : forge'.comments[k].by = Bot =>
          ~IsOkToTestComment(forge'.comments[k].text, Prefix)
    BY <1>2, <1>4, <1>6 DEF ForgeOK
  <2>2. {"pulls", "branches", "comments", "statuses"} = DOMAIN forge'
    BY <1>1, <1>2 DEF ForgeOK
  <2>3. (PullsOf(setup))' = PullsOf(setup) /\ (NumbersBy(setup, acts))' = NumbersBy(setup, acts + 1)
    BY <1>1 DEF PullsOf, NumbersBy
  <2> QED
    BY <1>6, <1>8, <1>9, <1>10, <2>1, <2>2, <2>3 DEF ForgeOK
<1>12. (HookOK(act.hook))'
  <2>1. act.hook.by # ""
    BY <1>1, <1>2, IntakeAssumption, Zenon
  <2>2. act.hook.kind = "pull_request" =>
          act.hook.number \in DOMAIN act.pulls /\ act.pulls[act.hook.number].sameRepo = act.hook.pull.sameRepo
    BY <1>1, <1>2, IntakeAssumption, ZenonT(60)
  <2>3. act.hook.kind \in {"check_suite", "check_run"} =>
          act.hook.pulls \cup act.hook.runPulls \subseteq NumbersBy(setup, acts + 1)
    BY <1>1, <1>2, IntakeAssumption, ZenonT(60)
  <2>4. act.hook.kind = "pull_request" =>
          act.hook.number \in DOMAIN forge'.pulls /\ forge'.pulls[act.hook.number].sameRepo = act.hook.pull.sameRepo
    BY <1>1, <2>2
  <2>5. act.hook.kind \in {"check_suite", "check_run"} =>
          act.hook.pulls \cup act.hook.runPulls \subseteq DOMAIN forge'.pulls
    BY <1>9, <2>3
  <2> QED
    BY <2>1, <2>4, <2>5 DEF HookOK
<1>13. (DeliveryOK(Delivery(act.hook)))'
  <2>1. PICK d : d = Delivery(act.hook)
    OBVIOUS
  <2>2. DOMAIN d = DeliveryFields /\ d.hook = act.hook /\ d.pc = "sent" /\ d.event = NewEvent
    BY <2>1 DEF Delivery, DeliveryFields
  <2>3. DOMAIN d.event = EventFields
    BY <2>2, ANewEvent
  <2>4. (DeliveryOK(d))'
    BY <1>12, <2>2, <2>3 DEF DeliveryOK
  <2> QED
    BY <2>1, <2>4
<1>14. /\ deliveries' \in Seq(Range(deliveries'))
       /\ \A j \in DOMAIN deliveries : j \in DOMAIN deliveries' /\ deliveries'[j] = deliveries[j]
       /\ \A j \in DOMAIN deliveries' : j \notin DOMAIN deliveries => deliveries'[j] = Delivery(act.hook)
  <2>1. PICK d : d = Delivery(act.hook)
    OBVIOUS
  <2>2. PICK appended : appended = Append(deliveries, d)
    OBVIOUS
  <2>3. /\ appended \in Seq(Range(appended))
        /\ Len(deliveries) \in Nat /\ DOMAIN deliveries = 1 .. Len(deliveries)
        /\ DOMAIN appended = 1 .. Len(deliveries) + 1
        /\ \A j \in DOMAIN deliveries : appended[j] = deliveries[j]
        /\ appended[Len(deliveries) + 1] = d
    BY <1>2, <2>2, SeqAppended
  <2>4. deliveries' = appended
    BY <1>1, <2>1, <2>2
  <2> QED
    BY <2>1, <2>3, <2>4
<1>15. ASSUME NEW d \in Range(deliveries') PROVE (DeliveryOK(d))'
  <2>1. PICK j \in DOMAIN deliveries' : d = deliveries'[j]
    BY <1>15 DEF Range
  <2>2. CASE j \in DOMAIN deliveries
    <3>1. DeliveryOK(d)
      BY <1>14, <2>1, <2>2, TheDelivery
    <3> QED
      BY <1>7, <3>1, WhatIsInOrderStays
  <2>3. CASE j \notin DOMAIN deliveries
    <3>1. d = Delivery(act.hook)
      BY <1>14, <2>1, <2>3
    <3> QED
      BY <1>13, <3>1
  <2> QED
    BY <2>2, <2>3
<1>16. ASSUME NEW r \in runs PROVE (RunOK(r))'
  <2>1. RunOK(r)
    BY DEF IntakeInv
  <2>2. r.by \in DOMAIN deliveries' /\ deliveries'[r.by] = deliveries[r.by]
    BY <1>14, <2>1 DEF RunOK
  <2>3. PICK hook : hook = deliveries[r.by].hook
    OBVIOUS
  <2>4. Entitled(hook, r.number)
    BY <2>1, <2>3 DEF RunOK
  <2>5. (Entitled(hook, r.number))'
    BY <1>7, <2>4, WhatIsEntitledStays
  <2>6. \A h \in {deliveries'[r.by].hook} : (Entitled(h, r.number))'
    BY <2>2, <2>3, <2>5
  <2> QED
    BY <2>1, <2>2, <2>6 DEF RunOK
<1>17. setup' \in Setups /\ acts' \in Nat
  BY <1>1, <1>2
<1>18. IntakeInv'
  BY <1>1, <1>11, <1>14, <1>15, <1>16, <1>17 DEF IntakeInv
<1>19. ASSUME CommitInv PROVE CommitInv'
  <2>1. ScriptGoesOn
    BY <1>1, <1>2 DEF ScriptGoesOn
  <2>2. PullsAt(setup, acts + 1) = act.pulls /\ BranchesAt(setup, acts + 1) = act.branches
    BY <1>1, <1>2 DEF PullsAt, BranchesAt
  <2>3. acts + 1 \in 0..acts + 1
    BY <1>2
  <2>4. ForgeTells'
    <3>1. ForgeTells
      BY <1>19 DEF CommitInv
    <3>2. ASSUME NEW n \in DOMAIN act.pulls
          PROVE  n \in Nat \ {0} /\ act.pulls[n].head \in CommitsBy(setup, acts + 1, n)
      <4>1. n \in Nat \ {0} /\ act.pulls[n].head \in act.pulls[n].commits
        BY <1>2, <1>3, IntakeAssumption, ZenonT(60)
      <4> QED
        BY <2>2, <2>3, <4>1 DEF CommitsBy
    <3>3. ASSUME NEW n \in DOMAIN forge'.pulls
          PROVE  n \in Nat \ {0} /\ forge'.pulls[n].head \in (CommitsBy(setup, acts, n))'
      <4>1. CASE n \in DOMAIN act.pulls
        BY <1>1, <2>1, <3>2, <4>1, CommitsStay
      <4>2. CASE n \notin DOMAIN act.pulls
        BY <1>1, <2>1, <3>1, <4>2, CommitsStay DEF ForgeTells
      <4> QED
        BY <4>1, <4>2
    <3>4. DefaultBranch \in DOMAIN forge'.branches
          /\ forge'.branches[DefaultBranch] \in (DefaultHeadsBy(setup, acts))'
      <4>1. CASE DefaultBranch \in DOMAIN act.branches
        <5>1. act.branches[DefaultBranch] \in DefaultHeadsBy(setup, acts + 1)
          BY <2>2, <2>3, <4>1 DEF DefaultHeadsBy
        <5> QED
          BY <1>1, <2>1, <4>1, <5>1, CommitsStay
      <4>2. CASE DefaultBranch \notin DOMAIN act.branches
        BY <1>1, <2>1, <3>1, <4>2, CommitsStay DEF ForgeTells
      <4> QED
        BY <4>1, <4>2
    <3> QED
      BY <3>3, <3>4 DEF ForgeTells
  <2>5. (HookTells(act.hook))'
    <3>1. act.hook.kind \in ByCommit => act.hook.sha # Nobody
      BY <1>1, <1>2, IntakeAssumption, ZenonT(60) DEF ByCommit, Nobody
    <3>2. act.hook.kind = "pull_request" => act.hook.pull.head # Nobody
      <4>1. act.hook.kind = "pull_request" =>
              act.hook.number \in DOMAIN act.pulls /\ act.hook.pull.head \in act.pulls[act.hook.number].commits
        BY <1>1, <1>2, IntakeAssumption, ZenonT(60)
      <4>2. \A n \in DOMAIN act.pulls : Nobody \notin act.pulls[n].commits
        BY <1>2, <1>3, IntakeAssumption, ZenonT(60) DEF Nobody
      <4> QED
        BY <4>1, <4>2
    <3>3. (/\ act.hook.kind = "comment"
           /\ act.hook.number # 0 \/ setup.provider \notin {"github", "gitea"}) =>
            act.hook.pull.head \in CommitsBy(setup, acts + 1, act.hook.number)
      BY <1>1, <1>2, IntakeAssumption, ZenonT(60)
    <3>4. (CommitsBy(setup, acts, act.hook.number))' = CommitsBy(setup, acts + 1, act.hook.number)
      BY <1>1, <2>1, CommitsStay
    <3>5. setup' = setup
      BY <1>1
    <3> QED
      BY <3>1, <3>2, <3>3, <3>4, <3>5 DEF HookTells, Is
  <2>6. (DeliveryTells(Delivery(act.hook)))'
    <3>1. PICK d : d = Delivery(act.hook)
      OBVIOUS
    <3>2. d.hook = act.hook /\ d.pc = "sent"
      BY <3>1 DEF Delivery
    <3>3. (DeliveryTells(d))'
      BY <2>5, <3>2 DEF DeliveryTells
    <3> QED
      BY <3>1, <3>3
  <2>7. \A d \in Range(deliveries') : d \in Range(deliveries) \/ (DeliveryTells(d))'
    <3>1. PICK sent : sent = Delivery(act.hook)
      OBVIOUS
    <3>2. (DeliveryTells(sent))'
      BY <2>6, <3>1
    <3> SUFFICES ASSUME NEW d \in Range(deliveries'), d \notin Range(deliveries) PROVE d = sent
      BY <3>2
    <3> QED
      BY <1>14, <3>1 DEF Range
  <2>8. \A q \in runs' : \E r \in runs : DOMAIN q = DOMAIN r /\ \A f \in DOMAIN r \ {"status"} : q[f] = r[f]
    BY <1>1
  <2>9. acts' <= Len(setup'.script)
    <3>1. setup.script \in Seq(Range(setup.script))
      BY <1>2, IntakeAssumption
    <3>2. Len(setup.script) \in Nat /\ DOMAIN setup.script = 1 .. Len(setup.script)
      BY <3>1, LenProperties
    <3> QED
      BY <1>1, <3>2
  <2>10. \A j \in DOMAIN deliveries : deliveries'[j].hook = deliveries[j].hook
    BY <1>14
  <2> QED
    BY <1>19, <2>1, <2>4, <2>7, <2>8, <2>9, <2>10, CommitsLast
<1> QED
  BY <1>18, <1>19

(***************************************************************************)
(* The theorem                                                             *)
(***************************************************************************)
LEMMA IntakeStarts ==
    ASSUME Init
    PROVE  IntakeInv /\ CommitInv
<1>1. setup \in Setups /\ acts = 0 /\ deliveries = <<>> /\ runs = {}
  BY DEF Init
<1>2. DOMAIN forge = {"pulls", "branches", "comments", "statuses"}
      /\ forge.pulls = setup.forge.pulls /\ forge.comments = setup.forge.comments
      /\ forge.branches = setup.forge.branches
  BY DEF Init
<1>3. setup.forge.pulls \in PullsOf(setup) /\ setup.forge.comments \in CommentsOf(setup)
  BY DEF PullsOf, CommentsOf
<1>4. /\ setup.forge.comments \in Seq(Range(setup.forge.comments))
      /\ \A i \in DOMAIN setup.forge.comments : setup.forge.comments[i].by = Bot =>
           \A prefix \in {"/", setup.settings.prefix} : ~IsOkToTestComment(setup.forge.comments[i].text, prefix)
  BY <1>1, <1>3, IntakeAssumption
<1>5. Prefix = "/" \/ Prefix = setup.settings.prefix
  BY DEF Prefix, Settings
<1>6. \A p, q \in PullsOf(setup) : \A n \in DOMAIN p \cap DOMAIN q : p[n].sameRepo = q[n].sameRepo
  BY <1>1, IntakeAssumption
<1>7. NumbersBy(setup, acts) \subseteq DOMAIN forge.pulls
  BY <1>1, <1>2 DEF NumbersBy
<1>8. ForgeOK
  <2>1. \A n \in DOMAIN forge.pulls : \A p \in PullsOf(setup) :
          n \in DOMAIN p => p[n].sameRepo = forge.pulls[n].sameRepo
    BY <1>2, <1>3, <1>6
  <2> QED
    BY <1>2, <1>4, <1>5, <1>7, <2>1 DEF ForgeOK
<1>9. deliveries \in Seq(Range(deliveries)) /\ Range(deliveries) = {}
  BY <1>1 DEF Range
<1>10. IntakeInv
  BY <1>1, <1>8, <1>9 DEF IntakeInv
<1>11. ForgeTells
  <2>1. PullsAt(setup, acts) = forge.pulls /\ BranchesAt(setup, acts) = forge.branches /\ acts \in 0..acts
    BY <1>1, <1>2 DEF PullsAt, BranchesAt
  <2>2. \A n \in DOMAIN forge.pulls : n \in Nat \ {0} /\ forge.pulls[n].head \in forge.pulls[n].commits
    BY <1>1, <1>2, <1>3, IntakeAssumption, ZenonT(60)
  <2>3. DefaultBranch \in DOMAIN forge.branches
    BY <1>1, <1>2, IntakeAssumption
  <2> QED
    BY <2>1, <2>2, <2>3 DEF ForgeTells, CommitsBy, DefaultHeadsBy
<1>12. acts <= Len(setup.script)
  <2>1. setup.script \in Seq(Range(setup.script))
    BY <1>1, IntakeAssumption
  <2> QED
    BY <1>1, <2>1, LenProperties
<1> QED
  BY <1>1, <1>9, <1>10, <1>11, <1>12 DEF CommitInv

LEMMA IntakeGoesOn ==
    ASSUME IntakeInv, [Next]_vars
    PROVE  IntakeInv' /\ (CommitInv => CommitInv')
<1>1. CASE Act
  BY <1>1, StepOfActing
<1>2. CASE \E r \in runs : RunEnds(r) \/ Prune(r)
  BY <1>2, StepOfEnding
<1>3. CASE \E i \in DOMAIN deliveries : Goroutine(i)
  <2>1. PICK i \in DOMAIN deliveries : Goroutine(i)
    BY <1>3
  <2>2. CASE handleEvent(i)
    BY <2>2, StepOfHandling
  <2>3. CASE processEvent(i)
    BY <2>3, StepOfProcessing
  <2>4. CASE verifyRepoAndUser(i)
    BY <2>4, StepOfVerifying
  <2>5. CASE ListTektonDir(i)
    BY <2>5, StepOfListing
  <2>6. CASE ReadTektonDir(i)
    BY <2>6, StepOfReading
  <2>7. CASE MatchDefinitions(i)
    BY <2>7, StepOfMatching
  <2>8. CASE StartRuns(i)
    BY <2>8, StepOfStarting
  <2> QED
    BY <2>1, <2>2, <2>3, <2>4, <2>5, <2>6, <2>7, <2>8 DEF Goroutine
<1>4. CASE UNCHANGED vars
  <2>1. /\ setup' = setup /\ forge' = forge /\ acts' = acts /\ deliveries' = deliveries /\ runs' = runs
    BY <1>4 DEF vars
  <2>2. ForgeLasts
    BY <2>1 DEF ForgeLasts
  <2>3. Prefix' = Prefix
    BY <2>1, TheInstallationLasts
  <2>4. ForgeOK'
    BY <2>1, <2>3 DEF IntakeInv, ForgeOK
  <2>5. \A d \in Range(deliveries') : (DeliveryOK(d))'
    <3>1. ASSUME NEW d \in Range(deliveries) PROVE (DeliveryOK(d))'
      BY <2>2, WhatIsInOrderStays DEF IntakeInv
    <3> QED
      BY <2>1, <3>1
  <2>6. ASSUME NEW r \in runs PROVE (RunOK(r))'
    <3>1. RunOK(r)
      BY DEF IntakeInv
    <3>2. PICK hook : hook = deliveries[r.by].hook
      OBVIOUS
    <3>3. Entitled(hook, r.number)
      BY <3>1, <3>2 DEF RunOK
    <3>4. (Entitled(hook, r.number))'
      BY <2>2, <3>3, WhatIsEntitledStays
    <3>5. \A h \in {deliveries'[r.by].hook} : (Entitled(h, r.number))'
      BY <2>1, <3>2, <3>4
    <3> QED
      BY <2>1, <3>1, <3>5 DEF RunOK
  <2>7. IntakeInv'
    BY <2>1, <2>4, <2>5, <2>6 DEF IntakeInv
  <2>8. ASSUME CommitInv PROVE CommitInv'
    <3>1. ScriptGoesOn /\ acts' <= Len(setup'.script)
      BY <2>1, <2>8 DEF IntakeInv, CommitInv, ScriptGoesOn
    <3>2. ForgeTells'
      BY <2>1, <2>8, <3>1, ForgeStillTells DEF CommitInv
    <3> QED
      BY <2>1, <2>8, <3>1, <3>2, CommitsLast
  <2> QED
    BY <2>7, <2>8
<1> QED
  BY <1>1, <1>2, <1>3, <1>4 DEF Next

\* A pull request, or a comment, of somebody who is not trusted starts nothing
\* before somebody who is has said /ok-to-test there (the access checks of the
\* providers, pipelineascode/match.go), whatever the forge, the settings, the
\* definitions, what people do, which calls fail and how the goroutines that
\* handle the hooks take turns.
THEOREM OutsidersAlwaysWait == Spec => []OutsidersWaitForAMember
<1>1. Init => IntakeInv
  BY IntakeStarts
<1>2. IntakeInv /\ [Next]_vars => IntakeInv'
  BY IntakeGoesOn
<1>3. IntakeInv => OutsidersWaitForAMember
  <2> SUFFICES ASSUME IntakeInv, NEW r \in runs
               PROVE  LET hook == HookOf(r)
                      IN  \/ IsOfTheForge(hook, r.number) \/ IsOfTheRepository(hook, r.number) \/ AsksForNoTeam
                          \/ Sender(hook) \in Trusted(hook)
                          \/ IsApproved(hook, r.number)
    BY DEF OutsidersWaitForAMember
  <2>1. PICK hook : hook = HookOf(r)
    OBVIOUS
  <2>2. Entitled(hook, r.number)
    BY <2>1 DEF IntakeInv, RunOK, HookOf
  <2> QED
    BY <2>1, <2>2 DEF Entitled
<1> QED
  BY <1>1, <1>2, <1>3, PTL DEF Spec

\* What runs is what was asked for: the commit an /ok-to-test of GitHub has to
\* name (parse_payload.go:912), the commit of the hook, or of its pull request,
\* and the definitions of that commit or, with the default_branch provenance, of
\* one the default branch was at - whatever is pushed while a goroutine asks the
\* forge, lists, reads and matches, and whichever calls fail.
THEOREM RunsAlwaysOfTheirCommit == Spec => []RunsAreOfTheirCommit
<1>1. Init => IntakeInv /\ CommitInv
  BY IntakeStarts
<1>2. IntakeInv /\ CommitInv /\ [Next]_vars => IntakeInv' /\ CommitInv'
  BY IntakeGoesOn
<1>3. IntakeInv /\ CommitInv => RunsAreOfTheirCommit
  <2> SUFFICES ASSUME IntakeInv, CommitInv PROVE RequiredCommit /\ DefinitionsAreOfTheCommit
    BY DEF RunsAreOfTheirCommit
  <2>1. ASSUME NEW r \in runs
        PROVE  FromOK(r.sha, r.from) /\ \A hook \in {HookOf(r)} : CommitOK(hook, r)
    BY DEF CommitInv, RunTells, HookOf
  <2>2. RequiredCommit
    BY <2>1 DEF CommitOK, RequiredCommit
  <2>3. DefinitionsAreOfTheCommit
    BY <2>1 DEF CommitOK, FromOK, ByCommit, DefinitionsAreOfTheCommit
  <2> QED
    BY <2>2, <2>3
<1> QED
  BY <1>1, <1>2, <1>3, PTL DEF Spec
=============================================================================
