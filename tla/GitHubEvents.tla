---------------------------- MODULE GitHubEvents ----------------------------
(* GitHub, as an App or with the webhook of a repository                   *)
(* (pkg/provider/github: detect.go, parse_payload.go, acl.go, github.go).  *)
EXTENDS GitEvents, Access

OpenOrSync == {"opened", "synchronize", "reopened", "ready_for_review"}

(***************************************************************************)
(* Detect: the trigger a hook is for, "" when it is refused.               *)
(***************************************************************************)
CommentTrigger(hook, prefix, cancellable) ==
  CASE ~cancellable -> "comment"
    [] cancellable /\ IsTestRetestComment(hook.comment, prefix) -> "retest"
    [] cancellable /\ ~IsTestRetestComment(hook.comment, prefix) ->
         IF hook.kind = "comment" /\ IsOkToTestComment(hook.comment, prefix) THEN "ok-to-test"
         ELSE IF IsCancelComment(hook.comment, prefix) THEN "cancel" ELSE "comment"

detectTriggerTypeFromPayload(hook, prefix, settings) ==
  LET said == hook.action = "created" \/ (hook.action = "edited" /\ settings.edited)
  IN  CASE hook.kind = "push" -> "push"
        [] hook.kind = "pull_request" ->
             CASE hook.action = "closed" -> "pull_request_closed"
               [] hook.action \in OpenOrSync \cup {"labeled"} -> "pull_request"
               [] OTHER -> ""
        [] hook.kind = "comment" ->
             IF said THEN CommentTrigger(hook, prefix, hook.number # 0 /\ hook.pull.open) ELSE ""
        [] hook.kind = "commit_comment" ->
             IF said THEN CommentTrigger(hook, prefix, TRUE) ELSE ""
        [] hook.kind = "check_suite" ->
             IF hook.action = "rerequested" THEN "check-suite-rerequested" ELSE ""
        [] hook.kind = "check_run" ->
             IF hook.action = "rerequested" THEN "check-run-rerequested" ELSE ""
        [] OTHER -> ""

Detect(hook, settings) == detectTriggerTypeFromPayload(hook, "/", settings) # ""

(***************************************************************************)
(* ParsePayload                                                            *)
(***************************************************************************)
populateRunEventFromPullRequest(event, number, pull) ==
  [event EXCEPT !.number = number,
                !.sha = IF @ = "" THEN pull.head ELSE @,
                !.sender = IF @ = "" THEN pull.author ELSE @,
                !.type = IF @ = "" THEN "pull_request" ELSE @,
                !.head = pull.branch, !.base = pull.base,
                !.labels = @ \cup pull.labels, !.sameRepo = pull.sameRepo]

getPullRequestsWithCommit(sha, forge) ==
  {n \in DOMAIN forge.pulls : sha \in forge.pulls[n].commits}
OneOf(prs) == IF prs = {} THEN 0 ELSE CHOOSE n \in prs : \A m \in prs : n <= m
isCommitPartOfPullRequest(sha, forge) ==
  \E n \in getPullRequestsWithCommit(sha, forge) : forge.pulls[n].open

\* The open pull requests with this head: first among those the commits API
\* knows, which leaves out those of forks, then in the list of all.
findOpenPullRequestBySHA(sha, forge) ==
  LET heads == {n \in DOMAIN forge.pulls : forge.pulls[n].open /\ forge.pulls[n].head = sha}
      known == {n \in heads : forge.pulls[n].sameRepo}
  IN  IF known # {} THEN known ELSE heads

\* A run or a suite asked for again: with its pull request when the hook names
\* one, else found by the commit when no branch is known, else as a push.
Rerequested(hook, forge, listed, broken, pushTrigger) ==
  LET asked    == [NewEvent EXCEPT !.sha = hook.sha, !.head = hook.ref, !.sender = hook.by]
      of(n)    == [asked EXCEPT !.trigger = "pull_request", !.number = n]
      found    == findOpenPullRequestBySHA(hook.sha, forge)
      the(s)   == CHOOSE n \in s : TRUE
      about(n) == Parsed(populateRunEventFromPullRequest(of(n), n, forge.pulls[n]))
  IN  IF \E i \in DOMAIN listed : Cardinality(listed[i]) > 1 /\ \A j \in 1..(i-1) : listed[j] = {}
        THEN Failed
      ELSE IF \E i \in DOMAIN listed : listed[i] # {}
        THEN IF "pull" \in broken THEN Failed
             ELSE about(the(listed[SelectInSeq(listed, LAMBDA s : s # {})]))
      ELSE IF hook.ref = NoRef
        THEN IF "pulls" \in broken \/ Cardinality(found) # 1 THEN Failed ELSE about(the(found))
      ELSE Parsed([asked EXCEPT !.base = hook.ref, !.type = "push", !.trigger = pushTrigger])

handleCheckSuites(hook, forge, broken) ==
  Rerequested(hook, forge, <<hook.pulls>>, broken, "push")
\* A check run has its own list besides its suite's; a push is left without a trigger.
handleReRequestEvent(hook, forge, broken) ==
  Rerequested(hook, forge, <<hook.pulls, hook.runPulls>>, broken, "")

\* The commit an /ok-to-test has to name, where it has to name one.
RequiredSHA(event, hook) == <<"sha", event.sha>>

handleIssueCommentEvent(hook, forge, settings, broken) ==
  LET prefix == settings.prefix
      asked  == [NewEvent EXCEPT !.sender = hook.by, !.trigger = "pull_request"]
      event  == SetEventTypeAndTargetPR(
                  populateRunEventFromPullRequest(asked, hook.number, forge.pulls[hook.number]),
                  hook.comment, prefix)
      sha    == GetSHAFromOkToTestComment(hook.comment, prefix)
  IN  IF hook.number = 0 \/ ~settings.configured \/ "pull" \in broken
        THEN Failed
      ELSE IF /\ settings.requireSHA
              /\ IsOkToTestComment(hook.comment, prefix)
              /\ sha # RequiredSHA(event, hook)
        THEN [Failed EXCEPT !.reply = TRUE]
      ELSE Parsed(event)

handleCommitCommentEvent(hook, forge, settings, broken) ==
  LET prs == IF "pulls" \in broken THEN {} ELSE getPullRequestsWithCommit(hook.sha, forge)
  IN  IF ~settings.configured \/ "commit" \in broken THEN Failed
      ELSE OnBranchOrTag([CommitCommentEvent(hook, settings.prefix) EXCEPT
                            !.event.number = OneOf(prs)], forge, broken)

\* A push: of a commit of a pull request that is open it may be left out.
processPush(hook, forge, settings, broken) ==
  LET prs == IF ~settings.app \/ "pulls" \in broken
               THEN {} ELSE getPullRequestsWithCommit(hook.sha, forge)
  IN  IF hook.deleted THEN Failed
      ELSE IF /\ settings.skipPush /\ prs # {} /\ hook.ref.form # "tags"
              /\ isCommitPartOfPullRequest(hook.sha, forge)
        THEN Skipped
      ELSE Parsed([NewEvent EXCEPT
                     !.number = OneOf(prs),
                     !.sha = hook.sha, !.sender = hook.by, !.head = hook.ref, !.base = hook.ref,
                     !.type = "push", !.trigger = "push", !.titled = TRUE,
                     !.skipTitle = SkipCI(forge.message[hook.sha], TRUE)])

MutantRawAction(action) == IF action = "closed" THEN "closed" ELSE "pull_request"
TargetOf(action) == IF action = "closed" THEN "pull_request_closed" ELSE "pull_request"

processPullRequest(hook) ==
  LET pull == hook.pull
  IN  Parsed([NewEvent EXCEPT
                !.number = hook.number, !.sha = pull.head, !.sender = pull.author,
                !.head = pull.branch, !.base = pull.base, !.sameRepo = pull.sameRepo,
                !.labels = pull.labels,
                !.type = IF hook.action = "labeled" THEN "pull_request_labeled" ELSE "pull_request",
                !.trigger = TargetOf(hook.action)])

ParsePayload(hook, forge, settings, broken) ==
  IF settings.app /\ "token" \in broken THEN Failed
  ELSE CASE hook.kind = "push" -> processPush(hook, forge, settings, broken)
         [] hook.kind = "pull_request" -> processPullRequest(hook)
         [] hook.kind = "comment" -> handleIssueCommentEvent(hook, forge, settings, broken)
         [] hook.kind \in {"check_suite", "check_run", "commit_comment"} /\ ~settings.app -> Failed
         [] hook.kind = "commit_comment" /\ settings.app ->
              handleCommitCommentEvent(hook, forge, settings, broken)
         [] hook.kind = "check_suite" /\ settings.app -> handleCheckSuites(hook, forge, broken)
         [] hook.kind = "check_run" /\ settings.app -> handleReRequestEvent(hook, forge, broken)
         [] OTHER -> Failed

\* What the API says of the commit, of a branch's head when none is known.
GetCommitInfo(event, forge) ==
  WithCommitInfo([event EXCEPT !.sha = IF @ = "" THEN forge.branches[event.head.name] ELSE @],
                 forge)

\* The tree of a commit, with all its files.
GetTektonDir(event, forge, provenance) ==
  [from |-> TektonRevision(event, forge, provenance), byBranch |-> FALSE]

\* The files of a pull request are those of its head by now.
GetFiles(event, forge) == ChangedFiles(event, forge)

GetCommitStatuses(event, forge) == forge.statuses[event.sha]

(***************************************************************************)
(* IsAllowed                                                               *)
(***************************************************************************)
\* Teams are looked at in order; one that does not exist ends the search.
CheckPolicyAllowing(teams, sender, settings, broken) ==
  /\ "teams" \notin broken
  /\ \E i \in NamedTeams(teams) :
       /\ \A j \in NamedTeams(teams) : j < i => teams[j] \in DOMAIN settings.teams
       /\ teams[i] \in DOMAIN settings.teams /\ sender \in settings.teams[teams[i]]

canUseSameRepoPullRequestShortcut(event, hook) ==
  event.number # 0 /\ hook.kind \in {"pull_request", "check_run", "check_suite"}

aclCheckAll(sender, event, hook, settings, broken) ==
  Else(Answer(sender = settings.organization),
  Else(Answer(canUseSameRepoPullRequestShortcut(event, hook) /\ event.sameRepo),
  Else(Asked("members", broken, sender \in settings.members),
  Else(Asked("collaborators", broken, sender \in settings.collaborators),
       Answer("owners" \notin broken /\ InOwners(settings.owners, sender))))))

\* The /ok-to-test comments of a pull request.
GetStringPullRequestComment(number, forge, prefix) ==
  {i \in DOMAIN forge.comments : /\ forge.comments[i].on = number
                                 /\ IsOkToTestComment(forge.comments[i].text, prefix)}

aclAllowedOkToTestFromAnOwner(event, hook, forge, settings, broken) ==
  LET check(by) == aclCheckAll(by, event, hook, settings, broken)
      said == GetStringPullRequestComment(hook.number, forge, settings.prefix)
  IN  CASE hook.kind \notin {"comment", "pull_request"} -> "denied"
        [] hook.kind = "comment" /\ ~settings.remember ->
             IF "comment" \in broken THEN "error"
             ELSE IF IsOkToTestComment(hook.comment, settings.prefix)
               THEN check(hook.by) ELSE "denied"
        [] hook.kind = "pull_request" /\ ~settings.remember -> "denied"
        [] OTHER -> IF "comments" \in broken THEN "error"
                    ELSE FirstAbout(forge.comments, said, check)

IsAllowed(event, hook, forge, settings, broken) ==
  LET trigger == detectTriggerTypeFromPayload(hook, settings.prefix, settings)
      policy  == PolicyIsAllowed(settings.policy, trigger,
                   CheckPolicyAllowing(PolicyTeams(settings.policy, trigger), event.sender, settings, broken),
                   "owners" \notin broken /\ InOwners(settings.owners, event.sender))
  IN  CASE policy = "allowed" -> "allowed"
        [] policy = "disallowed" -> "denied"
        [] OTHER -> Else(aclCheckAll(event.sender, event, hook, settings, broken),
                         aclAllowedOkToTestFromAnOwner(event, hook, forge, settings, broken))
=============================================================================
