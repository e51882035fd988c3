---------------------------- MODULE GiteaEvents ----------------------------
(* Gitea and Forgejo (pkg/provider/gitea: detect.go, parse_payload.go,     *)
(* acl.go and gitea.go). Here too the sender is whoever acts on the pull   *)
(* request, and the prefix is always "/".                                  *)
EXTENDS GitEvents, Access

detectTriggerTypeFromPayload(hook) ==
  LET says(is(_, _)) == is(hook.comment, "/")
  IN  CASE hook.kind = "push" -> "push"
        [] hook.kind = "pull_request" ->
             IF hook.action \in {"opened", "synchronize", "reopened", "labeled", "closed"}
               THEN "pull_request" ELSE ""
        [] hook.kind = "comment" ->
             IF hook.action # "created" \/ hook.number = 0 \/ ~hook.pull.open THEN ""
             ELSE IF says(IsTestRetestComment) THEN "retest"
             ELSE IF says(IsOkToTestComment) THEN "ok-to-test"
             ELSE IF says(IsCancelComment) THEN "cancel" ELSE "comment"
        [] OTHER -> ""

Detect(hook, settings) == detectTriggerTypeFromPayload(hook) # ""

populateEventFromGiteaPullRequest(event, hook) ==
  [event EXCEPT !.number = hook.number, !.sha = hook.pull.head, !.sender = hook.by,
                !.head = hook.pull.branch, !.base = hook.pull.base]

processPullRequest(hook) ==
  Parsed([populateEventFromGiteaPullRequest(NewEvent, hook) EXCEPT
            !.labels = hook.pull.labels,
            !.type = IF hook.action = "labeled" THEN "pull_request_labeled" ELSE "pull_request",
            !.trigger = IF hook.action = "closed" THEN "pull_request_closed" ELSE "pull_request"])

processPush(hook, forge) ==
  Parsed([NewEvent EXCEPT
            !.sha = hook.sha, !.sender = hook.by, !.head = hook.ref, !.base = hook.ref,
            !.type = "push", !.trigger = "push", !.titled = ~hook.deleted,
            !.skipTitle = ~hook.deleted /\ SkipCI(forge.message[hook.sha], TRUE)])

ParsePayload(hook, forge, settings, broken) ==
  CASE hook.kind = "pull_request" -> processPullRequest(hook)
    [] hook.kind = "push" -> processPush(hook, forge)
    [] hook.kind = "comment" /\ hook.number # 0 ->
         Parsed([populateEventFromGiteaPullRequest(
                   SetEventTypeAndTargetPR(NewEvent, hook.comment, "/"), hook)
                 EXCEPT !.trigger = "pull_request"])
    [] OTHER -> Failed

GetCommitInfo(event, forge) ==
  WithCommitInfo([event EXCEPT !.sha = IF @ = "" THEN forge.branches[event.head.name] ELSE @],
                 forge)

\* The tree's entries are read by their own hashes.
GetTektonDir(event, forge, provenance) ==
  [from |-> TektonRevision(event, forge, provenance), byBranch |-> FALSE]

\* The files of a push are in its hook.
GetFiles(event, forge) == ChangedFiles(event, forge)

GetCommitStatuses(event, forge) == forge.statuses[event.sha]

(***************************************************************************)
(* IsAllowed                                                               *)
(***************************************************************************)
\* A team that cannot be asked about is left out.
CheckPolicyAllowing(teams, sender, settings, broken) ==
  \/ settings.organization = settings.repository
  \/ /\ "teams" \notin broken
     /\ \E i \in NamedTeams(teams) : /\ teams[i] \in DOMAIN settings.teams
                                    /\ "team" \notin broken
                                    /\ sender \in settings.teams[teams[i]]

\* An OWNERS file that cannot be read is one that is not there.
aclCheckAll(sender, settings, broken) ==
  Else(Answer(sender = settings.organization),
  Else(Asked("collaborators", broken, sender \in settings.collaborators),
       Answer("owners" \notin broken /\ InOwners(settings.owners, sender))))

GetStringPullRequestComment(number, forge) ==
  {i \in DOMAIN forge.comments : /\ forge.comments[i].on = number
                                 /\ IsOkToTestComment(forge.comments[i].text, "/")}

aclAllowedOkToTestCurrentComment(hook, settings, broken) ==
  IF "comment" \in broken THEN "error"
  ELSE IF IsOkToTestComment(hook.comment, "/") THEN aclCheckAll(hook.by, settings, broken)
  ELSE "denied"

aclAllowedOkToTestFromAnOwner(hook, forge, settings, broken) ==
  LET check(by) == aclCheckAll(by, settings, broken)
      said == GetStringPullRequestComment(hook.number, forge)
  IN  CASE hook.kind = "comment" /\ ~settings.remember ->
             aclAllowedOkToTestCurrentComment(hook, settings, broken)
        [] hook.kind \in {"comment", "pull_request"} /\ settings.remember ->
             IF "comments" \in broken THEN "error"
             ELSE FirstAbout(forge.comments, said, check)
        [] OTHER -> "denied"

IsAllowed(event, hook, forge, settings, broken) ==
  LET trigger == detectTriggerTypeFromPayload(hook)
      policy  == PolicyIsAllowed(settings.policy, trigger,
                  CheckPolicyAllowing(PolicyTeams(settings.policy, trigger), event.sender, settings, broken),
                  "owners" \notin broken /\ InOwners(settings.owners, event.sender))
  IN  CASE policy = "allowed" -> "allowed"
        [] policy = "disallowed" -> "denied"
        [] OTHER -> Else(aclCheckAll(event.sender, settings, broken),
                         aclAllowedOkToTestFromAnOwner(hook, forge, settings, broken))
=============================================================================
