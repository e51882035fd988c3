--------------------- MODULE BitbucketDataCenterEvents ---------------------
(* Bitbucket Data Center (pkg/provider/bitbucketdatacenter: detect.go,     *)
(* parse_payload.go, acl.go and bitbucketdatacenter.go). Nothing is done   *)
(* when a pull request is closed; the sender is whoever acts.              *)
EXTENDS GitEvents, Access

Detect(hook, settings) ==
  CASE hook.kind = "pull_request" -> hook.action \in {"opened", "synchronize"}
    [] hook.kind = "comment" -> hook.action = "created" /\ hook.pull.open
    [] hook.kind = "push" -> TRUE
    [] OTHER -> FALSE

\* The payload has all that is used of it, the actor included.
checkValidPayload(hook) == hook.number # 0 /\ hook.by # ""

processPullRequest(hook) ==
  LET event == IF hook.kind = "comment" THEN SetEventTypeAndTargetPR(NewEvent, hook.comment, "/")
               ELSE [NewEvent EXCEPT !.type = "pull_request"]
  IN  IF ~checkValidPayload(hook) THEN Failed
      ELSE Parsed([event EXCEPT !.trigger = "pull_request", !.number = hook.number,
                                !.sha = hook.pull.head, !.sender = hook.by,
                                !.head = hook.pull.branch, !.base = hook.pull.base])

\* A push with a deletion among its changes, or without commits, is an error.
processPush(hook) ==
  IF hook.deleted \/ ~hook.commits THEN Failed
  ELSE Parsed([NewEvent EXCEPT !.trigger = "push", !.type = "push", !.sha = hook.sha,
                               !.sender = hook.by, !.head = hook.ref, !.base = hook.ref])

ParsePayload(hook, forge, settings, broken) ==
  IF hook.kind = "push" THEN processPush(hook) ELSE processPullRequest(hook)

GetCommitInfo(event, forge) == WithCommitInfo(event, forge)

\* Anything but the source is the default branch, whatever it is by then.
GetTektonDir(event, forge, provenance) ==
  [from |-> TektonRevision(event, forge, provenance), byBranch |-> provenance # "source"]

GetFiles(event, forge) == ChangedFiles(event, forge)

GetCommitStatuses(event, forge) == {}

(***************************************************************************)
(* IsAllowed                                                               *)
(***************************************************************************)
checkMemberShip(sender, settings, broken) ==
  Else(Asked("members", broken, sender \in settings.members),
  Else(Asked("collaborators", broken, sender \in settings.collaborators),
       Answer("owners" \notin broken /\ InOwners(settings.owners, sender))))

checkOkToTestCommentFromApprovedMember(event, forge, settings, broken) ==
  LET check(by) == checkMemberShip(by, settings, broken)
      said == {i \in DOMAIN forge.comments : /\ forge.comments[i].on = event.number
                                             /\ IsOkToTestComment(forge.comments[i].text, "/")}
  IN  IF "comments" \in broken THEN "error"
      ELSE FirstAbout(forge.comments, said, check)

IsAllowed(event, hook, forge, settings, broken) ==
  Else(checkMemberShip(event.sender, settings, broken),
       checkOkToTestCommentFromApprovedMember(event, forge, settings, broken))
=============================================================================
