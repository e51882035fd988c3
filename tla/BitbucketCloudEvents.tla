------------------------ MODULE BitbucketCloudEvents ------------------------
(* Bitbucket Cloud (pkg/provider/bitbucketcloud: detect.go,                *)
(* parse_payload.go, acl.go and bitbucket.go). The sender of anything on a *)
(* pull request is the author of the pull request, whoever comments.       *)
EXTENDS GitEvents, Access

Detect(hook, settings) ==
  CASE hook.kind = "pull_request" -> hook.action \in {"opened", "synchronize", "closed"}
    [] hook.kind = "comment" ->
         /\ hook.action = "created"
         /\ \/ IsTestRetestComment(hook.comment, "/")
            \/ IsOkToTestComment(hook.comment, "/")
            \/ IsCancelComment(hook.comment, "/")
    [] hook.kind = "push" -> TRUE
    [] OTHER -> FALSE

\* A request that has to come from the public addresses, when it does not or
\* when their list cannot be had.
checkFromPublicCloudIPS(hook, settings, broken) ==
  settings.checkSourceIP => "addresses" \notin broken /\ hook.public

processPullRequest(hook) ==
  LET event == IF hook.kind = "comment" THEN SetEventTypeAndTargetPR(NewEvent, hook.comment, "/")
               ELSE [NewEvent EXCEPT !.type = IF hook.action = "closed" THEN "pull_request_closed"
                                                                       ELSE "pull_request"]
  IN  [event EXCEPT !.trigger = IF hook.action = "closed" THEN "pull_request_closed" ELSE "pull_request",
                    !.number = hook.number, !.sha = hook.pull.head, !.sender = hook.pull.author,
                    !.head = hook.pull.branch, !.base = hook.pull.base]

processPush(hook) ==
  [NewEvent EXCEPT !.trigger = "push", !.type = "push", !.sha = hook.sha, !.sender = hook.by,
                   !.head = Ref("short", hook.ref.name),
                   !.base = IF hook.ref.form = "tags" THEN hook.ref ELSE Ref("short", hook.ref.name)]

ParsePayload(hook, forge, settings, broken) ==
  IF ~checkFromPublicCloudIPS(hook, settings, broken) THEN Failed
  ELSE Parsed(IF hook.kind = "push" THEN processPush(hook) ELSE processPullRequest(hook))

GetCommitInfo(event, forge) ==
  WithCommitInfo([event EXCEPT !.sha = IF @ = "" THEN forge.branches[event.head.name] ELSE @],
                 forge)

\* Directories are listed, and files read, at the revision, one by one.
GetTektonDir(event, forge, provenance) ==
  [from |-> TektonRevision(event, forge, provenance), byBranch |-> provenance = "default_branch"]

GetFiles(event, forge) == {}

GetCommitStatuses(event, forge) == forge.statuses[event.sha]

(***************************************************************************)
(* IsAllowed. The token of a repository cannot read the members of the     *)
(* workspace, and that is no error.                                        *)
(***************************************************************************)
isWorkspaceMember(sender, settings, broken) ==
  IF settings.repositoryToken THEN "denied"
  ELSE Asked("members", broken, sender \in settings.members)

checkMember(sender, settings, broken) ==
  Else(isWorkspaceMember(sender, settings, broken),
       Answer("owners" \notin broken /\ InOwners(settings.owners, sender)))

checkOkToTestCommentFromApprovedMember(event, forge, settings, broken) ==
  LET check(by) == checkMember(by, settings, broken)
      said == {i \in DOMAIN forge.comments : /\ forge.comments[i].on = event.number
                                             /\ IsOkToTestComment(forge.comments[i].text, "/")}
  IN  IF "comments" \in broken THEN "error"
      ELSE FirstAbout(forge.comments, said, check)

IsAllowed(event, hook, forge, settings, broken) ==
  Else(checkMember(event.sender, settings, broken),
       checkOkToTestCommentFromApprovedMember(event, forge, settings, broken))
=============================================================================
