---------------------------- MODULE GitLabEvents ----------------------------
(* GitLab (pkg/provider/gitlab: detect.go, parse_payload.go, acl.go and    *)
(* gitlab.go). The hook of a merge request is caused by whoever acts on    *)
(* it, and that is the sender of the event; an update is "synchronize"     *)
(* when it has new commits, "labeled" when labels were added and nothing   *)
(* else changed. Commands are read with "/" whatever the prefix is.        *)
EXTENDS GitEvents, Access

Detect(hook, settings) ==
  CASE hook.kind = "pull_request" ->
         hook.action \in {"opened", "reopened", "closed", "synchronize", "labeled"}
    [] hook.kind = "push" -> TRUE
    [] hook.kind = "comment" -> hook.pull.open
    [] hook.kind = "commit_comment" ->
         /\ hook.action = "created"
         /\ IsTestRetestComment(hook.comment, "/") \/ IsCancelComment(hook.comment, "/")
    [] OTHER -> FALSE

(***************************************************************************)
(* ParsePayload: everything is in the hook.                                *)
(***************************************************************************)
ofMergeRequest(hook) ==
  [NewEvent EXCEPT !.number = hook.number, !.sha = hook.pull.head, !.sender = hook.by,
                   !.head = hook.pull.branch, !.base = hook.pull.base,
                   !.trigger = "pull_request", !.titled = TRUE]

processMergeEvent(hook, forge) ==
  Parsed([ofMergeRequest(hook) EXCEPT
            !.labels = hook.pull.labels,
            !.skip = SkipCI(forge.message[hook.pull.head], TRUE),
            !.type = IF hook.action = "labeled" THEN "pull_request_labeled" ELSE "Merge Request",
            !.trigger = IF hook.action = "closed" THEN "pull_request_closed" ELSE @])

\* A branch made without a commit has its head only, and its title is asked
\* for; a tag needs a commit.
isBranchCreationPayload(hook) == hook.ref.form = "heads" /\ hook.created

processPush(hook, forge) ==
  LET tag == hook.ref.form = "tags"
  IN  IF hook.deleted \/ (~hook.commits /\ ~isBranchCreationPayload(hook)) THEN Failed
      ELSE Parsed([NewEvent EXCEPT
                     !.sha = hook.sha, !.sender = hook.by, !.head = hook.ref, !.base = hook.ref,
                     !.trigger = "push", !.type = IF tag THEN "Tag Push" ELSE "push",
                     !.titled = hook.commits, !.incomplete = ~hook.commits,
                     !.skipTitle = hook.commits /\ SkipCI(forge.message[hook.sha], FALSE)])

handleCommitCommentEvent(hook, forge, settings, broken) ==
  IF ~settings.configured \/ "client" \in broken THEN Failed
  ELSE OnBranchOrTag(CommitCommentEvent(hook, "/"), forge, broken)

ParsePayload(hook, forge, settings, broken) ==
  CASE hook.kind = "pull_request" -> processMergeEvent(hook, forge)
    [] hook.kind = "push" -> processPush(hook, forge)
    [] hook.kind = "comment" ->
         Parsed(SetEventTypeAndTargetPR(ofMergeRequest(hook), hook.comment, "/"))
    [] hook.kind = "commit_comment" -> handleCommitCommentEvent(hook, forge, settings, broken)
    [] OTHER -> Failed

\* The commit is only asked for when the hook did not have it: the skip
\* command is otherwise the one of the hook.
GetCommitInfo(event, forge) ==
  IF event.incomplete \/ event.sha = ""
    THEN [WithCommitInfo([event EXCEPT !.sha = IF @ = "" THEN forge.branches[event.head.name] ELSE @],
                         forge) EXCEPT !.incomplete = FALSE]
    ELSE event

\* The tree is listed at a revision, which may be a branch, and the files are
\* then read at that revision.
GetTektonDir(event, forge, provenance) ==
  [from |-> TektonRevision(event, forge, provenance), byBranch |-> provenance = "default_branch"]

GetFiles(event, forge) == ChangedFiles(event, forge)

GetCommitStatuses(event, forge) == forge.statuses[event.sha]

(***************************************************************************)
(* IsAllowed: there is no policy here, and a lookup that fails is followed *)
(* by the next.                                                            *)
(***************************************************************************)
IsAllowedOwnersFile(sender, settings, broken) ==
  "owners" \notin broken /\ InOwners(settings.owners, sender)

checkMembership(sender, settings, broken) ==
  \/ "members" \notin broken /\ sender \in settings.members
  \/ IsAllowedOwnersFile(sender, settings, broken)

aclAllowedOkToTestCurrentComment(hook, settings, broken) ==
  IF "comment" \in broken THEN "error"
  ELSE Answer(IsOkToTestComment(hook.comment, "/") /\ checkMembership(hook.by, settings, broken))

checkOkToTestCommentFromApprovedMember(hook, forge, settings, broken) ==
  CASE hook.kind = "comment" /\ ~settings.remember ->
         aclAllowedOkToTestCurrentComment(hook, settings, broken)
    [] hook.kind \in {"comment", "pull_request"} /\ settings.remember ->
         IF "comments" \in broken THEN "error"
         ELSE Answer(\E i \in DOMAIN forge.comments :
                        /\ forge.comments[i].on = hook.number
                        /\ IsOkToTestComment(forge.comments[i].text, "/")
                        /\ checkMembership(forge.comments[i].by, settings, broken))
    [] OTHER -> "denied"

IsAllowed(event, hook, forge, settings, broken) ==
  IF checkMembership(event.sender, settings, broken) THEN "allowed"
  ELSE checkOkToTestCommentFromApprovedMember(hook, forge, settings, broken)
=============================================================================
