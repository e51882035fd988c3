----------------------------- MODULE GitEvents -----------------------------
(* What a forge sends and what is made of it (pkg/params/info/events.go),  *)
(* shared by the modules of the providers.                                 *)
(*                                                                         *)
(* A "hook" is a request of the forge: its kind and action, who caused it  *)
(* (by), the number of a pull request and what the forge knew of it then   *)
(* (pull), and for the kinds that have them a commit (sha), a ref, a       *)
(* comment, the pull requests it lists (pulls). A ref is [form, name]:     *)
(* "short" (main), "heads" (refs/heads/main) or "tags" (refs/tags/v1).     *)
(*                                                                         *)
(* A "forge" is what its API answers: the pull requests (pulls), the heads *)
(* of the branches, the commits of the tags, the messages of the commits,  *)
(* the comments on the pull requests as [by, on, text].                    *)
(*                                                                         *)
(* "settings" is the installation: what kind it is, the options that       *)
(* matter here, and the people. "broken" is the set of API calls that fail *)
(* during a step.                                                          *)
EXTENDS OpsComments

Ref(form, name) == [form |-> form, name |-> name]
NoRef == Ref("", "")

\* The fields of info.Event that decide what happens.
NewEvent ==
  [trigger |-> "", type |-> "", sha |-> "", head |-> NoRef, base |-> NoRef,
   sender |-> "", number |-> 0, labels |-> {},
   test |-> NoName, cancel |-> FALSE, cancelName |-> NoName, incoming |-> "",
   comment |-> <<>>, sameRepo |-> FALSE,
   titled |-> FALSE,      \* SHATitle and SHAURL are known
   skipTitle |-> FALSE,   \* SHATitle has a skip command
   incomplete |-> FALSE,  \* CommitMetadataIncomplete
   skip |-> FALSE]        \* HasSkipCommand

\* A commit's message: without a skip command, or with one in its title or
\* below the title. What is seen of it depends on how much of it is looked at.
SkipCI(message, wholeMessage) ==
  message = "skip in title" \/ (wholeMessage /\ message = "skip in body")

\* What the API says of a commit.
WithCommitInfo(event, forge) ==
  [event EXCEPT !.titled = TRUE,
                !.skipTitle = SkipCI(forge.message[event.sha], FALSE),
                !.skip = SkipCI(forge.message[event.sha], TRUE)]

DefaultBranch == "main"

\* The commit the .tekton directory is read from.
MutantReadsTheHead(event, forge, provenance) ==
  IF event.number # 0 THEN forge.pulls[event.number].head ELSE event.sha
TektonRevision(event, forge, provenance) ==
  IF provenance = "source" THEN event.sha ELSE forge.branches[DefaultBranch]

\* The files a pull request or a push changes.
ChangedFiles(event, forge) ==
  CASE event.trigger = "pull_request" -> forge.files[forge.pulls[event.number].head]
    [] event.trigger = "push" -> forge.files[event.sha]
    [] OTHER -> {}

\* What ParsePayload returns: an event, nothing (skipped on purpose) or an
\* error; "reply" says that a comment was written first.
Parsed(event) == [outcome |-> "event", event |-> event, reply |-> FALSE]
Skipped == [outcome |-> "skipped", event |-> NewEvent, reply |-> FALSE]
Failed  == [outcome |-> "failed", event |-> NewEvent, reply |-> FALSE]

(***************************************************************************)
(* A comment on a commit, for GitHub and GitLab: a command for a branch,   *)
(* the default one unless it is named, whose head the commit has to be, or *)
(* for a tag of the commit.                                                *)
(***************************************************************************)
NothingNamed == [error |-> FALSE, name |-> NoName, branch |-> "", tag |-> ""]

\* What the comment says of a test and of a cancellation.
CommitComment(hook, said, test, cancel, tested, cancelled) ==
  LET named == IF cancel THEN cancelled ELSE tested
  IN  [error |-> tested.error \/ cancelled.error, branch |-> named.branch, tag |-> named.tag,
       event |-> [said EXCEPT !.trigger = "push", !.sha = hook.sha,
                              !.test = IF test THEN tested.name ELSE @,
                              !.cancel = @ \/ cancel,
                              !.cancelName = IF cancel THEN cancelled.name ELSE @]]

CommitCommentEvent(hook, prefix) ==
  LET test   == IsTestRetestComment(hook.comment, prefix)
      cancel == IsCancelComment(hook.comment, prefix)
  IN  CommitComment(hook, SetEventTypeAndTargetPR([NewEvent EXCEPT !.sender = hook.by], hook.comment, prefix),
        test, cancel,
        IF test THEN GetPipelineRunAndBranchOrTagNameFromTestComment(hook.comment, prefix) ELSE NothingNamed,
        IF cancel THEN GetPipelineRunAndBranchOrTagNameFromCancelComment(hook.comment, prefix)
                  ELSE NothingNamed)

OnBranchOrTag(said, forge, broken) ==
  LET sha    == said.event.sha
      branch == IF said.branch = "" THEN DefaultBranch ELSE said.branch
      on(ref) == Parsed([said.event EXCEPT !.head = ref, !.base = ref])
  IN  CASE said.error -> Failed
        [] ~said.error /\ said.tag # "" ->
             IF "tag" \notin broken /\ said.tag \in DOMAIN forge.tags /\ forge.tags[said.tag] = sha
               THEN on(Ref("tags", said.tag)) ELSE Failed
        [] ~said.error /\ said.tag = "" ->
             IF "branch" \notin broken /\ branch \in DOMAIN forge.branches /\ forge.branches[branch] = sha
               THEN on(Ref("short", branch)) ELSE Failed
=============================================================================
