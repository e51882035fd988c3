------------------------------ MODULE Statuses ------------------------------
(***************************************************************************)
(* What a provider makes of the status the program wants to show: the      *)
(* title and the state it sends to its forge, and whether it comments on   *)
(* the pull request.  One section per CreateStatus of pkg/provider.        *)
(* A status names the run it is about ("name", the generated name of a run *)
(* that was never created, or NoName) and the definition the run was made  *)
(* from ("def"); "text" says whether there is a text to show.              *)
(***************************************************************************)
EXTENDS Naturals, Sequences

NoName     == "no name"
\* The generateName of a definition, which a start that fails is reported under.
Generated(d) == d \o "-"
NoDef      == "no definition"
NoTitle    == ""
Approval   == "Pending approval, waiting for an /ok-to-test"
StartError == "pipelinerun start failure"

Opts(status, conclusion, title, text, name, def) ==
  [status |-> status, conclusion |-> conclusion, title |-> title, text |-> text,
   name |-> name, def |-> def, count |-> 0, denied |-> FALSE, unmatched |-> FALSE]

\* The context of a status: the application alone, or with the definition.
GetCheckName(o) == o.def

OrElse(title, default) == IF title = NoTitle THEN default ELSE title

-----------------------------------------------------------------------------
\* GitHub: the title of a status, then the check run (GitHub App) or the
\* commit status and the comment (webhook).
GitHubTitle(o) ==
  CASE o.status = "in_progress"     -> "CI has Started"
    [] o.status # "in_progress" /\ o.conclusion = "success"   -> "Success"
    [] o.status # "in_progress" /\ o.conclusion = "failure"   -> OrElse(o.title, "Failed")
    [] o.status # "in_progress" /\ o.conclusion = "pending"   -> OrElse(o.title, "Pending")
    [] o.status # "in_progress" /\ o.conclusion = "cancelled" -> "Cancelled"
    [] o.status # "in_progress" /\ o.conclusion = "neutral"   -> OrElse(o.title, "Unknown")
    [] o.status # "in_progress" /\ o.conclusion = "skipped"   -> "Skipped"

\* The failures of one event that concern no run share one check run.
CheckRunTitle(o) ==
  IF GitHubTitle(o) = "Failed" /\ o.name = NoName THEN StartError ELSE GitHubTitle(o)
OneFailureIsEnough(o) ==
  GitHubTitle(o) = "Failed" /\ o.name = NoName /\ o.count >= 1

CheckRunConclusion(o, stopped) ==
  IF stopped THEN "cancelled" ELSE IF o.conclusion = "pending" THEN "" ELSE o.conclusion

isPendingApprovalCheckrun(check) == check.title = Approval
isFailedCheckrun(check)          == check.title = StartError

GitHubState(o) ==
  IF o.status = "in_progress" THEN "pending"
  ELSE IF o.conclusion \in {"neutral", "skipped"} THEN "success" ELSE o.conclusion

GitHubComments(o, strategy) ==
  /\ strategy # "disable_all"
  /\ o.status = "completed" \/ (o.status = "queued" /\ GitHubTitle(o) = Approval)
  /\ o.text /\ ~o.unmatched

-----------------------------------------------------------------------------
\* GitLab comments on whatever status it could not set.
GitLabState(o) ==
  IF o.status = "in_progress" THEN "running"
  ELSE CASE o.conclusion = "skipped"                   -> "skipped"
         [] o.conclusion \in {"neutral", "cancelled"}  -> "canceled"
         [] o.conclusion = "failure"                   -> "failed"
         [] o.conclusion \in {"success", "completed"}  -> "success"
         [] o.conclusion = "pending"                   -> "running"

GitLabComments(o, strategy) == strategy # "disable_all" /\ ~o.unmatched

-----------------------------------------------------------------------------
\* Gitea and Forgejo comment on every status.
GiteaState(o) ==
  IF o.status = "in_progress" THEN "pending"
  ELSE IF o.conclusion \in {"neutral", "skipped"} THEN "success" ELSE o.conclusion

GiteaComments(o, strategy) ==
  strategy # "disable_all" /\ ~o.unmatched /\ (strategy = "update" \/ o.text)

-----------------------------------------------------------------------------
\* Bitbucket Cloud has no state for a cancelled run.
BitbucketCloudState(o) ==
  CASE o.conclusion \in {"skipped", "neutral"}   -> "STOPPED"
    [] o.conclusion = "failure"                  -> "FAILED"
    [] o.conclusion = "pending"                  -> "INPROGRESS"
    [] o.conclusion \in {"success", "completed"} -> "SUCCESSFUL"
    [] o.conclusion = "cancelled"                -> ""

BitbucketCloudComments(o) ==
  BitbucketCloudState(o) # "STOPPED" /\ o.status = "completed" /\ o.text

-----------------------------------------------------------------------------
\* Bitbucket Data Center comments on successes only.
BitbucketDataCenterState(o) ==
  CASE o.conclusion \in {"skipped", "cancelled"} -> "unknown"
    [] o.conclusion \in {"neutral", "failure"}   -> "failure"
    [] o.conclusion = "pending"                  -> IF o.status = "queued" THEN "unknown" ELSE "pending"
    [] o.conclusion \in {"success", "completed"} -> "success"

BitbucketDataCenterComments(o) ==
  BitbucketDataCenterState(o) = "success" /\ o.status = "completed" /\ o.text

-----------------------------------------------------------------------------
CommitState(provider, o) ==
  CASE provider = "github"  -> GitHubState(o)
    [] provider = "gitlab"  -> GitLabState(o)
    [] provider = "gitea"   -> GiteaState(o)
    [] provider = "bbcloud" -> BitbucketCloudState(o)
    [] provider = "bbdc"    -> BitbucketDataCenterState(o)

Comments(provider, strategy, o) ==
  CASE provider = "github"  -> GitHubComments(o, strategy)
    [] provider = "gitlab"  -> GitLabComments(o, strategy)
    [] provider = "gitea"   -> GiteaComments(o, strategy)
    [] provider = "bbcloud" -> BitbucketCloudComments(o)
    [] provider = "bbdc"    -> BitbucketDataCenterComments(o)
=============================================================================
