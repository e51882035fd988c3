------------------------------- MODULE Access -------------------------------
(* Who may have runs started: the repository's policy (pkg/policy), the    *)
(* OWNERS file (pkg/acl/owners.go), and how the answers of several checks  *)
(* are put together by every provider. An answer is "allowed", "denied" or *)
(* "error"; a check is only made when the ones before it have denied.      *)
EXTENDS Integers, Sequences, SequencesExt

Answer(yes) == IF yes THEN "allowed" ELSE "denied"
Else(first, second) == IF first = "denied" THEN second ELSE first

\* A question to the forge's API.
Asked(call, broken, yes) == IF call \in broken THEN "error" ELSE Answer(yes)

\* The answers in order, up to the first that is not a denial.
FirstAnswer(answers) ==
  LET i == SelectInSeq(answers, LAMBDA a : a # "denied")
  IN  IF i = 0 THEN "denied" ELSE answers[i]

\* The answers about those who wrote some of the comments, in order.
FirstAbout(comments, said, check(_)) ==
  FirstAnswer([i \in DOMAIN comments |-> IF i \in said THEN check(comments[i].by) ELSE "denied"])

(***************************************************************************)
(* OWNERS: approvers and reviewers, or those of the ".*" filter, with the  *)
(* aliases of OWNERS_ALIASES expanded.                                     *)
(***************************************************************************)
NoFile == [exists |-> FALSE]

expandAliases(names, aliases) ==
  UNION {IF n \in DOMAIN aliases THEN aliases[n] ELSE {n} : n \in names}

UserInOwnerFile(file, sender) ==
  LET simple == file.approvers \cup file.reviewers
  IN  sender \in expandAliases(IF simple # {} THEN simple ELSE file.everything, file.aliases)

InOwners(file, sender) == file.exists /\ UserInOwnerFile(file, sender)

(***************************************************************************)
(* The policy of a Repository: the teams whose members may act. "set" is   *)
(* FALSE when the Repository has none.                                     *)
(***************************************************************************)
PolicyTeams(policy, trigger) ==
  IF trigger \in {"ok-to-test", "retest"} THEN policy.okToTest ELSE policy.pullRequest

\* Those of them that have a name.
NamedTeams(teams) == {i \in DOMAIN teams : teams[i] # ""}

\* inTeams is the provider's answer for the teams of the policy, owner says
\* whether OWNERS lists the sender.
PolicyIsAllowed(policy, trigger, inTeams, owner) ==
  IF ~policy.set \/ trigger \notin {"ok-to-test", "retest", "pull_request", "comment",
                                    "pull_request_labeled", "pull_request_closed"}
    THEN "not set"
    ELSE IF (NamedTeams(PolicyTeams(policy, trigger)) # {} /\ inTeams) \/ owner THEN "allowed" ELSE "disallowed"
=============================================================================
