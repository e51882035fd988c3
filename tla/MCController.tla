---------------------------- MODULE MCController ----------------------------
(* Instances of Controller: a pull request opened, pushed to, commented on, *)
(* labeled and closed, and two pushes to its branch.                       *)
EXTENDS Controller

Opened == [target |-> "pull_request", type |-> "pull_request", pullRequest |-> 1,
           branch |-> "feature", sha |-> "s1", cancel |-> ""]

MCEvents == {"open", "sync", "retest", "labeled", "close", "cancel", "push1", "push2"}
MCEventOf == [e \in MCEvents |->
  CASE e = "open" -> Opened
    [] e = "sync" -> [Opened EXCEPT !.sha = "s2"]
    [] e = "retest" -> [Opened EXCEPT !.type = "ops"]
    [] e = "labeled" -> [Opened EXCEPT !.type = "pull_request_labeled"]
    [] e = "close" -> [Opened EXCEPT !.target = "pull_request_closed"]
    [] e = "cancel" -> [Opened EXCEPT !.type = "ops", !.cancel = "build"]
    [] e = "push1" -> [Opened EXCEPT !.target = "push", !.type = "push", !.pullRequest = 0]
    [] e = "push2" -> [Opened EXCEPT !.target = "push", !.type = "push", !.pullRequest = 0,
                                     !.sha = "s2"]]
MCDefinitions == {"build", "lint"}
MCMatchedBy == [e \in MCEvents |->
  CASE e = "open" -> {"build", "lint"} [] e \in {"close", "cancel"} -> {} [] OTHER -> {"build"}]
MCAnnotation == [d \in MCDefinitions |-> IF d = "build" THEN "" ELSE "false"]
MCRepositoryOf == [d \in MCDefinitions |-> "home"]

\* A pull request without a limit, opened and closed.
Unlimited ==
  [limit |-> [home |-> 0], cancelOnPullRequest |-> TRUE, cancelOnPush |-> FALSE,
   secretAutoCreation |-> FALSE, taken |-> {}, deliveries |-> {"open", "close"}, failures |-> 0, crashes |-> 0]
\* The start of a batch, with failures and a crash.
Batch ==
  [Unlimited EXCEPT !.limit = [home |-> 1], !.secretAutoCreation = TRUE,
                    !.deliveries = {"open"}, !.failures = 2, !.crashes = 1]

MCSetups ==
  {Unlimited,
   [Unlimited EXCEPT !.deliveries = {"sync", "retest", "close"}],
   [Unlimited EXCEPT !.deliveries = {"labeled", "close"}],
   [Unlimited EXCEPT !.deliveries = {"sync", "retest"}, !.failures = 1],
   [Unlimited EXCEPT !.deliveries = {"open", "cancel"}, !.failures = 1],
   [Unlimited EXCEPT !.deliveries = {"push1", "push2"}, !.cancelOnPush = TRUE],
   Batch, [Batch EXCEPT !.limit = [home |-> 0], !.taken = {<<"open", "lint">>}],
   [Batch EXCEPT !.deliveries = {"sync", "open"}, !.failures = 0, !.crashes = 0,
                 !.secretAutoCreation = FALSE]}
=============================================================================
