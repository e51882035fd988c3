---------------------------- MODULE MCReporting ----------------------------
(* Instances of Reporting, on each provider: a pull request of an outsider  *)
(* that is denied and approved, runs started together, starts that fail.   *)
EXTENDS Reporting

MCRuns == {"a", "b"}
MCHandlers == {"first", "second"}

Nothing == [kind |-> "start", runs |-> {}, unmatched |-> NoDef]
Starting(ds) == [Nothing EXCEPT !.runs = ds]
Approving(ds) == [Starting(ds) EXCEPT !.kind = "approval"]
Denied == [Nothing EXCEPT !.kind = "denied"]
BrokenEvent == [Nothing EXCEPT !.kind = "broken"]

On(provider, strategy, first, second, lost) ==
  [provider |-> provider, strategy |-> strategy, access |-> TRUE, bot |-> FALSE, pull |-> TRUE,
   limited |-> FALSE, events |-> [first |-> first, second |-> second], checks |-> <<>>,
   outcome |-> "success", elsewhere |-> FALSE, faults |-> lost]

Asked(s) == [s EXCEPT !.checks = <<[ext |-> NoName, title |-> Approval, def |-> NoDef,
                                    conclusion |-> "", status |-> "queued"]>>]

AppSetups ==
  {[Asked(On("app", "", Approving({"a", "b"}), Nothing, 1)) EXCEPT !.limited = TRUE],
   [On("app", "", Denied, Approving({"a"}), 0) EXCEPT !.outcome = "cancelled"],
   [On("app", "", BrokenEvent, Starting({"a"}), 0) EXCEPT !.limited = TRUE, !.elsewhere = TRUE],
   On("app", "", Denied, [Starting({"a"}) EXCEPT !.unmatched = "b"], 0),
   On("app", "", Starting({"a"}), Nothing, 2),
   On("app", "", [Nothing EXCEPT !.unmatched = "b"], [Starting({"a"}) EXCEPT !.unmatched = "b"], 0),
   [On("app", "", Denied, BrokenEvent, 1) EXCEPT !.bot = TRUE]}

OtherSetups ==
  {On("github", "update", Denied, Approving({"a"}), 1),
   On("github", "update", Starting({"a", "b"}), Nothing, 1),
   [On("github", "", Starting({"a"}), Nothing, 2) EXCEPT !.limited = TRUE],
   [On("gitlab", "update", Starting({"a"}), Nothing, 2) EXCEPT !.limited = TRUE],
   [On("gitlab", "update", Denied, Approving({"a"}), 1) EXCEPT !.access = FALSE],
   [On("gitlab", "", Starting({"a"}), Nothing, 1) EXCEPT !.access = FALSE],
   On("gitea", "", Denied, Approving({"a"}), 2),
   [On("gitea", "update", Starting({"a"}), Nothing, 1) EXCEPT !.limited = TRUE, !.elsewhere = TRUE],
   On("bbcloud", "", Starting({"a"}), Nothing, 1),
   On("bbdc", "", Denied, [Starting({"a"}) EXCEPT !.unmatched = "b"], 1)}

MCSetups == AppSetups \cup OtherSetups
=============================================================================
