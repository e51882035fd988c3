----------------------------- MODULE MCServices -----------------------------
(* Instances of the services beside the queue and the controller.  They share *)
(* nothing that changes, so in each behaviour one of them is at work and the  *)
(* others idle.                                                               *)
EXTENDS Retries, TokenRotation, Cleanup, Resolution, Analysis, Settings, HostPolicy

MCAttempts == {1, 3}
MCWaits == {1, 4}

ControllerWorker(r, project) == Worker("controller", r, TRUE, project)
Tokens ==
    \/ \E writable \in BOOLEAN :
          InitTokens([w \in {"c1", "c2", "w1"} |->
              IF w = "w1" THEN Worker("watcher", "r", TRUE, FALSE) ELSE ControllerWorker("r", FALSE)], writable)
    \/ InitTokens([w \in {"c1", "c2", "w1"} |->
              CASE w = "c1" -> ControllerWorker("r", TRUE) [] w = "c2" -> ControllerWorker("s", TRUE)
                [] OTHER -> Worker("watcher", "r", FALSE, FALSE)], TRUE)
NoTokens == InitTokens(<<>>, TRUE)

Limits(d, u) == [default |-> d, upper |-> u]
Cleanups ==
    \/ InitCleanup(<<OldRun("d", 1), OldRun("d", 2), EndingRun("d", 1), EndingRun("e", 1)>>, Limits(0, 0))
    \/ InitCleanup(<<OldRun("d", 1), EndingRun("d", NoAnnotation), EndingRun("d", 0)>>, Limits(1, 1))
    \/ InitCleanup(<<EndingRun("d", NoAnnotation), EndingRun("d", NoAnnotation), EndingRun("d", 1)>>, Limits(0, 2))
    \/ InitCleanup(<<OldRun("d", 1), OldRun("d", 2), EndingRun("d", 3), EndingRun("d", 1)>>, Limits(0, 2))
NoCleanup == InitCleanup(<<>>, Limits(0, 0))

Directory(defs, pipelines, tasks, skip, remoteTasks) ==
    [defs |-> defs, pipelines |-> pipelines, tasks |-> tasks, skip |-> skip, remoteTasks |-> remoteTasks]
PipelineURL == Ref("url", "pipe")
TaskURL == Ref("url", "task")
TaskPath == Ref("path", "rel")
TaskBelowURL == [Ref("url", "rel") EXCEPT !.base = "pipe"]
HubName == Ref("name", "hub")
World ==
    [pipelines |-> [r \in {PipelineURL} |-> Pipeline("p", {"a", "b"}, {<<TaskPath>>}, 1)],
     tasks |-> [r \in {TaskURL, TaskPath, TaskBelowURL, HubName} |->
                  IF r \in {TaskPath, TaskBelowURL} THEN Task("b", 1) ELSE Task("a", 1)]]
LocalP == Pipeline("p", {"a"}, {}, 0)
LocalQ == Pipeline("q", {"a", "c"}, {<<HubName>>}, 0)
LocalTasks == <<Task("a", 0), Task("c", 0), Task("c", -1)>>
Twin(n) == Def(n, "p", {}, <<PipelineURL>>, {<<TaskURL>>}, TRUE)
Directories ==
    {Directory(<<Twin("x"), Twin("y")>>, <<LocalP>>, LocalTasks, {}, TRUE),
     Directory(<<Def("x", "q", {}, <<PipelineURL>>, {}, TRUE), Def("y", NoName, {"a", "z"}, <<>>, {<<TaskURL>>, <<HubName>>}, TRUE)>>,
               <<LocalQ, LocalP>>, LocalTasks, {"z"}, TRUE),
     Directory(<<Def("x", "q", {}, <<>>, {}, TRUE), Twin("y")>>, <<LocalQ, LocalP>>, LocalTasks, {}, FALSE),
     Directory(<<Def("x", "q", {}, <<>>, {<<TaskPath, TaskURL>>}, TRUE), Def("y", "r", {}, <<PipelineURL, HubName>>, {}, TRUE)>>,
               <<LocalQ, LocalP>>, LocalTasks, {}, TRUE),
     Directory(<<Def("x", "r", {}, <<PipelineURL>>, {}, TRUE)>>, <<LocalQ, LocalP>>, LocalTasks, {}, TRUE),
     Directory(<<Def("x", NoName, {"z"}, <<>>, {}, TRUE), Def("y", NoName, {"a"}, <<>>, {}, FALSE)>>, <<>>, LocalTasks, {}, TRUE)}
Resolutions == \E d \in Directories : InitResolution(d, World)
NoResolution ==
    /\ repository = Directory(<<>>, <<>>, <<>>, {}, FALSE) /\ remote = [pipelines |-> Nothing, tasks |-> Nothing]
    /\ fetched = [pipelines |-> Nothing, tasks |-> Nothing] /\ work = NoWork

Analyses ==
    \/ InitAnalysis(TRUE, <<Role("r", "none", {"commit", "logs10"}), Role("s", "true", {"commit", "logs10"}),
                            Role("t", "none", {"commit", "logs50"})>>, TRUE, 1)
    \/ InitAnalysis(TRUE, <<Role("r", "error", {"commit"}), Role("s", "false", {"commit"}), Role("t", "none", {})>>, TRUE, 2)
    \/ InitAnalysis(TRUE, <<Role("r", "none", {"commit"}), Role("t", "none", {})>>, FALSE, 1)
    \/ InitAnalysis(FALSE, <<Role("r", "none", {"commit"})>>, TRUE, 2)
    \/ InitAnalysis(TRUE, <<Role("r", "false", {"commit"})>>, TRUE, 2)
NoAnalyses ==
    /\ config = [valid |-> FALSE, roles |-> <<>>, pullRequest |-> FALSE, passes |-> 0]
    /\ analysis = NoAnalysis
    /\ discussion = [version |-> 1, comments |-> <<>>, refused |-> {}]

Catalog(url) == [c \in {"cat"} |-> url]
Datas == {Data(Unset, Unset, "1", Unset, Unset, <<>>), Data("dash", Unset, "2", "custom", "hub", Catalog("u")),
          Data("dash", "off", "3", Unset, Unset, Catalog("v")), Data("dash2", "off", "1", Invalid, "hub", <<>>),
          Data(Unset, Unset, Invalid, Unset, "hub", <<>>)}
Synchronisations == \E d \in Datas, env \in {Unset, "dash", "env"} : InitSettings(d, env)
NoSynchronisation ==
    /\ configMap = [data |-> Data(Unset, Unset, "1", Unset, Unset, <<>>), edits |-> MaxEdits]
    /\ syncing = [Starting(Unset) EXCEPT !.pc = "idle"]
    /\ settings = DefaultSettings
    /\ reader = [options |-> DefaultSettings.options, taken |-> 0, lines |-> Unread]

OverHttps(h) == URL(h, "https", "none")
Trusting(list, learnt, first, second, third) ==
    InitTrust(StoredPolicy(list, learnt, TRUE, TRUE), <<first, second, third>>)
Policies ==
    \/ Trusting({}, {}, Request("event", OverHttps("a.com")), Request("event", OverHttps("b.com")), Request("repository", OverHttps("a.com")))
    \/ Trusting({}, {}, Request("event", OverHttps("ghe.svc")), Request("event", URL("a.com", "bare", "none")),
                Request("provider", URL("ghe.svc", "http", "path")))
    \/ Trusting({"api.github.com", "a.com"}, {"b.com"}, Request("provider", URL(NoHost, "bare", "none")), Request("event", OverHttps("b.com")),
                Request("provider", URL("ghe_1", "http", "path")))
    \/ Trusting({}, {"a.com"}, Request("event", URL("api.github.com", "bare", "none")), Request("repository", URL("a.com", "bare", "none")),
                Request("event", URL("b.com", "https", "credentials")))
NoPolicies == trust = [policies |-> <<StoredPolicy({}, {}, TRUE, TRUE)>>, edits |-> MaxPolicyEdits] /\ asking = <<>>

MCServicesInit ==
    \/ RetryInit /\ NoTokens /\ NoCleanup /\ NoResolution /\ NoAnalyses /\ NoSynchronisation /\ NoPolicies
    \/ call = <<>> /\ Tokens /\ NoCleanup /\ NoResolution /\ NoAnalyses /\ NoSynchronisation /\ NoPolicies
    \/ call = <<>> /\ NoTokens /\ Cleanups /\ NoResolution /\ NoAnalyses /\ NoSynchronisation /\ NoPolicies
    \/ call = <<>> /\ NoTokens /\ NoCleanup /\ Resolutions /\ NoAnalyses /\ NoSynchronisation /\ NoPolicies
    \/ call = <<>> /\ NoTokens /\ NoCleanup /\ NoResolution /\ Analyses /\ NoSynchronisation /\ NoPolicies
    \/ call = <<>> /\ NoTokens /\ NoCleanup /\ NoResolution /\ NoAnalyses /\ Synchronisations /\ NoPolicies
    \/ call = <<>> /\ NoTokens /\ NoCleanup /\ NoResolution /\ NoAnalyses /\ NoSynchronisation /\ Policies

MCServicesNext ==
    \/ RetryNext /\ UNCHANGED <<tokenVars, cleanupVars, resolutionVars, analysisVars, settingsVars, trustVars>>
    \/ TokenNext /\ UNCHANGED <<call, cleanupVars, resolutionVars, analysisVars, settingsVars, trustVars>>
    \/ CleanupNext /\ UNCHANGED <<call, tokenVars, resolutionVars, analysisVars, settingsVars, trustVars>>
    \/ ResolutionNext /\ UNCHANGED <<call, tokenVars, cleanupVars, analysisVars, settingsVars, trustVars>>
    \/ AnalysisNext /\ UNCHANGED <<call, tokenVars, cleanupVars, resolutionVars, settingsVars, trustVars>>
    \/ SyncNext /\ UNCHANGED <<call, tokenVars, cleanupVars, resolutionVars, analysisVars, trustVars>>
    \/ \E d \in Datas : Edit(d) /\ UNCHANGED <<call, tokenVars, cleanupVars, resolutionVars, analysisVars, trustVars>>
    \/ TrustNext /\ UNCHANGED <<call, tokenVars, cleanupVars, resolutionVars, analysisVars, settingsVars>>
    \/ \E list \in {{}, {"a.com", "ghe.svc"}} :
          ConfigurePolicy(list) /\ UNCHANGED <<call, tokenVars, cleanupVars, resolutionVars, analysisVars, settingsVars>>

MCServicesVars == <<call, tokenVars, cleanupVars, resolutionVars, analysisVars, settingsVars, trustVars>>
MCServicesSpec == MCServicesInit /\ [][MCServicesNext]_MCServicesVars
=============================================================================
