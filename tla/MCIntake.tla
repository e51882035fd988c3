------------------------------ MODULE MCIntake ------------------------------
(* Instances of Intake: for every provider a few people (ann, a member; mia, *)
(* a collaborator or an approver; eve, nobody) who open, push, comment and   *)
(* close, with a call or two that fail.                                      *)
EXTENDS Intake

----------------------------------------------------------------------------
(* Definitions                                                             *)
main == Ref("heads", "main")
Plain(name) ==
  [name |-> name, annotated |-> TRUE, namespace |-> "", comments |-> {}, branches |-> {main},
   events |-> {"pull_request"}, paths |-> {}, ignored |-> {}, labels |-> {}, wrong |-> FALSE,
   cel |-> NoCEL]
ByCEL(cel) == [Plain("expr") EXCEPT !.events = {}, !.branches = {}, !.cel = cel]
onBranches == [Plain("always") EXCEPT !.events = {"pull_request", "push"}, !.branches = {Ref("heads", "*")}]
withFiles == [CEL({"pull_request", "push"}, Ref("short", "main")) EXCEPT !.files = {"code"}]

MCDefinitions ==
  [build |-> Plain("build"), always |-> onBranches,
   lint |-> [Plain("lint") EXCEPT !.paths = {"code"}, !.ignored = {"docs"}],
   away |-> [Plain("away") EXCEPT !.namespace = "other"],
   lost |-> [Plain("lost") EXCEPT !.namespace = "nowhere"],
   chat |-> [Plain("chat") EXCEPT !.comments = {"hello"}],
   bug |-> [Plain("bug") EXCEPT !.labels = {"bug"}],
   release |-> [Plain("release") EXCEPT !.events = {"push"}, !.branches = {Ref("tags", "*")}],
   expr |-> ByCEL(withFiles),
   wrong |-> [ByCEL([CEL({}, NoRef) EXCEPT !.wrong = TRUE]) EXCEPT !.name = "wrong"],
   labels |-> [ByCEL([CEL({"pull_request"}, NoRef) EXCEPT !.labels = {"bug"}]) EXCEPT !.name = "labels"],
   hand |-> [Plain("hand") EXCEPT !.annotated = FALSE],
   bad |-> [Plain("bad") EXCEPT !.wrong = TRUE]]

Tree(definitions) == [definitions |-> definitions, valid |-> TRUE, errors |-> FALSE]

----------------------------------------------------------------------------
(* Commits: main is at m1 and may move to m2; a pull request is at p1 and  *)
(* may move to p2; v1 is a tag of m1.                                        *)
Pull ==
  [open |-> TRUE, author |-> "eve", head |-> "p1", branch |-> Ref("short", "topic"),
   base |-> Ref("short", "main"), labels |-> {}, sameRepo |-> FALSE, commits |-> {"p1"}]
Pushed(pull) == [pull EXCEPT !.head = "p2", !.commits = @ \cup {"p2"}]
Labeled(pull) == [pull EXCEPT !.labels = {"bug"}]

SHAs == {"m1", "m2", "p1", "p2"}
Hosting(definitions) ==
  [pulls |-> (1 :> Pull), branches |-> ("main" :> "m1" @@ "topic" :> "p1"), tags |-> ("v1" :> "m1"),
   message |-> [sha \in SHAs |-> "plain"], files |-> [sha \in SHAs |-> {"code"}],
   statuses |-> [sha \in SHAs |-> {}], trees |-> [sha \in SHAs |-> Tree(definitions)],
   comments |-> <<>>]

----------------------------------------------------------------------------
(* Hooks and acts                                                          *)
Hook(kind, action, by) ==
  [kind |-> kind, action |-> action, by |-> by, number |-> 0, pull |-> Pull, sha |-> "", ref |-> NoRef,
   comment |-> <<>>, pulls |-> {}, runPulls |-> {}, created |-> FALSE, deleted |-> FALSE,
   commits |-> TRUE, public |-> TRUE]

Just(hook) == [hook |-> hook, pulls |-> <<>>, branches |-> <<>>, comments |-> <<>>]

Does(action, by, pull) ==
  [Just([Hook("pull_request", action, by) EXCEPT !.number = 1, !.pull = pull]) EXCEPT
     !.pulls = (1 :> pull)]
Opens(pull) == Does("opened", pull.author, pull)

SaysOf(by, text, pull) ==
  [Just([Hook("comment", "created", by) EXCEPT !.number = 1, !.pull = pull, !.comment = text]) EXCEPT
     !.comments = <<[by |-> by, on |-> 1, text |-> text]>>]
Comments(by, text) == SaysOf(by, text, Pull)

CommentsOnCommit(by, text, sha) ==
  Just([Hook("commit_comment", "created", by) EXCEPT !.sha = sha, !.comment = text])

Pushes(by, ref, sha, pulls) ==
  [Just([Hook("push", "", by) EXCEPT !.sha = sha, !.ref = ref, !.pulls = pulls]) EXCEPT
     !.branches = IF ref.form = "tags" THEN <<>> ELSE (ref.name :> sha)]

Requests(kind, by, sha, ref, pulls, runPulls) ==
  Just([Hook(kind, "rerequested", by) EXCEPT !.sha = sha, !.ref = ref, !.pulls = pulls,
                                             !.runPulls = runPulls])

Calling ==
  Just([kind |-> "incoming", by |-> "caller", action |-> "", branch |-> "main", namespace |-> FALSE,
        complete |-> TRUE, secret |-> "good", params |-> {}, pipelineRun |-> "hand", number |-> 0])

Command(says) == <<Line(says, <<>>)>>
CommandFor(says, name) == <<Line(says, <<<<"name", name>>>>)>>
CommandWith(says, words) == <<Line(says, words)>>

----------------------------------------------------------------------------
(* The installation                                                        *)
Settings0 ==
  [app |-> TRUE, edited |-> TRUE, prefix |-> "/", configured |-> TRUE, requireSHA |-> FALSE,
   skipPush |-> FALSE, remember |-> FALSE, organization |-> "org", repository |-> "repo",
   members |-> {"ann"}, collaborators |-> {"mia"},
   owners |-> [exists |-> TRUE, approvers |-> {"core"}, reviewers |-> {}, everything |-> {},
               aliases |-> ("core" :> {"olga"})],
   teams |-> ("leads" :> {"tim"}), policy |-> [set |-> FALSE],
   checkSourceIP |-> FALSE, repositoryToken |-> FALSE,
   known |-> TRUE, provenance |-> "source", namespaces |-> {"other"},
   rules |-> <<[targets |-> {"release"}, secret |-> "other", params |-> {}],
               [targets |-> {"*"}, secret |-> "good", params |-> {"colour"}]>>,
   repositories |-> 1]

Setup(provider, definitions, script) ==
  [provider |-> provider, settings |-> Settings0, forge |-> Hosting(definitions), script |-> script,
   ends |-> {}, prunes |-> FALSE, calls |-> {}, failures |-> 0]
Failing(s, calls) == [s EXCEPT !.calls = calls, !.failures = 1]
Providers == {"github", "gitlab", "gitea", "bitbucket-cloud", "bitbucket-datacenter"}
Forges == {"github", "gitlab", "gitea"}

\* An outsider opens, says something, is approved, pushes.
OutsiderSetups ==
  {Setup(p, <<"build", "lint">>, script) : p \in Providers, script \in
     {<<Opens(Pull), Comments("eve", Command("test")), Comments("ann", Command("ok-to-test"))>>,
      <<Comments("olga", Command("ok-to-test")), Does("synchronize", "eve", Pushed(Pull)),
        Comments("eve", CommandFor("retest", "lint"))>>}}
  \cup {[Setup(p, <<"build">>, <<Comments("mia", Command("ok-to-test")),
                               Does("synchronize", "eve", Pushed(Pull))>>)
           EXCEPT !.settings.remember = TRUE, !.settings.provenance = "default_branch"] :
          p \in Providers}

\* Members, the branches of the repository itself, policies.
Member == [Pull EXCEPT !.author = "ann"]
Policy(pullRequest, okToTest) == [set |-> TRUE, pullRequest |-> pullRequest, okToTest |-> okToTest]
PolicySetups ==
  {[Setup(p, <<"build">>, <<Opens(pull), Comments(by, Command("ok-to-test")), Comments("mia", text)>>)
      EXCEPT !.settings.policy = policy, !.forge.pulls = (1 :> pull)] :
     p \in {"github", "gitea"},
     pull \in {Member, [Pull EXCEPT !.sameRepo = TRUE]},
     by \in {"tim", "ann"}, text \in {Command("retest"), Command("cancel")},
     policy \in {Policy(<<"leads", "">>, <<"gone", "leads">>), Policy(<<>>, <<"leads">>)}}
  \cup {Failing([Setup(p, <<"build">>, <<Opens([Member EXCEPT !.sameRepo = TRUE])>>)
                   EXCEPT !.forge.pulls = (1 :> [Member EXCEPT !.sameRepo = TRUE])],
                {"members", "collaborators", "owners", "status", "teams", "team"}) : p \in Providers}
  \cup {Failing([Setup(p, <<"build">>, <<Opens(Pull), Comments("olga", Command("ok-to-test"))>>)
                   EXCEPT !.settings.remember = remember,
                          !.settings.owners = [@ EXCEPT !.approvers = {}, !.everything = {"core"}]],
                {"members", "owners", "comment", "comments", "status", "pull"}) :
          p \in Providers, remember \in BOOLEAN}
  \cup {[Setup(p, <<"build">>, <<Opens([Pull EXCEPT !.author = "org"])>>)
           EXCEPT !.settings.repositoryToken = TRUE, !.settings.owners = NoFile,
                  !.settings.policy = Policy(<<"leads">>, <<>>)] :
          p \in Providers}

\* Commands: quoted, with another prefix, edited, one after the other.
CommandSetups ==
  {[Setup(p, <<"build", "away", "lost", "chat">>, <<Comments(by, a), Comments("ann", b)>>)
      EXCEPT !.ends = {"succeeded", "failed"}] :
     p \in Providers, by \in {"ann", "eve"}, a \in {Command("test"), Command("hello"), CommandFor("test", "lost")},
     b \in {Command("retest"), CommandFor("test", "away"), CommandFor("cancel", "build"),
            <<Quoted("test", <<<<"name", "build">>>>), Line("retest", <<>>)>>,
            <<[Line("test", <<>>) EXCEPT !.prefix = "/pac "]>>}}
  \cup {[Setup(p, <<"build">>, <<Opens(Member), Comments("ann", Command(says))>>)
           EXCEPT !.ends = {"succeeded", "failed"}, !.prunes = TRUE,
                  !.calls = {"runs", "statuses", "note"}, !.failures = 1] :
          p \in Providers, says \in {"retest", "ok-to-test"}}
  \cup {[Setup("github", <<"build">>,
               <<SaysOf("ann", CommandWith("ok-to-test", words), pull), Does("synchronize", "eve", Pushed(Pull)),
                 [Comments("eve", Command("ok-to-test")) EXCEPT !.hook.action = "edited"]>>)
           EXCEPT !.settings.requireSHA = TRUE, !.settings.edited = edited, !.calls = {"note"},
                  !.failures = 1] :
          words \in {<<>>, <<<<"sha", "p1">>>>, <<<<"sha", "p2">>>>},
          pull \in {Pull, [Pull EXCEPT !.open = FALSE]}, edited \in BOOLEAN}
  \cup {[Setup("github", <<"build">>, <<Comments("ann", <<[Line(says, <<>>) EXCEPT !.prefix = "/pac "]>>)>>)
           EXCEPT !.settings.prefix = "/pac ", !.settings.configured = configured,
                  !.settings.app = app] :
          says \in {"test", "cancel", "ok-to-test"}, configured \in BOOLEAN, app \in BOOLEAN}

\* Comments on a commit, of the default branch, of another or of a tag.
CommitSetups ==
  {Failing(Setup(p, <<"always", "release">>, <<CommentsOnCommit(by, text, sha), Pushes("ann", main, "m2", {})>>),
           {"branch", "tag", "pulls", "commit"}) :
     p \in {"github", "gitlab"}, by \in {"ann", "eve"}, sha \in {"m1", "p1"},
     text \in {Command("test"), Command("words"), CommandFor("cancel", "always"),
               CommandWith("test", <<<<"name", "always">>, <<"branch", "topic">>>>),
               CommandWith("retest", <<<<"tag", "v1">>>>), CommandWith("test", <<<<"colon", "x">>>>),
               CommandWith("ok-to-test", <<<<"key", "a">>>>)}}

\* Pushes of branches, tags and deletions, with pull requests of the same commit.
PushSetups ==
  {[Setup(p, <<"always", "release">>, <<Opens(Pull), Pushes("eve", ref, "p1", {1}), Does("synchronize", "eve", Pushed(Pull))>>)
      EXCEPT !.settings.skipPush = skip, !.settings.app = skip, !.calls = {"pulls", "client", "addresses"},
             !.failures = 1, !.settings.checkSourceIP = TRUE] :
     p \in Providers, ref \in {Ref("heads", "topic"), Ref("tags", "v2")}, skip \in BOOLEAN}
  \cup {Setup(p, <<"always">>, <<[Pushes("ann", main, "m2", {}) EXCEPT !.hook.deleted = deleted,
                                  !.hook.created = created, !.hook.commits = FALSE,
                                  !.hook.public = FALSE]>>) :
          p \in Providers, deleted \in BOOLEAN, created \in BOOLEAN}

\* Skip commands, in the title and below it.
SkipSetups ==
  {[Setup(p, <<"always", "labels">>, script)
      EXCEPT !.forge.message = [sha \in SHAs |-> message], !.settings.known = known,
             !.calls = {"info", "status"}, !.failures = 1] :
     p \in Providers \ {"gitlab"}, message \in {"skip in title", "skip in body"}, known \in BOOLEAN,
     script \in {<<Opens(Member), Comments("ann", Command("test"))>>,
                 <<Does("labeled", "ann", Labeled(Member)), Pushes("ann", main, "m2", {})>>}}
  \cup {[Setup("gitlab", <<"always", "release">>, script)
           EXCEPT !.forge.message = [sha \in SHAs |-> message]] :
          message \in {"skip in title", "skip in body"},
          script \in {<<Opens(Member), Comments("ann", Command("test"))>>,
                      <<Pushes("ann", Ref("tags", "v1"), "m1", {}),
                        [Pushes("ann", main, "m2", {}) EXCEPT !.hook.commits = FALSE,
                                                             !.hook.created = TRUE]>>}}

\* Asked for again on GitHub: with the pull requests the hook lists, without a
\* branch, as a push.
Fork == [Pull EXCEPT !.author = "mia"]
RequestSetups ==
  {Failing([Setup("github", <<"always">>, <<Requests(kind, "ann", "p1", ref, pulls, runPulls)>>)
              EXCEPT !.forge.pulls = [n \in pulls \cup 1..most |-> Fork], !.settings.app = app],
           {"token", "pull", "pulls"}) :
     kind \in {"check_run", "check_suite"}, ref \in {NoRef, main}, pulls \in {{}, {1}, {1, 2}},
     runPulls \in {{}, {1}}, most \in 1..2, app \in BOOLEAN}

\* Definitions that are wrong, that move, that look at files and labels.
DefinitionSetups ==
  {[Setup(p, <<d, "build">>, <<Opens(pull), Does("labeled", "ann", Labeled(pull))>>)
      EXCEPT !.calls = {"files", "dir", "resolve", "note"}, !.failures = 1] :
     p \in Providers, d \in {"expr", "wrong", "labels", "bug", "lint", "hand", "bad"}, pull \in {Member}}
  \cup {[Setup(p, <<>>, <<Opens(Member), Comments("ann", Command("ok-to-test"))>>)
           EXCEPT !.forge.trees["p1"] = tree] :
          p \in Providers,
          tree \in {Tree(<<>>), [Tree(<<"build">>) EXCEPT !.valid = FALSE], Tree(<<"bug">>),
                    [Tree(<<"build">>) EXCEPT !.errors = TRUE]}}
  \cup {[Setup(p, <<"build">>, <<Opens(Member), Pushes("ann", main, "m2", {})>>)
           EXCEPT !.settings.provenance = "default_branch",
                  !.forge.trees["m2"] = [Tree(<<"lint">>) EXCEPT !.valid = valid]] :
          p \in Providers, valid \in BOOLEAN}

\* Incoming webhooks, and what is refused of them; closing.
IncomingSetups ==
  {[Setup(p, <<"build", "hand", "always">>, <<[Calling EXCEPT !.hook = hook], Does("closed", by, Pull)>>)
      EXCEPT !.settings.repositories = many, !.calls = {"secret", "client"}, !.failures = 1] :
     p \in Forges \cup {"bitbucket-cloud"}, many \in {1, 2}, by \in {"ann", "eve"},
     hook \in {Calling.hook, [Calling.hook EXCEPT !.secret = "bad"], [Calling.hook EXCEPT !.complete = FALSE],
               [Calling.hook EXCEPT !.params = {"size"}], [Calling.hook EXCEPT !.branch = "release"],
               [Calling.hook EXCEPT !.pipelineRun = "", !.namespace = TRUE],
               [Calling.hook EXCEPT !.pipelineRun = "none"]}}

MCSetups ==
  OutsiderSetups \cup PolicySetups \cup CommandSetups \cup CommitSetups \cup PushSetups \cup SkipSetups
  \cup RequestSetups \cup DefinitionSetups \cup IncomingSetups

\* A push to GitLab of a commit with the command below its title.
MCSkipSetups ==
  {[Setup("gitlab", <<"always">>, <<Pushes("ann", main, "m2", {}), Opens(Member)>>)
       EXCEPT !.forge.message = [sha \in SHAs |-> "skip in body"],
              !.ends = {"succeeded", "failed"}]}
=============================================================================
