------------------------------ MODULE Analysis ------------------------------
(***************************************************************************)
(* The analysis of a PipelineRun that ended by a language model.  The      *)
(* worker that reports the run asks the model once per role, role after    *)
(* role and with up to three attempts each, and posts every answer on the  *)
(* pull request; only then does it start the next queued run and mark this *)
(* one as completed.  A worker that fails to do that, or that restarts,    *)
(* begins again with the first role.                                       *)
(***************************************************************************)
EXTENDS Integers, Sequences, FiniteSets, SequencesExt

VARIABLES config,      \* [valid, roles, pullRequest, passes]: the Repository's settings, the
                       \* event, and the bound: how often a worker may have to begin
          analysis,    \* the worker's progress
          discussion   \* [version, comments, refused]: what the commit tells, the comments of the
                       \* pull request, the roles of this pass whose comment was refused

analysisVars == <<config, analysis, discussion>>

MaxRetries == 3

\* A role: when it is asked, and the parts of the context it asks for, the number
\* of log lines among them.
Role(n, onCEL, items) == [name |-> n, onCEL |-> onCEL, items |-> items]
NoContext == [items |-> {}, version |-> 0]
Pass(n) == [pc |-> "start", pass |-> n, role |-> 1, attempt |-> 0, context |-> NoContext,
            cache |-> <<>>, results |-> <<>>, posted |-> 0]
NoAnalysis == [Pass(0) EXCEPT !.pc = "done"]

InitAnalysis(valid, roles, pullRequest, passes) ==
    /\ config = [valid |-> valid, roles |-> roles, pullRequest |-> pullRequest, passes |-> passes]
    /\ analysis = Pass(1)
    /\ discussion = [version |-> 1, comments |-> <<>>, refused |-> {}]

CurrentRole == config.roles[analysis.role]
Unchanged == UNCHANGED <<config, discussion>>

\* The provider tells more of the commit, or something else; the bound: once.
CommitInfoChanges ==
    /\ analysis.pc \notin {"start", "done"} /\ discussion.version = 1
    /\ discussion' = [discussion EXCEPT !.version = 2]
    /\ UNCHANGED <<config, analysis>>

validateAnalysisConfig ==
    /\ analysis.pc = "start"
    /\ analysis' = [analysis EXCEPT !.pc = IF config.valid THEN "trigger" ELSE "done"]
    /\ Unchanged

\* The role is done with a result; then the next one, or the comments.
Then(results) ==
    analysis' = [analysis EXCEPT !.results = results, !.attempt = 0,
                     !.role = IF @ = Len(config.roles) THEN 1 ELSE @ + 1,
                     !.pc = IF analysis.role < Len(config.roles) THEN "trigger"
                            ELSE IF results = <<>> THEN "done" ELSE "post"]
Answered(answered) ==
    Then(Append(analysis.results, [role |-> CurrentRole.name, answered |-> answered, context |-> analysis.context]))

\* Without an expression, a role is asked about every run that ended.
shouldTriggerRole ==
    /\ analysis.pc = "trigger"
    /\ \/ CurrentRole.onCEL = "error" /\ Then(Append(analysis.results, [role |-> CurrentRole.name, answered |-> FALSE, context |-> NoContext]))
       \/ CurrentRole.onCEL = "false" /\ Then(analysis.results)
       \/ CurrentRole.onCEL \in {"none", "true"} /\ analysis' = [analysis EXCEPT !.pc = "context"]
    /\ Unchanged

MutantContextCacheKey(items) == items \ {"logs10", "logs50"}
\* The same items have the same key.
getContextCacheKey(items) == items

\* Items that cannot be had are left out, with a warning.
BuildContext(items) == {[items |-> S, version |-> discussion.version] : S \in SUBSET items}

RoleContext ==
    /\ analysis.pc = "context"
    /\ LET key == getContextCacheKey(CurrentRole.items) IN
          IF key \in DOMAIN analysis.cache
          THEN analysis' = [analysis EXCEPT !.context = analysis.cache[key], !.pc = "client"]
          ELSE \E c \in BuildContext(CurrentRole.items) :
                  analysis' = [analysis EXCEPT !.context = c, !.pc = "client",
                                   !.cache = [k \in DOMAIN @ \cup {key} |-> IF k = key THEN c ELSE @[k]]]
    /\ Unchanged

\* The settings of the client are checked and its token is read anew for every role.
NewClient ==
    /\ analysis.pc = "client"
    /\ \/ analysis' = [analysis EXCEPT !.pc = "ask", !.attempt = 1]
       \/ Answered(FALSE)
    /\ Unchanged

\* An attempt; a failed one is repeated unless it is the last, or the worker is
\* told to stop while it waits.
Analyze ==
    /\ analysis.pc = "ask"
    /\ \/ Answered(TRUE)
       \/ analysis.attempt < MaxRetries /\ analysis' = [analysis EXCEPT !.attempt = @ + 1]
       \/ Answered(FALSE)
    /\ Unchanged

\* CreateComment: the first comment of this installation that holds the marker is
\* edited, else a new one is written.  The text posted is a heading with the role's name and
\* the answer; the marker is a word of its own, and is not part of it.
Marker(role) == <<"marker", role>>
Body(result) == [words |-> {<<"heading", result.role>>}, pass |-> analysis.pass, role |-> result.role]
Marked(marker) == {i \in DOMAIN discussion.comments : marker \in discussion.comments[i].words}
CreateComment(body, marker) ==
    IF Marked(marker) = {} THEN Append(discussion.comments, body)
    ELSE [discussion.comments EXCEPT ![CHOOSE i \in Marked(marker) : \A j \in Marked(marker) : i <= j] = body]

\* The answers are posted in order; a failure is only logged.
Postable(result) == result.answered /\ config.pullRequest
postPRComment ==
    /\ analysis.pc = "post"
    /\ LET result == analysis.results[analysis.posted + 1] IN
          \/ /\ Postable(result)
             /\ \/ discussion' = [discussion EXCEPT !.comments = CreateComment(Body(result), Marker(result.role))]
                \/ discussion' = [discussion EXCEPT !.refused = @ \cup {result.role}]
          \/ ~Postable(result) /\ UNCHANGED discussion
    /\ analysis' = [analysis EXCEPT !.posted = @ + 1, !.pc = IF analysis.posted + 1 = Len(analysis.results) THEN "done" ELSE "post"]
    /\ UNCHANGED config

\* The next run could not be started, the run not be marked, or the watcher restarted: all again.
PassAgain ==
    /\ analysis.pass \in 1 .. config.passes - 1
    /\ analysis' = Pass(analysis.pass + 1)
    /\ discussion' = [discussion EXCEPT !.refused = {}]
    /\ UNCHANGED config

AnalysisNext ==
    \/ CommitInfoChanges \/ validateAnalysisConfig \/ shouldTriggerRole \/ RoleContext
    \/ NewClient \/ Analyze \/ postPRComment \/ PassAgain

-----------------------------------------------------------------------------
RoleNamed(n) == CHOOSE r \in ToSet(config.roles) : r.name = n
ToAsk == {r.name : r \in {q \in ToSet(config.roles) : q.onCEL \in {"none", "true"}}}
Results(n) == {i \in DOMAIN analysis.results : analysis.results[i].role = n}

\* Roles that ask for the same parts are asked about the same context, each has only
\* what it asked for, and what changed between them is not seen by half of them.
ContextOfTheRole ==
    \A i, j \in DOMAIN analysis.results :
        LET r == analysis.results[i]
            q == analysis.results[j] IN
            /\ r.context.items \subseteq RoleNamed(r.role).items
            /\ {r.role, q.role} \subseteq ToAsk /\ RoleNamed(r.role).items = RoleNamed(q.role).items
                   => r.context = q.context

\* Whatever failed for one role, every role that is to be asked has been asked once
\* before the first answer is posted, and at the end every answer is a comment of this pass
\* unless the provider refused it.
EveryRoleIsAsked ==
    /\ analysis.pc = "post" => \A n \in ToAsk : Cardinality(Results(n)) = 1
    /\ analysis.pc = "done" =>
          /\ config.valid /\ analysis.pass > 0 => \A n \in ToAsk : Cardinality(Results(n)) = 1
          /\ \A i \in DOMAIN analysis.results :
                Postable(analysis.results[i]) /\ analysis.results[i].role \notin discussion.refused =>
                    \E c \in ToSet(discussion.comments) : c.role = analysis.results[i].role /\ c.pass = analysis.pass

\* Each role is asked, once and about its own context, whatever fails for another.
RolesAreAskedApart == ContextOfTheRole /\ EveryRoleIsAsked
=============================================================================
