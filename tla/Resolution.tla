----------------------------- MODULE Resolution -----------------------------
(***************************************************************************)
(* The resolution of the PipelineRuns of one event: the pipeline each one  *)
(* refers to and the tasks these refer to are taken from the annotations,  *)
(* which name files of repositories, URLs and hub entries, or from the     *)
(* .tekton directory, and are written into the run.  Every reference is    *)
(* fetched once per event, while what it names may change at any time.     *)
(***************************************************************************)
EXTENDS Integers, Sequences, FiniteSets, SequencesExt

VARIABLES repository,  \* [defs, pipelines, tasks, skip, remoteTasks]: the directory and the options
          remote,      \* [pipelines, tasks]: what each reference names now; a hub has both kinds
          fetched,     \* [pipelines, tasks]: what the event has fetched, by reference
          work         \* the definition at work, and the resolved ones

resolutionVars == <<repository, remote, fetched, work>>

NoName == "none"
Task(n, v) == [name |-> n, version |-> v]
Pipeline(n, tasks, refs, v) == [name |-> n, tasks |-> tasks, annotations |-> refs, version |-> v]
NoPipeline == Pipeline(NoName, {}, {}, 0)

\* References: "url" (absolute, a catalog without a version included), "path" of the
\* repository, "name" of the hub, "catalog" with a version.
Ref(kind, n) == [kind |-> kind, name |-> n, base |-> NoName]
NoRef == Ref("none", NoName)

\* A definition: its pipelineRef or its own tasks, the values of its pipeline
\* annotations and of each of its task annotations.
Def(n, pipelineRef, tasks, pipelines, annotations, valid) ==
    [name |-> n, pipelineRef |-> pipelineRef, tasks |-> tasks, pipelines |-> pipelines,
     annotations |-> annotations, valid |-> valid]

Nothing == <<>>
NoWork == [pc |-> "idle", at |-> 0, pipeline |-> NoPipeline, url |-> NoRef, todo |-> <<>>, tasks |-> Nothing, done |-> <<>>]

InitResolution(repo, named) ==
    /\ repository = repo /\ remote = named
    /\ fetched = [pipelines |-> Nothing, tasks |-> Nothing]
    /\ work = [NoWork EXCEPT !.pc = "validate", !.at = 1]

CurrentDef == repository.defs[work.at]
ResolutionFails == work' = [work EXCEPT !.pc = "failed", !.done = <<>>]

\* What a reference names changes; the bound: once.
Update(kind, r) ==
    /\ work.pc \notin {"idle", "failed", "resolved"}
    /\ remote[kind][r].version = 1
    /\ remote' = [remote EXCEPT ![kind][r].version = 2]
    /\ UNCHANGED <<repository, fetched, work>>

\* One name used twice, or one bad annotation, ends the resolution of all.
MetadataResolve ==
    /\ work.pc = "validate"
    /\ IF /\ \A i, j \in DOMAIN repository.defs : repository.defs[i].name = repository.defs[j].name => i = j
          /\ \A i \in DOMAIN repository.defs : repository.defs[i].valid
       THEN work' = [work EXCEPT !.pc = "pipeline"]
       ELSE ResolutionFails
    /\ UNCHANGED <<repository, remote, fetched>>

MutantKnown(cache, r) == FALSE
\* What was fetched is not fetched again.  What is not there, getRemote (with the
\* provider's GetTaskURI in front) has now, or fails, as when it is of another kind.
Known(cache, r) == r \in DOMAIN cache
Put(cache, k, x) == [j \in DOMAIN cache \cup {k} |-> IF j = k THEN x ELSE cache[j]]
KeepFirst(cache, k, x) == [j \in DOMAIN cache \cup {k} |-> IF j \in DOMAIN cache THEN cache[j] ELSE x]

\* The pipeline of the annotation, which is then the base of relative paths.
RemotePipeline(r, p) == work' = [work EXCEPT !.pc = "choose", !.pipeline = p, !.url = r]

TakePipeline ==
    /\ work.pc = "pipeline"
    /\ \/ /\ ~repository.remoteTasks \/ CurrentDef.pipelines = <<>>
          /\ work' = [work EXCEPT !.pc = "choose", !.pipeline = NoPipeline, !.url = NoRef]
          /\ UNCHANGED fetched
       \/ /\ repository.remoteTasks /\ Len(CurrentDef.pipelines) > 1
          /\ ResolutionFails /\ UNCHANGED fetched
       \/ /\ repository.remoteTasks /\ Len(CurrentDef.pipelines) = 1
          /\ LET r == CurrentDef.pipelines[1] IN
                \/ /\ Known(fetched.pipelines, r)
                   /\ RemotePipeline(r, fetched.pipelines[r]) /\ UNCHANGED fetched
                \/ /\ ~Known(fetched.pipelines, r)
                   /\ \/ /\ r \in DOMAIN remote.pipelines
                         /\ RemotePipeline(r, remote.pipelines[r])
                         /\ fetched' = [fetched EXCEPT !.pipelines = Put(@, r, remote.pipelines[r])]
                      \/ ResolutionFails /\ UNCHANGED fetched
    /\ UNCHANGED <<repository, remote>>

\* Below a remote pipeline of a URL or of a path, whatever is not an absolute URL is
\* a relative path: so is the name of a hub's task, or one with a version.
assembleTaskFQDNs(url, refs) ==
    IF url.kind \notin {"url", "path"} THEN refs
    ELSE [i \in DOMAIN refs |-> IF refs[i].kind = "url" THEN refs[i] ELSE [refs[i] EXCEPT !.kind = url.kind, !.base = url.name]]

\* The annotations are visited in any order, the last one first in the list.
GrabTasksFromAnnotations(annotations) == {FlattenSeq(s) : s \in SetToSeqs(annotations)}

Named(s, n) == {i \in DOMAIN s : s[i].name = n}
getPipelineByName(n) == repository.pipelines[CHOOSE i \in Named(repository.pipelines, n) : \A j \in Named(repository.pipelines, n) : i <= j]

\* With the pipeline chosen, the tasks to fetch: those of the run, then the pipeline's.
ToFetch(pipeline) ==
    \E own \in GrabTasksFromAnnotations(CurrentDef.annotations),
       others \in GrabTasksFromAnnotations(pipeline.annotations) :
        work' = [work EXCEPT !.pc = "tasks", !.pipeline = pipeline, !.tasks = Nothing,
                     !.todo = IF repository.remoteTasks THEN own \o assembleTaskFQDNs(work.url, others) ELSE <<>>]

ChoosePipeline ==
    /\ work.pc = "choose"
    /\ \/ CurrentDef.pipelineRef = NoName /\ ToFetch(NoPipeline)
       \/ CurrentDef.pipelineRef # NoName /\ work.pipeline.name = CurrentDef.pipelineRef /\ ToFetch(work.pipeline)
       \/ /\ CurrentDef.pipelineRef # NoName /\ work.pipeline.name # CurrentDef.pipelineRef
          /\ IF Named(repository.pipelines, CurrentDef.pipelineRef) = {}
             THEN ResolutionFails ELSE ToFetch(getPipelineByName(CurrentDef.pipelineRef))
    /\ UNCHANGED <<repository, remote, fetched>>

\* The next task: the first of a name is the one that is used.
Add(t) == work' = [work EXCEPT !.todo = Tail(@), !.tasks = KeepFirst(@, t.name, t)]

FetchTask ==
    /\ work.pc = "tasks" /\ work.todo # <<>>
    /\ LET r == Head(work.todo) IN
          \/ Known(fetched.tasks, r) /\ Add(fetched.tasks[r]) /\ UNCHANGED fetched
          \/ /\ ~Known(fetched.tasks, r) /\ r \in DOMAIN remote.tasks
             /\ Add(remote.tasks[r])
             /\ fetched' = [fetched EXCEPT !.tasks = Put(@, r, remote.tasks[r])]
          \/ ~Known(fetched.tasks, r) /\ ResolutionFails /\ UNCHANGED fetched
    /\ UNCHANGED <<repository, remote>>

\* The tasks of the directory come last; of several of one name the first is used.
WithLocal(tasks) ==
    LET local == {t.name : t \in ToSet(repository.tasks)} IN
        [n \in DOMAIN tasks \cup local |->
            IF n \in DOMAIN tasks THEN tasks[n]
            ELSE repository.tasks[CHOOSE i \in Named(repository.tasks, n) : \A j \in Named(repository.tasks, n) : i <= j]]

\* The references to write into the run, those of the run's own tasks or the pipeline's.
ToInline == (IF CurrentDef.pipelineRef = NoName THEN CurrentDef.tasks ELSE work.pipeline.tasks) \ repository.skip

inlineTasks ==
    /\ work.pc = "tasks" /\ work.todo = <<>>
    /\ LET tasks == WithLocal(work.tasks) IN
          IF ~(ToInline \subseteq DOMAIN tasks) THEN ResolutionFails
          ELSE work' = [work EXCEPT !.done = Append(@, [pipeline |-> work.pipeline, url |-> work.url, tasks |-> [n \in ToInline |-> tasks[n]]]),
                            !.at = @ + 1,
                            !.pc = IF work.at = Len(repository.defs) THEN "resolved" ELSE "pipeline"]
    /\ UNCHANGED <<repository, remote, fetched>>

ResolutionNext ==
    \/ MetadataResolve \/ TakePipeline \/ ChoosePipeline \/ FetchTask \/ inlineTasks
    \/ \E kind \in {"pipelines", "tasks"} : \E r \in DOMAIN remote[kind] : Update(kind, r)

-----------------------------------------------------------------------------
\* What the references of a set of annotations gave under a name.
RefsOf(annotations) == UNION {ToSet(s) : s \in annotations}
Given(refs, n) == {fetched.tasks[r] : r \in {q \in refs \cap DOMAIN fetched.tasks : fetched.tasks[q].name = n}}
Assembled(d) == UNION {ToSet(assembleTaskFQDNs(d.url, s)) : s \in d.pipeline.annotations}

\* Of several tasks of a name, a resolved run has one of its own annotations, else
\* one of its pipeline's, else the directory's; and of two pipelines the
\* annotation's, whatever was fetched for the runs before it.
RemoteBeforeLocal ==
    \A i \in DOMAIN work.done :
        LET d == repository.defs[i]
            r == work.done[i]
            annotated == {fetched.pipelines[p] : p \in ToSet(d.pipelines) \cap DOMAIN fetched.pipelines} IN
            /\ \A n \in DOMAIN r.tasks :
                  r.tasks[n] \in IF ~repository.remoteTasks THEN ToSet(repository.tasks)
                                 ELSE IF Given(RefsOf(d.annotations), n) # {} THEN Given(RefsOf(d.annotations), n)
                                 ELSE IF Given(Assembled(r), n) # {} THEN Given(Assembled(r), n)
                                 ELSE ToSet(repository.tasks)
            /\ d.pipelineRef # NoName =>
                  /\ r.pipeline.name = d.pipelineRef
                  /\ r.pipeline \in IF \E p \in annotated : p.name = d.pipelineRef THEN annotated ELSE ToSet(repository.pipelines)

\* No two annotations give a task of the same name.
Unambiguous(refs) ==
    \A q, r \in refs \cap DOMAIN fetched.tasks : fetched.tasks[q].name = fetched.tasks[r].name => q = r

\* Two definitions with the same references are resolved to the same pipeline and
\* tasks, though what a reference names changes between them; unless two
\* annotations give a task of the same name.
TwinsResolveAlike ==
    \A i, j \in DOMAIN work.done :
        LET c == repository.defs[i]
            d == repository.defs[j] IN
            [c EXCEPT !.name = d.name] = d /\ Unambiguous(RefsOf(d.annotations)) /\ Unambiguous(Assembled(work.done[j]))
                => work.done[i] = work.done[j]

\* What a run resolves to depends on its own references, not on the other
\* definitions resolved before it through the shared caches.
ResolutionIsOfTheDefinition == RemoteBeforeLocal /\ TwinsResolveAlike
=============================================================================
