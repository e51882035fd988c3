------------------------------ MODULE Cleanup ------------------------------
(***************************************************************************)
(* The deletion of the old PipelineRuns of a definition.  Each run that    *)
(* ended is reported by the watcher, marked completed, and then, by the    *)
(* worker that reported it, the completed runs of the same Repository and  *)
(* definition are listed and all but the newest are deleted, with the      *)
(* secret that was made for them.  Several workers do so at once.          *)
(***************************************************************************)
EXTENDS Integers, Sequences, FiniteSets, FiniteSetsExt

VARIABLES ended,       \* the PipelineRuns of the namespace
          cleaner,     \* the worker of each run
          deletion     \* [failed, beaten, clock, limits]: whether a call failed, whether a
                       \* worker met a run another one had deleted, the time, the configuration

cleanupVars == <<ended, cleaner, deletion>>

NoAnnotation == -1
NotEnded == 0

\* A run that has yet to end: its definition and the annotation max-keep-runs; and
\* one completed earlier, that nobody cleans up after any more.
EndingRun(d, keep) ==
    [def |-> d, keep |-> keep, at |-> NotEnded, completed |-> FALSE, exists |-> TRUE, secret |-> TRUE]
OldRun(d, t) == [EndingRun(d, 0) EXCEPT !.at = t, !.completed = TRUE]

InitCleanup(rs, limits) ==
    /\ ended = rs
    /\ cleaner = [r \in DOMAIN rs |-> [pc |-> IF rs[r].completed THEN "done" ELSE "idle", todo |-> <<>>, keep |-> 0]]
    /\ deletion = [failed |-> FALSE, beaten |-> FALSE, clock |-> Max({1} \cup {rs[r].at : r \in DOMAIN rs}), limits |-> limits]

\* The runs are numbered as they end; several may end within the same second.
RunEnds(r) ==
    /\ ended[r].at = NotEnded /\ \A q \in 1 .. r - 1 : ended[q].at # NotEnded
    /\ \E t \in {deletion.clock, deletion.clock + 1} :
          /\ ended' = [ended EXCEPT ![r].at = t]
          /\ deletion' = [deletion EXCEPT !.clock = t]
    /\ UNCHANGED cleaner

\* The bound: at most one call fails.
Fails == ~deletion.failed /\ deletion' = [deletion EXCEPT !.failed = TRUE]

\* The watcher has reported the run and writes its final state.
MarkCompleted(r) ==
    /\ ended[r].at # NotEnded /\ ~ended[r].completed
    /\ ended' = [ended EXCEPT ![r].completed = TRUE]
    /\ cleaner' = [cleaner EXCEPT ![r].pc = "limit"]
    /\ UNCHANGED deletion

\* How many to keep: the annotation of the run that ended, capped, or the default.
MaxKeep(r) ==
    LET limits == deletion.limits IN
        IF ended[r].keep = NoAnnotation THEN limits.default
        ELSE IF limits.upper > 0 /\ ended[r].keep > limits.upper THEN limits.upper
        ELSE ended[r].keep

Limited(r) == ended[r].keep # NoAnnotation \/ deletion.limits.default > 0

CleanupPipelineRuns(r) ==
    /\ cleaner[r].pc = "limit"
    /\ cleaner' = [cleaner EXCEPT ![r].keep = MaxKeep(r),
                        ![r].pc = IF Limited(r) THEN "list" ELSE "done"]
    /\ UNCHANGED <<ended, deletion>>

MutantListed(r) == {q \in DOMAIN ended : ended[q].exists /\ ended[q].completed}
\* The completed runs of the definition, newest first, in any order when they
\* ended together, and those of them that are too many.
Listed(r) == {q \in DOMAIN ended : ended[q].exists /\ ended[q].completed /\ ended[q].def = ended[r].def}
SortedByCompletionTime(S) ==
    {s \in [1 .. Cardinality(S) -> S] :
        /\ \A i, j \in 1 .. Cardinality(S) : i < j => s[i] # s[j] /\ ended[s[i]].at >= ended[s[j]].at}
TooMany(s, keep) == SubSeq(s, keep + 1, Len(s))

List(r) ==
    /\ cleaner[r].pc = "list"
    /\ \/ \E s \in SortedByCompletionTime(Listed(r)) :
             LET todo == TooMany(s, cleaner[r].keep) IN
                 /\ cleaner' = [cleaner EXCEPT ![r].todo = todo, ![r].pc = IF todo = <<>> THEN "done" ELSE "delete"]
                 /\ UNCHANGED deletion
       \/ cleaner' = [cleaner EXCEPT ![r].pc = "done"] /\ Fails
    /\ UNCHANGED ended

\* The next run is deleted; one that is gone, like any failure, ends the work.
Delete(r) ==
    /\ cleaner[r].pc = "delete"
    /\ \/ /\ ended[Head(cleaner[r].todo)].exists
          /\ ended' = [ended EXCEPT ![Head(cleaner[r].todo)].exists = FALSE]
          /\ cleaner' = [cleaner EXCEPT ![r].pc = "secret"]
          /\ UNCHANGED deletion
       \/ /\ ~ended[Head(cleaner[r].todo)].exists
          /\ cleaner' = [cleaner EXCEPT ![r].pc = "done"]
          /\ deletion' = [deletion EXCEPT !.beaten = TRUE]
          /\ UNCHANGED ended
       \/ /\ cleaner' = [cleaner EXCEPT ![r].pc = "done"]
          /\ Fails
          /\ UNCHANGED ended

\* Its secret is deleted as well, in case it does not belong to the run; a
\* failure is not looked at.
DeleteSecret(r) ==
    /\ cleaner[r].pc = "secret"
    /\ \/ /\ ended' = [ended EXCEPT ![Head(cleaner[r].todo)].secret = FALSE]
          /\ UNCHANGED deletion
       \/ Fails /\ UNCHANGED ended
    /\ cleaner' = [cleaner EXCEPT ![r].todo = Tail(@), ![r].pc = IF Tail(cleaner[r].todo) = <<>> THEN "done" ELSE "delete"]

CleanupNext == \E r \in DOMAIN ended :
    RunEnds(r) \/ MarkCompleted(r) \/ CleanupPipelineRuns(r) \/ List(r) \/ Delete(r) \/ DeleteSecret(r)

-----------------------------------------------------------------------------
Runs(d) == {r \in DOMAIN ended : ended[r].def = d /\ ended[r].at # NotEnded}
Kept(d) == {r \in Runs(d) : ended[r].exists}

\* A run is deleted only when the definition has as many runs that ended no
\* earlier as are to be kept, whatever the other workers delete meanwhile.
OnlyOldRunsAreDeleted ==
    [][\A r \in DOMAIN ended :
          ended[r].exists /\ ended'[r].exists = FALSE =>
              \E c \in DOMAIN cleaner :
                  /\ cleaner[c].pc = "delete"
                  /\ Cardinality({q \in Runs(ended[r].def) \ {r} : ended[q].completed /\ ended[q].at >= ended[r].at}) >= cleaner[c].keep
                  /\ cleaner[c].keep = MaxKeep(c) /\ ended[c].def = ended[r].def]_cleanupVars

\* When every worker is done and no call failed, no more runs of a definition
\* are left than the largest number one of its runs asked to keep.
MaxKeepIsKept ==
    (\A r \in DOMAIN ended : cleaner[r].pc = "done") /\ ~deletion.failed =>
        \A r \in DOMAIN ended :
            (\A q \in Runs(ended[r].def) : Limited(q)) =>
                Cardinality(Kept(ended[r].def)) <= Max({MaxKeep(q) : q \in Runs(ended[r].def)})

\* So it is when no worker gave up at a run that another one had deleted, in
\* whatever order they listed and deleted, and no secret is left of a deleted run.
UnbeatenWorkersKeepMaxKeep ==
    ~deletion.beaten =>
        /\ MaxKeepIsKept
        /\ (\A r \in DOMAIN ended : cleaner[r].pc = "done") /\ ~deletion.failed =>
               \A r \in DOMAIN ended : ended[r].exists = ended[r].secret

\* The workers delete neither more nor, unless one gives up, less than is asked.
CleanupKeepsTheNewest == OnlyOldRunsAreDeleted /\ []UnbeatenWorkersKeepMaxKeep
=============================================================================
