------------------------------ MODULE Matching ------------------------------
(* Which PipelineRun definitions of a .tekton directory an event matches   *)
(* (pkg/matcher: annotation_matcher.go, cel.go, repo_runinfo_matcher.go).  *)
(*                                                                         *)
(* A definition is what its annotations say:                               *)
(*   name, annotated (it has annotations at all), namespace ("" or its     *)
(*   target namespace), comments (the commands its on-comment expression   *)
(*   matches, {} without one), events, branches, paths, ignored, labels    *)
(*   ({} without the annotation), wrong (its on-event is not a list), and  *)
(*   cel, an expression or NoCEL.                                          *)
(* "seen" is what is known while matching: namespaces that have a          *)
(* Repository of this URL, the changed files, the definitions that         *)
(* succeeded for the commit by their runs and by its statuses.             *)
EXTENDS GitEvents

Wildcard == "*"

NoCEL == [set |-> FALSE]
\* event in events && target_branch == branch && labels.exists && files.exists,
\* each part but the first optional; or an expression that cannot be evaluated.
CEL(events, branch) ==
  [set |-> TRUE, events |-> events, branch |-> branch, labels |-> {}, files |-> {}, wrong |-> FALSE]

(***************************************************************************)
(* Branches                                                                *)
(***************************************************************************)
Full(ref) == IF ref.form = "short" THEN Ref("heads", ref.name) ELSE ref

\* A pattern for tags is compared with the ref as it is.
branchMatch(pattern, base) ==
  LET ref == IF pattern.form = "tags" THEN base ELSE Full(base)
  IN  Full(pattern).form = ref.form /\ pattern.name \in {Wildcard, ref.name}

matchTarget(branch, target) == target \in {Wildcard, branch}

\* The first rule with a target for the branch, 0 when there is none.
IncomingWebhookRule(branch, rules) ==
  SelectInSeq(rules, LAMBDA rule : \E t \in rule.targets : matchTarget(branch, t))

\* An incoming webhook matches what is for pushes too.
getTargetBranch(d, event) ==
  /\ d.events \cap (IF event.type = "incoming" THEN {"incoming", "push"} ELSE {event.trigger}) # {}
  /\ \E pattern \in d.branches : branchMatch(pattern, event.base)

(***************************************************************************)
(* CEL: on a push the branch of the event loses its refs/heads/, for good, *)
(* when the expression reads it and does not say refs/heads/ itself.       *)
(***************************************************************************)
Stripped(ref) == IF ref.form = "heads" THEN Ref("short", ref.name) ELSE ref

ReadBy(cel, event) ==
  IF ~cel.wrong /\ event.trigger = "push" /\ cel.branch.form = "short"
    THEN [event EXCEPT !.base = Stripped(@)] ELSE event

celEvaluate(cel, event, files) ==
  /\ event.trigger = "pull_request" /\ event.type = "pull_request_labeled" => cel.labels # {}
  /\ event.trigger \in cel.events
  /\ cel.branch \in {NoRef, event.base}
  /\ cel.labels # {} => cel.labels \cap event.labels # {}
  /\ cel.files # {} => cel.files \cap files # {}

(***************************************************************************)
(* One definition after the other. "matching" is what has come of those    *)
(* before it: the event, which a definition may change, the definitions    *)
(* matched, in order, those reported as unmatched, those whose expression  *)
(* is wrong, and whether an annotation put an end to it.                   *)
(***************************************************************************)
Matches(matching, d) == [matching EXCEPT !.matched = Append(@, d)]
Unmatched(matching, d) == [matching EXCEPT !.unmatched = @ \cup {d.name}]

byComment(d, event) ==
  d.comments # {} /\ \E i \in DOMAIN event.comment : event.comment[i].says \in d.comments

WithCEL(matching, d, seen, broken) ==
  LET read == [matching EXCEPT !.event = ReadBy(d.cel, @)]
  IN  IF d.cel.wrong THEN [matching EXCEPT !.invalid = Append(@, d.name)]
      ELSE IF d.cel.files # {} /\ "files" \in broken THEN read
      ELSE IF celEvaluate(d.cel, read.event, seen.files) THEN Matches(read, d)
      ELSE Unmatched(read, d)

\* Files that cannot be had leave the definition out of both lists.
WithAnnotations(matching, d, seen, broken) ==
  LET event == matching.event
  IN  IF event.trigger = "pull_request" /\ event.type = "pull_request_labeled" /\ d.labels = {}
        THEN matching
      ELSE IF d.wrong THEN [matching EXCEPT !.error = TRUE]
      ELSE IF ~getTargetBranch(d, event) THEN Unmatched(matching, d)
      ELSE IF d.paths # {} /\ "files" \in broken THEN matching
      ELSE IF \/ d.paths # {} /\ d.paths \cap seen.files = {}
              \/ d.labels # {} /\ d.labels \cap event.labels = {}
        THEN Unmatched(matching, d)
      ELSE IF d.ignored # {} /\ "files" \in broken THEN matching
      ELSE IF d.ignored \cap seen.files # {} THEN Unmatched(matching, d)
      ELSE Matches(matching, d)

MatchOne(matching, d, seen, broken) ==
  LET event  == matching.event
      missed == IF d.comments = {} THEN matching ELSE Unmatched(matching, d)
  IN  IF matching.error THEN matching
      ELSE IF event.incoming = d.name THEN Matches(matching, d)
      ELSE IF ~d.annotated \/ (d.namespace # "" /\ d.namespace \notin seen.namespaces)
        THEN matching
      ELSE IF byComment(d, event) THEN [Matches(matching, d) EXCEPT !.event.type = "on-comment"]
      ELSE IF event.type \in {"no-ops-comment", "on-comment"} THEN missed
      ELSE IF d.cel.set THEN WithCEL(missed, d, seen, broken)
      ELSE WithAnnotations(missed, d, seen, broken)

\* What has succeeded for the commit is not started again; when the runs
\* cannot be listed everything is.
MutantForgetsPruned(matched, seen, broken) ==
  SelectSeq(matched, LAMBDA d : d.name \notin seen.succeeded)
filterSuccessfulTemplates(matched, seen, broken) ==
  LET succeeded == seen.succeeded \cup (IF "statuses" \in broken THEN {} ELSE seen.statuses)
  IN  IF "runs" \in broken THEN matched
      ELSE SelectSeq(matched, LAMBDA d : d.name \notin succeeded)

\* outcome: "matched", "none", or "no failed" when all of them have succeeded.
Outcome(all, left) ==
  LET some == ~all.error /\ all.matched # <<>>
  IN  [event |-> all.event, unmatched |-> all.unmatched, invalid |-> all.invalid,
       matched |-> IF some THEN left ELSE <<>>,
       outcome |-> IF ~some THEN "none" ELSE IF left = <<>> THEN "no failed" ELSE "matched"]

AllMatched(all, seen, broken) ==
  Outcome(all, IF all.event.type \in {"retest-all-comment", "ok-to-test-comment"}
                 THEN filterSuccessfulTemplates(all.matched, seen, broken) ELSE all.matched)

MatchPipelinerunByAnnotation(definitions, event, seen, broken) ==
  LET start == [event |-> event, matched |-> <<>>, unmatched |-> {}, invalid |-> <<>>, error |-> FALSE]
  IN  AllMatched(FoldLeft(LAMBDA m, d : MatchOne(m, d, seen, broken), start, definitions), seen, broken)

(***************************************************************************)
(* Definitions asked for by name                                           *)
(***************************************************************************)
MatchRunningPipelineRunForIncomingWebhook(event, definitions) ==
  IF event.type # "incoming" \/ event.incoming = "" THEN definitions
  ELSE SelectSeq(definitions, LAMBDA d : d.name = event.incoming)

filterRunningPipelineRunOnTargetTest(test, definitions) ==
  SelectSeq(definitions, LAMBDA d : <<"name", d.name>> = test)

\* The Repository it runs in has to exist.
resolveTargetNamespaceRepo(d, seen) == d.namespace \in {""} \cup seen.namespaces
=============================================================================
