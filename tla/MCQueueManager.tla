-------------------------- MODULE MCQueueManager --------------------------
(* The PipelineRuns of one repository, each able to own an admission, and  *)
(* two workers: one batch can be in flight while another is retried,       *)
(* promoted, blocked behind it or dropped with the repository.  Two        *)
(* configurations: two keys under limits that change, and batches of two   *)
(* among three keys.                                                       *)
EXTENDS QueueManager, TLC

MCLists == {<<>>} \cup {<<j, k>> : j, k \in Keys}

\* Without a repeated key, for three keys.
MCPairs == {list \in MCLists : list = <<>> \/ list[1] # list[2]}

\* The bound of the larger instances: admissions unfinished at a time.
TwoAdmissions == Cardinality(Live) <= 2

Symmetry == Permutations(Keys) \cup Permutations(UIDs) \cup Permutations(Workers)
=============================================================================
