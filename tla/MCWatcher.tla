----------------------------- MODULE MCWatcher -----------------------------
(***************************************************************************)
(* Instances of Watcher.  Two runs and a limit of one are the least with a *)
(* queue; three and a limit of two the least with a batch and a queue.     *)
(***************************************************************************)
EXTENDS Watcher, TLC

OrderAB == <<"a", "b">>
OrderABC == <<"a", "b", "c">>

\* What is left of the order when some of its runs are not queued.
MCLists == {Filtered(Order, set) : set \in SUBSET Keys}

\* UIDs are only compared for equality.
SymmetricUIDs == Permutations(UIDs)
=============================================================================
