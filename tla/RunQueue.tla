------------------------------ MODULE RunQueue ------------------------------
(***************************************************************************)
(* What a Repository with a concurrency limit promises to its users, with  *)
(* no manager, reconciler or API server: a run waits, then runs while      *)
(* fewer than the limit do, is told to stop or ends, and is over.  It runs *)
(* at most once, and never after it was told to stop.                      *)
(***************************************************************************)
EXTENDS Integers, FiniteSets

CONSTANT Keys

VARIABLES limit,    \* 0: none
          status    \* of each run

runQueueVars == <<limit, status>>

With(s) == {k \in Keys : status[k] = s}

become(k, s) ==
  /\ status' = [status EXCEPT ![k] = s]
  /\ UNCHANGED limit

Init ==
  /\ limit \in Nat
  /\ status = [k \in Keys |-> "waiting"]

Start(k) ==
  /\ status[k] = "waiting"
  /\ limit # 0 => Cardinality(With("running")) < limit
  /\ become(k, "running")

\* It ended, or was cancelled or deleted, perhaps before it ever ran.
Stop(k) ==
  /\ status[k] \in {"waiting", "running"}
  /\ become(k, "stopping")

Leave(k) ==
  /\ status[k] = "stopping"
  /\ become(k, "over")

Next == \E k \in Keys : Start(k) \/ Stop(k) \/ Leave(k)

Spec == Init /\ [][Next]_runQueueVars
=============================================================================
