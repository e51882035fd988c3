------------------------------ MODULE SlotPool ------------------------------
(***************************************************************************)
(* What a repository queue promises, without permits or a heap: at most    *)
(* "capacity" holders are ever admitted (0: no limit), waiters are         *)
(* admitted first come first served, a waiter is refused only when the     *)
(* pool is full, and a holder that gives its slot back waits again in the  *)
(* place it had.                                                           *)
(***************************************************************************)
EXTENDS Integers, FiniteSets

CONSTANTS Keys, Refused, Ok

VARIABLES capacity, waiters, holders, before,
          reply   \* of the last call: the key admitted, Refused, or Ok

poolVars == <<capacity, waiters, holders, before, reply>>

Members == waiters \cup holders

Full == capacity # 0 /\ Cardinality(holders) >= capacity

Init ==
  /\ capacity \in Nat
  /\ waiters = {} /\ holders = {} /\ before = {}
  /\ reply = Ok

Join(k) ==
  /\ k \notin Members
  /\ waiters' = waiters \cup {k}
  /\ before' = before \cup (Members \X {k})
  /\ UNCHANGED <<capacity, holders>>
  /\ reply' = Ok

\* The first waiter takes a free slot.
Admit(k) ==
  /\ k \in waiters
  /\ \A j \in waiters : <<j, k>> \notin before
  /\ ~Full
  /\ holders' = holders \cup {k}
  /\ waiters' = waiters \ {k}
  /\ reply' = k
  /\ UNCHANGED <<capacity, before>>

Refuse ==
  /\ waiters = {} \/ Full
  /\ reply' = Refused
  /\ UNCHANGED <<capacity, waiters, holders, before>>

GiveBack(k) ==
  /\ k \in holders
  /\ holders' = holders \ {k}
  /\ waiters' = waiters \cup {k}
  /\ reply' = Ok
  /\ UNCHANGED <<capacity, before>>

Leave(k) ==
  /\ k \in Members
  /\ holders' = holders \ {k}
  /\ waiters' = waiters \ {k}
  /\ before' = {p \in before : p[1] # k /\ p[2] # k}
  /\ reply' = Ok
  /\ UNCHANGED capacity

\* A lower capacity evicts nobody: it only stops admissions.
Resize ==
  /\ capacity' \in Nat
  /\ reply' = Ok
  /\ UNCHANGED <<waiters, holders, before>>

\* A call that finds nothing to do answers without touching the pool.
Answer == reply' = Ok /\ UNCHANGED <<capacity, waiters, holders, before>>

Next ==
  \/ \E k \in Keys : Join(k) \/ Admit(k) \/ GiveBack(k) \/ Leave(k)
  \/ Refuse \/ Answer \/ Resize

Spec == Init /\ [][Next]_poolVars
=============================================================================
