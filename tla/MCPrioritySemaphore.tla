------------------------ MODULE MCPrioritySemaphore ------------------------
(* The semaphore on four keys, with limits on both sides of what can be    *)
(* running: batches are running when the limit drops below them, to them,  *)
(* to zero and back.  The loops of the manager that Semaphore gives in     *)
(* closed form are written here as loops, and compared in every reachable  *)
(* state.                                                                  *)
EXTENDS PrioritySemaphore

\* for n > 0 { if the head is not allowed { break }; acquireLatest() }
\* (queue_manager.go:113, acquireUnowned at admission.go:70, admission.go:159)
RECURSIVE AcquireLoop(_, _, _)
AcquireLoop(s, allowed, n) ==
  LET free == s.limit = 0 \/ s.held < s.limit
  IN IF n = 0 \/ ~(nextPending(s) \subseteq allowed) \/ s.pending = {} \/ ~free
     THEN s
     ELSE AcquireLoop([s EXCEPT !.running = @ \cup nextPending(s),
                                !.pending = @ \ nextPending(s),
                                !.held = IF s.limit = 0 THEN @ ELSE @ + 1],
                      allowed, n - 1)

\* delete(running, key); if len(running) < limit { Release(1) }, key by key
RECURSIVE VacateLoop(_, _)
VacateLoop(s, set) ==
  IF set \cap s.running = {} THEN s ELSE
  LET k    == CHOOSE k \in set \cap s.running : TRUE
      left == s.running \ {k}
  IN VacateLoop([s EXCEPT !.running = left,
                          !.held = IF Cardinality(left) < s.limit THEN @ - 1 ELSE @],
                set \ {k})

----------------------------------------------------------------------------
(* The closed form acquireBatch takes the keys the loop over acquireLatest *)
(* takes, for every set of allowed keys and every number of turns.         *)
BatchIsTheLoop ==
  \A allowed \in SUBSET Keys, n \in 0..Cardinality(Keys) :
    acquireBatch(sem, allowed, n) = AcquireLoop(sem, allowed, n)

(* The closed form vacate returns the permits that release and requeue     *)
(* return when the keys leave one by one.                                  *)
VacateIsTheLoop ==
  \A set \in SUBSET Keys : vacate(sem, set) = VacateLoop(sem, set)

(* docs/content/docs/advanced/concurrency.md:110, on the queue snapshot:   *)
(* "`len(running)` should never exceed `limit`" (0 is no limit).  A limit  *)
(* lowered below the running keys makes it do so, by the downward case of  *)
(* resize (semaphore.go:66), until enough of them finish.                  *)
RunningNeverExceedsLimit ==
  sem.limit # 0 => Cardinality(sem.running) <= sem.limit

(* The closed forms are the loops of the code in every reachable state.    *)
ClosedFormsAreTheLoops == BatchIsTheLoop /\ VacateIsTheLoop
=============================================================================
