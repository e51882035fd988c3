----------------------------- MODULE Semaphore -----------------------------
(***************************************************************************)
(* The data of one repository queue, pkg/queue/semaphore.go and            *)
(* priority_queue.go, as operators on a record:                            *)
(*   limit    the concurrency limit, 0 for no limit                        *)
(*   running  the keys holding a slot                                      *)
(*   pending  the keys in the heap                                         *)
(*   ahead    the order of the (priority, sequence) pairs of the items:    *)
(*            <<j, k>> when j was added before k.  An item keeps its pair  *)
(*            while it is running, which is how requeue restores it, so    *)
(*            the order spans pending and running keys                     *)
(*   held     the permits taken from the x/sync weighted semaphore, whose  *)
(*            size is always limit                                         *)
(* The pairs themselves (nanoseconds, counter) and the heap layout are     *)
(* abstracted to the order they define; keys are added with time.Now(), so *)
(* a clock that never runs backwards makes that the order of addition.     *)
(* Loops of the manager over these operations are given in closed form     *)
(* (acquireBatch, vacate); MCPrioritySemaphore checks each against the     *)
(* loop it stands for.  Operators named Mutant... are bugs the code might  *)
(* have: no definition uses them, and each makes a property fail when it   *)
(* replaces the definition after it.                                       *)
(***************************************************************************)
EXTENDS Integers, FiniteSets, Sequences

Least(a, b) == IF a <= b THEN a ELSE b

newSemaphore(limit) ==
  [limit |-> limit, running |-> {}, pending |-> {}, ahead |-> {}, held |-> 0]

Tracked(s) == s.running \cup s.pending

MutantResizeKeepsPermits(s, limit) == [s EXCEPT !.limit = limit]

\* resize: a fresh weighted semaphore of the new size, filled for the running
\* keys it has room for; the others keep running without a permit.
resize(s, limit) ==
  [s EXCEPT !.limit = limit, !.held = Least(Cardinality(s.running), limit)]

MutantAddsRunningKey(s, list) ==
  LET new == {list[i] : i \in DOMAIN list} \ s.pending
  IN [s EXCEPT !.pending = @ \cup new]

MutantAddsInFront(s, list) ==
  LET new == {list[i] : i \in DOMAIN list} \ Tracked(s)
  IN [s EXCEPT !.pending = @ \cup new, !.ahead = @ \cup (new \X Tracked(s))]

\* addToQueue (and addToPendingQueue, the same code) for each key of a list:
\* keys already running or pending keep their place, new ones go to the back.
addToQueue(s, list) ==
  LET new        == {list[i] : i \in DOMAIN list} \ Tracked(s)
      First(a, b) == \E i \in DOMAIN list : list[i] = a /\ \A j \in 1..i : list[j] # b
  IN [s EXCEPT !.pending = @ \cup new,
               !.ahead = @ \cup (Tracked(s) \X new)
                           \cup {p \in new \X new : First(p[1], p[2])}]

\* The pending keys the heap would pop up to and including k.
UpTo(s, k) == {j \in s.pending : j = k \/ <<j, k>> \in s.ahead}

nextPending(s) == {k \in s.pending : UpTo(s, k) = {k}}

MutantOneTooMany(s) ==
  IF s.limit = 0 THEN Cardinality(s.pending) ELSE s.limit - s.held + 1

\* The permits TryAcquire(1) can still take; with limit 0 it is not called.
Room(s) == IF s.limit = 0 THEN Cardinality(s.pending) ELSE s.limit - s.held

\* acquireLatest called while the head is in "allowed", at most n times: the
\* longest such prefix of the heap for which there is room.
Batch(s, allowed, n) ==
  {k \in s.pending : /\ UpTo(s, k) \subseteq allowed
                     /\ Cardinality(UpTo(s, k)) <= Least(n, Room(s))}

acquireBatch(s, allowed, n) ==
  LET batch == Batch(s, allowed, n)
  IN [s EXCEPT !.running = @ \cup batch,
               !.pending = @ \ batch,
               !.held = IF s.limit = 0 THEN @ ELSE @ + Cardinality(batch)]

acquireLatest(s) == acquireBatch(s, s.pending, 1)

MutantAlwaysReturns(r, n, limit) == IF r - n >= limit THEN 0 ELSE n

\* The permits returned when n of r running keys leave one by one: only a
\* removal that leaves fewer than limit running returns one.
Released(r, n, limit) ==
  IF r - n >= limit THEN 0 ELSE IF r <= limit THEN n ELSE n - (r - limit)

\* The part release and requeue share: the keys of set leave running.
vacate(s, set) ==
  LET n == Cardinality(s.running \cap set)
  IN [s EXCEPT !.running = @ \ set,
               !.held = @ - Released(Cardinality(s.running), n, s.limit)]

MutantRequeuesLast(s, set) ==
  LET back == s.running \cap set
      left == {p \in s.ahead : p[1] \notin back}
  IN [vacate(s, set) EXCEPT
        !.pending = @ \cup back,
        !.ahead = left \cup ((Tracked(s) \ back) \X back) \cup (s.ahead \cap (back \X back))]

\* requeue: the items go back to the heap with the pairs they were added with.
requeue(s, set) == [vacate(s, set) EXCEPT !.pending = @ \cup (s.running \cap set)]

Forget(s, set) == [s EXCEPT !.ahead = {p \in @ : p[1] \notin set /\ p[2] \notin set}]

\* release: drop the running keys of set; a pending key is not touched.
release(s, set) == Forget(vacate(s, set), s.running \cap set)

\* removeFromQueue: drop the pending keys of set; a running key is not touched.
removeFromQueue(s, set) ==
  Forget([s EXCEPT !.pending = @ \ set], s.pending \cap set)

----------------------------------------------------------------------------
(* What every semaphore over these keys satisfies. *)

IsSemaphore(s, keys) ==
  s \in [limit : Nat, running : SUBSET keys, pending : SUBSET keys,
         ahead : SUBSET (keys \X keys), held : Int]

\* The order is a strict total order of the tracked keys.
Ordered(s) ==
  /\ s.ahead \subseteq Tracked(s) \X Tracked(s)
  /\ \A j, k \in Tracked(s) : <<j, k>> \in s.ahead <=> j # k /\ <<k, j>> \notin s.ahead
  /\ \A j, k, l \in Tracked(s) :
       <<j, k>> \in s.ahead /\ <<k, l>> \in s.ahead => <<j, l>> \in s.ahead

WellFormed(s, keys) ==
  /\ IsSemaphore(s, keys)
  /\ s.running \cap s.pending = {}
  /\ Ordered(s)

\* The permits taken are the running keys the limit covers.
PermitsMatch(s) == s.held = Least(Cardinality(s.running), s.limit)
=============================================================================
