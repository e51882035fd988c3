-------------------------- MODULE AdmissionsTheorems --------------------------
(***************************************************************************)
(* What the steps of the manager's methods preserve, a lemma per operator  *)
(* of Admissions.  Consistent is what holds of a manager between any two   *)
(* of them; Keeps is what none of them does to a batch in flight or to a   *)
(* handoff that is done.  The proofs about state machines that use the     *)
(* manager cite these.                                                     *)
(***************************************************************************)
EXTENDS Admissions, SemaphoreTheorems

Admission ==
  [promotion : BOOLEAN, busy : BOOLEAN, done : BOOLEAN, releasedOwner : BOOLEAN,
   cands : SUBSET Keys, reserved : SUBSET Keys, attempts : SUBSET (Keys \X UIDs)]

Sound(q) == q = NoQueue \/ (WellFormed(q, Keys) /\ PermitsMatch(q))

Typed(m) ==
  /\ m = [queue |-> m.queue, admissions |-> m.admissions, claims |-> m.claims]
  /\ Sound(m.queue)
  /\ m.admissions \in [Owners -> Admission \cup {NoAdmission}]
  /\ m.claims \in [Keys -> Owners \cup {NoOwner}]

ClaimsMatch(m) ==
  \A k \in Keys, o \in Owners :
    m.claims[k] = o <=> m.admissions[o] # NoAdmission /\ k \in m.admissions[o].cands

\* The slots of an admission, against the queue.
SlotsMatch(a, q) ==
  /\ q # NoQueue
  /\ a.reserved = a.cands \cap q.running
  /\ a.cands \ a.reserved \subseteq q.pending
  /\ \A t \in a.attempts : t[1] \in a.reserved

\* A promotion takes one key, and none once it is done.
HandsOver(a) ==
  a.promotion => /\ \A j, k \in a.cands : j = k
                 /\ a.done => a.cands = {}

Consistent(m) ==
  /\ Typed(m)
  /\ ClaimsMatch(m)
  /\ \A o \in Owners :
       m.admissions[o] # NoAdmission =>
         SlotsMatch(m.admissions[o], m.queue) /\ HandsOver(m.admissions[o])

\* Nothing is left to do for the admission, and nobody will drop it.
Spent(a) == ~a.busy /\ a.cands = {} /\ a.done /\ ~a.promotion /\ ~a.releasedOwner

Swept(m, o) == m.admissions[o] # NoAdmission => ~Spent(m.admissions[o])

Busy(m, o) == m.admissions[o] # NoAdmission /\ m.admissions[o].busy

Settled(m, o) ==
  m.admissions[o] # NoAdmission /\ m.admissions[o].promotion /\ m.admissions[o].done

Holds(m, k) == m.queue # NoQueue /\ k \in m.queue.running

\* A batch in flight stays so, and its candidates keep their slots.
KeepsBatches(m, n) ==
  /\ \A o \in Owners : Busy(m, o) <=> Busy(n, o)
  /\ \A k \in Keys, o \in Owners :
       Busy(m, o) /\ n.claims[k] = o => m.claims[k] = o /\ (Holds(m, k) => Holds(n, k))

Keeps(m, n) ==
  /\ KeepsBatches(m, n)
  /\ \A o \in Owners : Settled(m, o) => Settled(n, o)

\* No key takes a slot.
TakesNone(m, n) == \A k \in Keys : Holds(n, k) => Holds(m, k)

----------------------------------------------------------------------------
LEMMA AdmissionIsTyped == \A a : IsAdmission(a) <=> a \in Admission
BY DEF IsAdmission, Admission

LEMMA NoAdmissionIsNone == NoAdmission \notin Admission
BY AdmissionsAssumption, AdmissionIsTyped

LEMMA SoundQueue ==
  ASSUME NEW q, WellFormed(q, Keys), PermitsMatch(q)
  PROVE  q # NoQueue /\ Sound(q)
BY AdmissionsAssumption DEF WellFormed, Sound

(* An owner that may have claims is never the absence of one. *)
LEMMA OwnersAreSome == \A o \in Owners : o # NoOwner
BY AdmissionsAssumption

(* Keeps composes: a method of several steps keeps what each of them does. *)
LEMMA KeepsComposes ==
  ASSUME NEW l, NEW m, NEW n, Keeps(l, m), Keeps(m, n)
  PROVE  Keeps(l, n)
BY DEF Keeps, KeepsBatches

LEMMA KeepsReflexive ==
  ASSUME NEW m
  PROVE  Keeps(m, m) /\ TakesNone(m, m)
BY DEF Keeps, KeepsBatches, TakesNone

LEMMA TakesNoneComposes ==
  ASSUME NEW l, NEW m, NEW n, TakesNone(l, m), TakesNone(m, n)
  PROVE  TakesNone(l, n)
BY DEF TakesNone

\* A step about one owner leaves the others' admissions, claims and slots.
Waits(m, k) == m.queue # NoQueue /\ k \in m.queue.pending

Untouched(m, n, o) ==
  /\ n.admissions[o] = m.admissions[o]
  /\ \A k \in Keys :
       /\ n.claims[k] = o <=> m.claims[k] = o
       /\ m.claims[k] = o => (Holds(n, k) <=> Holds(m, k)) /\ (Waits(m, k) => Waits(n, k))

LEMMA OthersUntouched ==
  ASSUME NEW m, Consistent(m), NEW n, Typed(n), m.queue # NoQueue, n.queue # NoQueue,
         NEW owner \in Owners,
         \A o \in Owners \ {owner} : Untouched(m, n, o),
         \A k \in Keys : n.claims[k] = owner <=>
           n.admissions[owner] # NoAdmission /\ k \in n.admissions[owner].cands,
         n.admissions[owner] # NoAdmission =>
           SlotsMatch(n.admissions[owner], n.queue) /\ HandsOver(n.admissions[owner])
  PROVE  /\ Consistent(n)
         /\ \A o \in Owners \ {owner} :
              /\ Busy(m, o) <=> Busy(n, o)
              /\ Settled(m, o) <=> Settled(n, o)
              /\ Swept(m, o) => Swept(n, o)
              /\ \A k \in Keys :
                   n.claims[k] = o => m.claims[k] = o /\ (Holds(m, k) => Holds(n, k))
<1>1. ClaimsMatch(n)
  <2> SUFFICES ASSUME NEW k \in Keys, NEW o \in Owners
               PROVE  n.claims[k] = o <=>
                        n.admissions[o] # NoAdmission /\ k \in n.admissions[o].cands
    BY DEF ClaimsMatch
  <2>1. CASE o = owner
    BY <2>1
  <2>2. CASE o # owner
    <3>1. n.admissions[o] = m.admissions[o] /\ (n.claims[k] = o <=> m.claims[k] = o)
      BY <2>2 DEF Untouched
    <3>2. m.claims[k] = o <=> m.admissions[o] # NoAdmission /\ k \in m.admissions[o].cands
      BY DEF Consistent, ClaimsMatch
    <3> QED
      BY <3>1, <3>2
  <2> QED
    BY <2>1, <2>2
<1>2. ASSUME NEW o \in Owners, n.admissions[o] # NoAdmission
      PROVE  SlotsMatch(n.admissions[o], n.queue) /\ HandsOver(n.admissions[o])
  <2>1. CASE o = owner
    BY <1>2, <2>1
  <2>2. CASE o # owner
    <3> DEFINE a == m.admissions[o]
    <3>1. n.admissions[o] = a /\ a # NoAdmission
      BY <1>2, <2>2 DEF Untouched
    <3>2. a \in Admission
      BY <3>1 DEF Consistent, Typed
    <3>3. SlotsMatch(a, m.queue) /\ HandsOver(a)
      BY <3>1 DEF Consistent
    <3>4. \A k \in a.cands : k \in Keys /\ m.claims[k] = o
      BY <3>1, <3>2 DEF Consistent, ClaimsMatch, Admission
    <3> HIDE DEF a
    <3>5. \A k \in a.cands : /\ k \in n.queue.running <=> k \in m.queue.running
                             /\ k \in m.queue.pending => k \in n.queue.pending
      <4> SUFFICES ASSUME NEW k \in a.cands
                   PROVE  /\ k \in n.queue.running <=> k \in m.queue.running
                          /\ k \in m.queue.pending => k \in n.queue.pending
        OBVIOUS
      <4>1. Untouched(m, n, o)
        BY <2>2
      <4>2. (Holds(n, k) <=> Holds(m, k)) /\ (Waits(m, k) => Waits(n, k))
        BY <3>4, <4>1 DEF Untouched
      <4> QED
        BY <4>2 DEF Holds, Waits
    <3>6. SlotsMatch(a, n.queue)
      BY <3>3, <3>5 DEF SlotsMatch
    <3> QED
      BY <3>1, <3>3, <3>6
  <2> QED
    BY <2>1, <2>2
<1>3. Consistent(n)
  BY <1>1, <1>2 DEF Consistent
<1>4. ASSUME NEW o \in Owners \ {owner}
      PROVE  /\ Busy(m, o) <=> Busy(n, o)
             /\ Settled(m, o) <=> Settled(n, o)
             /\ Swept(m, o) => Swept(n, o)
             /\ \A k \in Keys :
                  n.claims[k] = o => m.claims[k] = o /\ (Holds(m, k) => Holds(n, k))
  <2>1. Untouched(m, n, o)
    OBVIOUS
  <2>2. n.admissions[o] = m.admissions[o]
    BY <2>1 DEF Untouched
  <2>3. (Busy(m, o) <=> Busy(n, o)) /\ (Settled(m, o) <=> Settled(n, o))
    BY <2>2, Zenon DEF Busy, Settled
  <2>4. Swept(m, o) => Swept(n, o)
    BY <2>2 DEF Swept
  <2> QED
    BY <2>1, <2>3, <2>4 DEF Untouched
<1> QED
  BY <1>3, <1>4

----------------------------------------------------------------------------
(* getSemaphore (queue_manager.go:72) creates the queue or resizes it, and *)
(* changes no key's place in it.                                           *)
LEMMA GetSemaphoreOK ==
  ASSUME NEW m, Consistent(m), NEW limit \in Nat
  PROVE  LET n == getSemaphore(m, limit)
         IN  /\ Consistent(n) /\ n.queue # NoQueue
             /\ n.admissions = m.admissions /\ n.claims = m.claims
             /\ Keeps(m, n) /\ TakesNone(m, n)
<1> DEFINE n == getSemaphore(m, limit)
           q == IF m.queue = NoQueue THEN newSemaphore(limit)
                ELSE IF m.queue.limit # limit THEN resize(m.queue, limit) ELSE m.queue
<1>1. /\ n = [queue |-> q, admissions |-> m.admissions, claims |-> m.claims]
      /\ n.queue = q /\ n.admissions = m.admissions /\ n.claims = m.claims
  <2>1. n = [m EXCEPT !.queue = q]
    BY DEF getSemaphore
  <2>2. m = [queue |-> m.queue, admissions |-> m.admissions, claims |-> m.claims]
    BY DEF Consistent, Typed
  <2> HIDE DEF n, q
  <2> QED
    BY <2>1, <2>2
<1>2. /\ WellFormed(q, Keys) /\ PermitsMatch(q)
      /\ m.queue = NoQueue => q.running = {}
      /\ m.queue # NoQueue => q.running = m.queue.running /\ q.pending = m.queue.pending
  <2>1. CASE m.queue = NoQueue
    BY <2>1, NewSemaphoreOK DEF newSemaphore
  <2>2. CASE m.queue # NoQueue /\ m.queue.limit # limit
    <3>1. WellFormed(m.queue, Keys)
      BY <2>2 DEF Consistent, Typed, Sound
    <3>2. WellFormed(resize(m.queue, limit), Keys) /\ PermitsMatch(resize(m.queue, limit))
      BY <3>1, ResizeOK, AdmissionsAssumption
    <3>3. /\ resize(m.queue, limit).running = m.queue.running
          /\ resize(m.queue, limit).pending = m.queue.pending
      BY <3>1 DEF resize, WellFormed, IsSemaphore
    <3> QED
      BY <2>2, <3>2, <3>3
  <2>3. CASE m.queue # NoQueue /\ m.queue.limit = limit
    BY <2>3 DEF Consistent, Typed, Sound
  <2> QED
    BY <2>1, <2>2, <2>3
<1>3. q # NoQueue /\ Sound(q)
  BY <1>2, SoundQueue
<1> HIDE DEF n, q
<1>4. Typed(n) /\ ClaimsMatch(n)
  BY <1>1, <1>3 DEF Consistent, Typed, ClaimsMatch
<1>5. ASSUME NEW o \in Owners, n.admissions[o] # NoAdmission
      PROVE  SlotsMatch(n.admissions[o], n.queue) /\ HandsOver(n.admissions[o])
  BY <1>1, <1>2, <1>3, <1>5 DEF Consistent, SlotsMatch
<1>6. Keeps(m, n) /\ TakesNone(m, n)
  BY <1>1, <1>2, <1>3 DEF Keeps, KeepsBatches, TakesNone, Busy, Settled, Holds
<1> QED
  BY <1>1, <1>3, <1>4, <1>5, <1>6 DEF Consistent, n

----------------------------------------------------------------------------
(* forgetCandidate's edit of an admission: the keys of set are no longer   *)
(* candidates.                                                             *)
LEMMA WithoutOK ==
  ASSUME NEW a \in Admission, NEW set
  PROVE  LET b == Without(a, set)
         IN  /\ b \in Admission
             /\ b.promotion = a.promotion /\ b.busy = a.busy
             /\ b.done = a.done /\ b.releasedOwner = a.releasedOwner
             /\ b.cands = a.cands \ set /\ b.reserved = a.reserved \ set
             /\ b.attempts = {t \in a.attempts : t[1] \notin set}
BY DEF Without, Admission

(* removeFromQueue after release: the key leaves the queue, whichever part *)
(* it is in, and the other keys keep their slots and their order.          *)
LEMMA KeyLeavesQueue ==
  ASSUME NEW q, WellFormed(q, Keys), PermitsMatch(q), NEW key \in Keys
  PROVE  LET r == removeFromQueue(release(q, {key}), {key})
         IN  /\ WellFormed(r, Keys) /\ PermitsMatch(r)
             /\ r.limit = q.limit
             /\ r.running = q.running \ {key} /\ r.pending = q.pending \ {key}
             /\ r.ahead \subseteq q.ahead
             /\ \A p \in q.ahead : p[1] # key /\ p[2] # key => p \in r.ahead
<1> DEFINE s == release(q, {key})
           r == removeFromQueue(s, {key})
<1>1. /\ WellFormed(s, Keys) /\ PermitsMatch(s)
      /\ s.limit = q.limit /\ s.pending = q.pending
      /\ s.running = q.running \ {key}
      /\ s.ahead = {p \in q.ahead : /\ p[1] \notin q.running \cap {key}
                                    /\ p[2] \notin q.running \cap {key}}
  BY ReleaseOK, AdmissionsAssumption
<1> HIDE DEF s
<1>2. /\ WellFormed(r, Keys) /\ PermitsMatch(r)
      /\ r.limit = s.limit /\ r.running = s.running
      /\ r.pending = s.pending \ {key}
      /\ r.ahead = {p \in s.ahead : /\ p[1] \notin s.pending \cap {key}
                                    /\ p[2] \notin s.pending \cap {key}}
  BY <1>1, RemoveFromQueueOK
<1> HIDE DEF r
<1>3. \A p \in q.ahead : p[1] # key /\ p[2] # key => p \in r.ahead
  BY <1>1, <1>2
<1>4. r.ahead \subseteq q.ahead
  BY <1>1, <1>2
<1> QED
  BY <1>1, <1>2, <1>3, <1>4 DEF r, s

(* The admission the removed key was a candidate of, after removeFromQueue *)
(* of the manager: its batch is done, and it is dropped once it has no     *)
(* candidate, no worker and nothing to hand over.                          *)
Bereft(a, key) ==
  LET left == Without([a EXCEPT !.done = TRUE], {key})
  IN IF ~left.promotion /\ ~left.busy /\ ~left.releasedOwner /\ left.cands = {}
     THEN NoAdmission ELSE left

LEMMA RemoveKeyView ==
  ASSUME NEW m, Consistent(m), m.queue # NoQueue, NEW key \in Keys
  PROVE  LET n     == removeKey(m, key)
             owner == m.claims[key]
         IN  /\ n = [queue |-> removeFromQueue(release(m.queue, {key}), {key}),
                     admissions |-> IF owner = NoOwner THEN m.admissions
                                    ELSE [m.admissions EXCEPT
                                            ![owner] = Bereft(m.admissions[owner], key)],
                     claims |-> [m.claims EXCEPT ![key] = NoOwner]]
<1> DEFINE owner == m.claims[key]
           q == removeFromQueue(release(m.queue, {key}), {key})
           marked == [m EXCEPT !.admissions[owner].done = TRUE]
<1>1. /\ m = [queue |-> m.queue, admissions |-> m.admissions, claims |-> m.claims]
      /\ m.admissions \in [Owners -> Admission \cup {NoAdmission}]
      /\ m.claims \in [Keys -> Owners \cup {NoOwner}]
  BY DEF Consistent, Typed
<1>2. CASE owner = NoOwner
  <2>1. forgetCandidate(m, key) = m
    BY <1>2 DEF forgetCandidate
  <2>2. [m.claims EXCEPT ![key] = NoOwner] = m.claims
    BY <1>1, <1>2
  <2>3. removeKey(m, key) = [m EXCEPT !.queue = q]
    BY <1>2, <2>1 DEF removeKey
  <2> HIDE DEF q
  <2>4. [m EXCEPT !.queue = q] = [queue |-> q, admissions |-> m.admissions, claims |-> m.claims]
    BY <1>1
  <2> QED
    BY <1>2, <2>2, <2>3, <2>4 DEF q
<1>3. CASE owner # NoOwner
  <2>1. owner \in Owners
    BY <1>1, <1>3
  <2>2. marked = [queue |-> m.queue,
                  admissions |-> [m.admissions EXCEPT
                                    ![owner] = [m.admissions[owner] EXCEPT !.done = TRUE]],
                  claims |-> m.claims]
    BY <1>1
  <2> HIDE DEF marked
  <2>3. /\ marked.queue = m.queue /\ marked.claims = m.claims
        /\ marked.admissions = [m.admissions EXCEPT
                                  ![owner] = [m.admissions[owner] EXCEPT !.done = TRUE]]
        /\ marked.admissions[owner] = [m.admissions[owner] EXCEPT !.done = TRUE]
    BY <1>1, <2>1, <2>2
  <2>4. forgetCandidate(marked, key) =
          [marked EXCEPT !.claims[key] = NoOwner,
                         !.admissions[owner] = Bereft(m.admissions[owner], key)]
    BY <1>3, <2>3 DEF forgetCandidate, Bereft
  <2> DEFINE b == Bereft(m.admissions[owner], key)
  <2>5. forgetCandidate(marked, key) =
          [queue |-> m.queue, admissions |-> [m.admissions EXCEPT ![owner] = b],
           claims |-> [m.claims EXCEPT ![key] = NoOwner]]
    <3> HIDE DEF b
    <3>1. [marked.admissions EXCEPT ![owner] = b] = [m.admissions EXCEPT ![owner] = b]
      BY <1>1, <2>1, <2>3
    <3>2. [marked EXCEPT !.claims[key] = NoOwner, !.admissions[owner] = b] =
            [queue |-> m.queue, admissions |-> [marked.admissions EXCEPT ![owner] = b],
             claims |-> [m.claims EXCEPT ![key] = NoOwner]]
      <4> DEFINE l == [marked EXCEPT !.claims[key] = NoOwner]
      <4>1. l = [queue |-> m.queue, admissions |-> marked.admissions,
                 claims |-> [m.claims EXCEPT ![key] = NoOwner]]
        <5>1. marked = [queue |-> m.queue, admissions |-> marked.admissions, claims |-> m.claims]
          BY <2>2, <2>3
        <5> QED
          BY <5>1
      <4>2. [marked EXCEPT !.claims[key] = NoOwner, !.admissions[owner] = b]
              = [l EXCEPT !.admissions[owner] = b]
        OBVIOUS
      <4> HIDE DEF l
      <4> QED
        BY <4>1, <4>2
    <3> QED
      BY <2>4, <3>1, <3>2 DEF b
  <2>6. removeKey(m, key) =
          [forgetCandidate(marked, key) EXCEPT
             !.queue = removeFromQueue(release(@, {key}), {key})]
    BY <1>3 DEF removeKey, marked
  <2> HIDE DEF b
  <2> QED
    BY <1>3, <2>5, <2>6 DEF b
<1> QED
  BY <1>2, <1>3

(* An admission that loses a candidate has the slots of the others left.   *)
LEMMA BereftOK ==
  ASSUME NEW a \in Admission, NEW key \in Keys
  PROVE  LET b == Bereft(a, key)
         IN  /\ b \in Admission \cup {NoAdmission}
             /\ b = NoAdmission =>
                  ~a.promotion /\ ~a.busy /\ ~a.releasedOwner /\ a.cands \subseteq {key}
             /\ b # NoAdmission =>
                  /\ b.promotion = a.promotion /\ b.busy = a.busy
                  /\ b.done /\ b.releasedOwner = a.releasedOwner
                  /\ b.cands = a.cands \ {key} /\ b.reserved = a.reserved \ {key}
                  /\ b.attempts = {t \in a.attempts : t[1] # key}
                  /\ ~Spent(b)
<1> DEFINE c == [a EXCEPT !.done = TRUE]
           left == Without(c, {key})
<1>1. /\ c \in Admission /\ c.done
      /\ c.promotion = a.promotion /\ c.busy = a.busy /\ c.releasedOwner = a.releasedOwner
      /\ c.cands = a.cands /\ c.reserved = a.reserved /\ c.attempts = a.attempts
  BY DEF Admission
<1> HIDE DEF c
<1>2. /\ left \in Admission
      /\ left.promotion = c.promotion /\ left.busy = c.busy
      /\ left.done = c.done /\ left.releasedOwner = c.releasedOwner
      /\ left.cands = c.cands \ {key} /\ left.reserved = c.reserved \ {key}
      /\ left.attempts = {t \in c.attempts : t[1] \notin {key}}
  BY <1>1, WithoutOK
<1> HIDE DEF left
<1>3. left # NoAdmission
  BY <1>2, NoAdmissionIsNone
<1>4. Bereft(a, key) =
        IF ~left.promotion /\ ~left.busy /\ ~left.releasedOwner /\ left.cands = {}
        THEN NoAdmission ELSE left
  BY DEF Bereft, left, c
<1>5. CASE ~left.promotion /\ ~left.busy /\ ~left.releasedOwner /\ left.cands = {}
  BY <1>1, <1>2, <1>4, <1>5
<1>6. CASE ~(~left.promotion /\ ~left.busy /\ ~left.releasedOwner /\ left.cands = {})
  <2>1. Bereft(a, key) = left
    BY <1>4, <1>6
  <2>2. left.attempts = {t \in a.attempts : t[1] # key}
    BY <1>1, <1>2
  <2>3. ~Spent(left)
    BY <1>6 DEF Spent
  <2> QED
    BY <1>1, <1>2, <1>3, <2>1, <2>2, <2>3
<1> QED
  BY <1>5, <1>6

(* removeFromQueue of the manager (queue_manager.go): no claim or slot of  *)
(* another key changes.                                                    *)
LEMMA RemoveKeyOK ==
  ASSUME NEW m, Consistent(m), m.queue # NoQueue, NEW key \in Keys
  PROVE  LET n == removeKey(m, key)
         IN  /\ Consistent(n) /\ n.queue # NoQueue
             /\ n.queue.limit = m.queue.limit
             /\ Keeps(m, n) /\ TakesNone(m, n)
             /\ \A o \in Owners : Swept(m, o) => Swept(n, o)
             /\ \A o \in Owners : m.admissions[o] = NoAdmission => n.admissions[o] = NoAdmission
             /\ \A o \in Owners : m.admissions[o] # NoAdmission /\ m.admissions[o].releasedOwner
                  => n.admissions[o] # NoAdmission /\ n.admissions[o].releasedOwner
             /\ \A o \in Owners : m.admissions[o] # NoAdmission /\ n.admissions[o] # NoAdmission
                  => n.admissions[o].promotion = m.admissions[o].promotion
             /\ n.claims = [m.claims EXCEPT ![key] = NoOwner]
<1> DEFINE n == removeKey(m, key)
           owner == m.claims[key]
           q == removeFromQueue(release(m.queue, {key}), {key})
           b == Bereft(m.admissions[owner], key)
<1>1. n = [queue |-> q,
           admissions |-> IF owner = NoOwner THEN m.admissions
                          ELSE [m.admissions EXCEPT ![owner] = b],
           claims |-> [m.claims EXCEPT ![key] = NoOwner]]
  BY RemoveKeyView
<1> HIDE DEF n
<1>2. /\ n = [queue |-> n.queue, admissions |-> n.admissions, claims |-> n.claims]
      /\ n.queue = q
      /\ n.admissions = IF owner = NoOwner THEN m.admissions
                        ELSE [m.admissions EXCEPT ![owner] = b]
      /\ n.claims = [m.claims EXCEPT ![key] = NoOwner]
  BY <1>1
<1> HIDE DEF b
<1>3. /\ m.admissions \in [Owners -> Admission \cup {NoAdmission}]
      /\ m.claims \in [Keys -> Owners \cup {NoOwner}] /\ owner \in Owners \cup {NoOwner}
      /\ WellFormed(m.queue, Keys) /\ PermitsMatch(m.queue)
  BY DEF Consistent, Typed, Sound
<1>4. /\ WellFormed(q, Keys) /\ PermitsMatch(q) /\ q.limit = m.queue.limit
      /\ q.running = m.queue.running \ {key} /\ q.pending = m.queue.pending \ {key}
  BY <1>3, KeyLeavesQueue
<1> HIDE DEF q
<1>5. n.queue # NoQueue /\ Sound(n.queue)
  BY <1>2, <1>4, SoundQueue
<1>6. \A k \in Keys : k # key => n.claims[k] = m.claims[k]
  BY <1>2, <1>3
<1>7. n.claims[key] = NoOwner /\ n.claims \in [Keys -> Owners \cup {NoOwner}]
  BY <1>2, <1>3
<1>8. TakesNone(m, n)
  BY <1>2, <1>4 DEF TakesNone, Holds
<1>9. \A o \in Owners : o # owner => Untouched(m, n, o)
  <2> SUFFICES ASSUME NEW o \in Owners, o # owner PROVE Untouched(m, n, o)
    OBVIOUS
  <2>1. n.admissions[o] = m.admissions[o]
    BY <1>2, <1>3
  <2>2. ASSUME NEW k \in Keys
        PROVE  /\ n.claims[k] = o <=> m.claims[k] = o
               /\ m.claims[k] = o =>
                    (Holds(n, k) <=> Holds(m, k)) /\ (Waits(m, k) => Waits(n, k))
    <3>1. CASE k = key
      BY <3>1, <1>7, OwnersAreSome
    <3>2. CASE k # key
      BY <3>2, <1>2, <1>4, <1>5, <1>6 DEF Holds, Waits
    <3> QED
      BY <3>1, <3>2
  <2> QED
    BY <2>1, <2>2 DEF Untouched
<1>10. CASE owner = NoOwner
  <2>1. n.admissions = m.admissions
    BY <1>2, <1>10
  <2>2. Typed(n)
    BY <1>2, <1>3, <1>5, <1>7, <2>1 DEF Typed
  <2>3. n.claims = m.claims
    BY <1>2, <1>3, <1>10
  <2>4. \A o \in Owners : Untouched(m, n, o)
    BY <1>9, <1>10, OwnersAreSome
  <2>5. ASSUME NEW p \in Owners PROVE Consistent(n)
    <3>1. \A k \in Keys : n.claims[k] = p <=>
            n.admissions[p] # NoAdmission /\ k \in n.admissions[p].cands
      BY <2>1, <2>3 DEF Consistent, ClaimsMatch
    <3>2. ASSUME n.admissions[p] # NoAdmission
          PROVE  SlotsMatch(n.admissions[p], n.queue) /\ HandsOver(n.admissions[p])
      <4> DEFINE a == m.admissions[p]
      <4>1. a \in Admission /\ SlotsMatch(a, m.queue) /\ HandsOver(a)
        BY <3>2, <2>1, <1>3 DEF Consistent
      <4>2. \A k \in a.cands : k \in Keys /\ m.claims[k] = p
        BY <3>2, <2>1, <4>1 DEF Consistent, ClaimsMatch, Admission
      <4>3. key \notin a.cands
        BY <1>10, <4>2, OwnersAreSome
      <4> HIDE DEF a
      <4>4. SlotsMatch(a, n.queue)
        BY <4>1, <4>3, <1>2, <1>4, <1>5 DEF SlotsMatch
      <4> QED
        BY <2>1, <4>1, <4>4 DEF a
    <3> QED
      BY <1>5, <2>2, <2>4, <3>1, <3>2, OthersUntouched
  <2>6. Consistent(n)
    BY <2>2, <2>5 DEF Consistent, ClaimsMatch
  <2>7. Keeps(m, n)
    <3>1. \A o \in Owners : (Busy(m, o) <=> Busy(n, o)) /\ (Settled(m, o) <=> Settled(n, o))
      BY <2>1, Zenon DEF Busy, Settled
    <3>2. \A k \in Keys, o \in Owners :
            n.claims[k] = o => m.claims[k] = o /\ (Holds(m, k) => Holds(n, k))
      BY <2>4 DEF Untouched
    <3> QED
      BY <3>1, <3>2 DEF Keeps, KeepsBatches
  <2> QED
    BY <1>2, <1>4, <1>5, <1>8, <2>1, <2>6, <2>7 DEF n, Swept
<1>11. CASE owner # NoOwner
  <2> DEFINE a == m.admissions[owner]
  <2>1. /\ owner \in Owners /\ a \in Admission /\ a # NoAdmission /\ key \in a.cands
        /\ SlotsMatch(a, m.queue) /\ HandsOver(a)
    BY <1>3, <1>11, NoAdmissionIsNone DEF Consistent, ClaimsMatch
  <2>2. n.admissions[owner] = b /\ n.admissions = [m.admissions EXCEPT ![owner] = b]
    BY <1>2, <1>3, <1>11, <2>1
  <2> HIDE DEF owner, a
  <2>3. /\ b \in Admission \cup {NoAdmission}
        /\ b = NoAdmission =>
             ~a.promotion /\ ~a.busy /\ ~a.releasedOwner /\ a.cands \subseteq {key}
        /\ b # NoAdmission =>
             /\ b.promotion = a.promotion /\ b.busy = a.busy
             /\ b.done /\ b.releasedOwner = a.releasedOwner
             /\ b.cands = a.cands \ {key} /\ b.reserved = a.reserved \ {key}
             /\ b.attempts = {t \in a.attempts : t[1] # key}
             /\ ~Spent(b)
    BY <2>1, BereftOK DEF b, a
  <2>4. Typed(n)
    BY <1>2, <1>3, <1>5, <1>7, <2>1, <2>2, <2>3 DEF Typed
  <2>5. \A k \in Keys : n.claims[k] = owner <=>
          n.admissions[owner] # NoAdmission /\ k \in n.admissions[owner].cands
    <3> SUFFICES ASSUME NEW k \in Keys
                 PROVE  n.claims[k] = owner <=> b # NoAdmission /\ k \in b.cands
      BY <2>2
    <3>1. m.claims[k] = owner <=> k \in a.cands
      BY <2>1 DEF Consistent, ClaimsMatch, a
    <3>2. CASE k = key
      BY <3>2, <1>7, <1>11, <2>3
    <3>3. CASE k # key
      BY <3>1, <3>3, <1>6, <2>3
    <3> QED
      BY <3>2, <3>3
  <2>6. b # NoAdmission => SlotsMatch(b, n.queue) /\ HandsOver(b)
    <3> SUFFICES ASSUME b # NoAdmission PROVE SlotsMatch(b, n.queue) /\ HandsOver(b)
      OBVIOUS
    <3>1. SlotsMatch(b, n.queue)
      BY <1>2, <1>4, <1>5, <2>1, <2>3 DEF SlotsMatch
    <3>2. HandsOver(b)
      BY <2>1, <2>3 DEF HandsOver
    <3> QED
      BY <3>1, <3>2
  <2>7. /\ Consistent(n)
        /\ \A o \in Owners \ {owner} :
             /\ Busy(m, o) <=> Busy(n, o)
             /\ Settled(m, o) <=> Settled(n, o)
             /\ Swept(m, o) => Swept(n, o)
             /\ \A k \in Keys :
                  n.claims[k] = o => m.claims[k] = o /\ (Holds(m, k) => Holds(n, k))
    BY <1>5, <1>9, <2>1, <2>2, <2>4, <2>5, <2>6, OthersUntouched
  <2>8. Busy(m, owner) <=> Busy(n, owner)
    BY <2>1, <2>2, <2>3 DEF Busy, a
  <2>9. Settled(m, owner) => Settled(n, owner)
    BY <2>1, <2>2, <2>3 DEF Settled, a
  <2>10. Swept(n, owner)
    BY <2>2, <2>3 DEF Swept
  <2>11. \A k \in Keys :
           n.claims[k] = owner => m.claims[k] = owner /\ (Holds(m, k) => Holds(n, k))
    BY <1>2, <1>4, <1>5, <1>6, <1>7, <1>11 DEF Holds
  <2>12. Keeps(m, n)
    BY <2>7, <2>8, <2>9, <2>11 DEF Keeps, KeepsBatches
  <2>13. \A o \in Owners : Swept(m, o) => Swept(n, o)
    BY <2>7, <2>10
  <2>14. \A o \in Owners \ {owner} : n.admissions[o] = m.admissions[o]
    BY <1>9 DEF Untouched
  <2> QED
    BY <1>2, <1>4, <1>5, <1>8, <2>1, <2>2, <2>3, <2>7, <2>12, <2>13, <2>14 DEF n, a
<1> QED
  BY <1>3, <1>10, <1>11

----------------------------------------------------------------------------
(* A change of the queue alone that leaves the claimed keys where they     *)
(* are leaves every admission as it was.                                   *)
LEMMA QueueChangeOK ==
  ASSUME NEW m, Consistent(m), NEW q, WellFormed(q, Keys), PermitsMatch(q),
         m.queue # NoQueue,
         \A k \in Keys : m.claims[k] # NoOwner =>
           /\ k \in q.running <=> k \in m.queue.running
           /\ k \in m.queue.pending => k \in q.pending
  PROVE  LET n == [m EXCEPT !.queue = q]
         IN  /\ Consistent(n) /\ n.queue = q /\ n.queue # NoQueue
             /\ n.admissions = m.admissions /\ n.claims = m.claims
             /\ Keeps(m, n)
<1> DEFINE n == [m EXCEPT !.queue = q]
<1>1. q # NoQueue /\ Sound(q)
  BY SoundQueue
<1>2. m = [queue |-> m.queue, admissions |-> m.admissions, claims |-> m.claims]
  BY DEF Consistent, Typed
<1>3. /\ n = [queue |-> n.queue, admissions |-> n.admissions, claims |-> n.claims]
      /\ n.queue = q /\ n.admissions = m.admissions /\ n.claims = m.claims
  <2>1. n = [queue |-> q, admissions |-> m.admissions, claims |-> m.claims]
    BY <1>2
  <2> QED
    BY <2>1
<1> HIDE DEF n
<1>4. Typed(n) /\ ClaimsMatch(n)
  BY <1>1, <1>3 DEF Consistent, Typed, ClaimsMatch
<1>5. ASSUME NEW o \in Owners, n.admissions[o] # NoAdmission
      PROVE  SlotsMatch(n.admissions[o], n.queue) /\ HandsOver(n.admissions[o])
  <2> DEFINE a == m.admissions[o]
  <2>1. a \in Admission /\ SlotsMatch(a, m.queue) /\ HandsOver(a) /\ a = n.admissions[o]
    BY <1>3, <1>5 DEF Consistent, Typed
  <2>2. \A k \in a.cands : k \in Keys /\ m.claims[k] = o
    BY <1>3, <1>5, <2>1 DEF Consistent, ClaimsMatch, Admission
  <2> HIDE DEF a
  <2>3. \A k \in a.cands : /\ k \in q.running <=> k \in m.queue.running
                           /\ k \in m.queue.pending => k \in q.pending
    BY <2>2, OwnersAreSome
  <2>4. SlotsMatch(a, q)
    BY <1>1, <2>1, <2>3 DEF SlotsMatch
  <2> QED
    BY <1>3, <2>1, <2>4
<1>6. \A o \in Owners : (Busy(m, o) <=> Busy(n, o)) /\ (Settled(m, o) <=> Settled(n, o))
  BY <1>3, Zenon DEF Busy, Settled
<1>7. \A k \in Keys, o \in Owners :
        n.claims[k] = o => m.claims[k] = o /\ (Holds(m, k) => Holds(n, k))
  BY <1>1, <1>3, OwnersAreSome DEF Holds
<1> QED
  BY <1>1, <1>3, <1>4, <1>5, <1>6, <1>7 DEF Consistent, Keeps, KeepsBatches, n

(* addToQueue, for a list of keys: no key moves, new ones wait.            *)
LEMMA ListedOK ==
  ASSUME NEW m, Consistent(m), m.queue # NoQueue, NEW list \in Seq(Keys)
  PROVE  LET n == listed(m, list)
         IN  /\ Consistent(n) /\ n.queue # NoQueue
             /\ n.admissions = m.admissions /\ n.claims = m.claims
             /\ Keeps(m, n) /\ TakesNone(m, n)
<1> DEFINE q == addToQueue(m.queue, list)
           n == [m EXCEPT !.queue = q]
<1>1. WellFormed(m.queue, Keys) /\ PermitsMatch(m.queue)
  BY DEF Consistent, Typed, Sound
<1>2. /\ WellFormed(q, Keys) /\ PermitsMatch(q)
      /\ q.running = m.queue.running /\ m.queue.pending \subseteq q.pending
  BY <1>1, AddToQueueOK
<1>3. listed(m, list) = n
  BY DEF listed
<1> HIDE DEF q
<1>4. /\ Consistent(n) /\ n.queue = q /\ n.queue # NoQueue
      /\ n.admissions = m.admissions /\ n.claims = m.claims
      /\ Keeps(m, n)
  BY <1>2, QueueChangeOK
<1> HIDE DEF n
<1>5. TakesNone(m, n)
  BY <1>2, <1>4 DEF TakesNone, Holds
<1> QED
  BY <1>3, <1>4, <1>5

----------------------------------------------------------------------------
(* The keys that take a slot do so within the limit, and in order.         *)
TakesInOrder(m, n) ==
  \A k \in Keys :
    Holds(n, k) /\ ~Holds(m, k) =>
      /\ n.queue.limit = 0 \/ Cardinality(n.queue.running) <= n.queue.limit
      /\ \A j \in n.queue.pending : <<j, k>> \notin n.queue.ahead

LEMMA TakesNoneFirst ==
  ASSUME NEW l, NEW m, NEW n, TakesNone(l, m), TakesInOrder(m, n)
  PROVE  TakesInOrder(l, n)
BY DEF TakesNone, TakesInOrder

(* Whatever precedes a key of the batch in the heap is of the batch.       *)
LEMMA BatchIsPrefix ==
  ASSUME NEW q, WellFormed(q, Keys), NEW allowed, NEW n \in Nat,
         NEW k \in Batch(q, allowed, n), NEW j \in q.pending, <<j, k>> \in q.ahead
  PROVE  j \in Batch(q, allowed, n)
<1>1. k \in q.pending /\ UpTo(q, k) \subseteq allowed
  BY DEF Batch
<1>2. Cardinality(UpTo(q, k)) <= Least(n, Room(q))
  BY DEF Batch
<1>3. \A i \in q.pending : <<i, j>> \in q.ahead => <<i, k>> \in q.ahead
  BY <1>1 DEF WellFormed, Ordered, Tracked
<1>4. UpTo(q, j) \subseteq UpTo(q, k)
  BY <1>3 DEF UpTo
<1>5. IsFiniteSet(UpTo(q, k))
  <2>1. UpTo(q, k) \subseteq Keys
    BY DEF UpTo, WellFormed, IsSemaphore
  <2> QED
    BY <2>1, FS_Subset, AdmissionsAssumption
<1>6. /\ Cardinality(UpTo(q, j)) \in Nat /\ Cardinality(UpTo(q, k)) \in Nat
      /\ Cardinality(UpTo(q, j)) <= Cardinality(UpTo(q, k))
  BY <1>4, <1>5, FS_Subset, FS_CardinalityType
<1>7. Room(q) \in Int
  <2>1. q.limit \in Nat /\ q.held \in Int /\ q.pending \subseteq Keys
    BY DEF WellFormed, IsSemaphore
  <2>2. Cardinality(q.pending) \in Nat
    BY <2>1, FS_Subset, FS_CardinalityType, AdmissionsAssumption
  <2> QED
    BY <2>1, <2>2 DEF Room
<1>8. Cardinality(UpTo(q, j)) <= Least(n, Room(q))
  BY <1>2, <1>6, <1>7 DEF Least
<1> QED
  BY <1>1, <1>4, <1>8 DEF Batch

(* acquireLatest in a loop (semaphore.go:138): within the limit, in order. *)
LEMMA AcquireInOrder ==
  ASSUME NEW q, WellFormed(q, Keys), PermitsMatch(q), NEW allowed, NEW n \in Nat
  PROVE  LET t == acquireBatch(q, allowed, n)
         IN  \A k \in t.running \ q.running :
               /\ t.limit = 0 \/ Cardinality(t.running) <= t.limit
               /\ \A j \in t.pending : <<j, k>> \notin t.ahead
<1> DEFINE t == acquireBatch(q, allowed, n)
           batch == Batch(q, allowed, n)
<1>1. /\ t.limit = q.limit /\ t.ahead = q.ahead
      /\ t.running = q.running \cup batch /\ t.pending = q.pending \ batch
      /\ batch # {} /\ q.limit # 0 => Cardinality(t.running) <= q.limit
  BY AcquireBatchOK, AdmissionsAssumption
<1>2. \A k \in batch, j \in q.pending : <<j, k>> \in q.ahead => j \in batch
  BY BatchIsPrefix
<1> HIDE DEF t, batch
<1>3. ASSUME NEW k \in t.running \ q.running
      PROVE  /\ t.limit = 0 \/ Cardinality(t.running) <= t.limit
             /\ \A j \in t.pending : <<j, k>> \notin t.ahead
  BY <1>1, <1>2
<1> QED
  BY <1>3 DEF t

(* acquireUnowned (queue_manager.go): slots go to unclaimed keys only.     *)
LEMMA AcquireUnownedOK ==
  ASSUME NEW m, Consistent(m), m.queue # NoQueue, NEW n \in Nat
  PROVE  LET t == [m EXCEPT !.queue = acquireBatch(@, Unclaimed(m), n)]
         IN  /\ Consistent(t) /\ t.queue # NoQueue
             /\ t.admissions = m.admissions /\ t.claims = m.claims
             /\ Keeps(m, t) /\ TakesInOrder(m, t)
<1> DEFINE q == acquireBatch(m.queue, Unclaimed(m), n)
           batch == Batch(m.queue, Unclaimed(m), n)
           t == [m EXCEPT !.queue = q]
<1>1. WellFormed(m.queue, Keys) /\ PermitsMatch(m.queue)
  BY DEF Consistent, Typed, Sound
<1>2. /\ WellFormed(q, Keys) /\ PermitsMatch(q)
      /\ q.running = m.queue.running \cup batch /\ q.pending = m.queue.pending \ batch
      /\ batch \subseteq m.queue.pending \cap Unclaimed(m)
  BY <1>1, AcquireBatchOK, AdmissionsAssumption
<1>3. \A k \in q.running \ m.queue.running :
        /\ q.limit = 0 \/ Cardinality(q.running) <= q.limit
        /\ \A j \in q.pending : <<j, k>> \notin q.ahead
  BY <1>1, AcquireInOrder
<1> HIDE DEF q, batch
<1>4. \A k \in batch : m.claims[k] = NoOwner
  BY <1>2 DEF Unclaimed
<1>5. /\ Consistent(t) /\ t.queue = q /\ t.queue # NoQueue
      /\ t.admissions = m.admissions /\ t.claims = m.claims
      /\ Keeps(m, t)
  <2>1. \A k \in Keys : m.claims[k] # NoOwner =>
           /\ k \in q.running <=> k \in m.queue.running
           /\ k \in m.queue.pending => k \in q.pending
    BY <1>2, <1>4
  <2> QED
    BY <1>2, <2>1, QueueChangeOK
<1> HIDE DEF t
<1>6. TakesInOrder(m, t)
  BY <1>3, <1>5 DEF TakesInOrder, Holds
<1> QED
  BY <1>5, <1>6 DEF t, q

----------------------------------------------------------------------------
(* A change of one owner's admission alone.                                *)
LEMMA AdmissionChangeOK ==
  ASSUME NEW m, Consistent(m), m.queue # NoQueue, NEW owner \in Owners,
         NEW a \in Admission, SlotsMatch(a, m.queue), HandsOver(a),
         \A k \in Keys : m.claims[k] = owner <=> k \in a.cands
  PROVE  LET n == [m EXCEPT !.admissions[owner] = a]
         IN  /\ Consistent(n)
             /\ n.queue = m.queue /\ n.claims = m.claims
             /\ n.admissions = [m.admissions EXCEPT ![owner] = a]
             /\ n.admissions[owner] = a /\ a # NoAdmission
             /\ \A o \in Owners \ {owner} : n.admissions[o] = m.admissions[o]
             /\ TakesNone(m, n)
             /\ (Busy(m, owner) <=> a.busy) /\ (Settled(m, owner) => a.promotion /\ a.done)
                  => Keeps(m, n)
             /\ \A o \in Owners \ {owner} : Swept(m, o) => Swept(n, o)
             /\ ~Spent(a) => Swept(n, owner)
<1> DEFINE n == [m EXCEPT !.admissions[owner] = a]
<1>1. /\ m = [queue |-> m.queue, admissions |-> m.admissions, claims |-> m.claims]
      /\ Sound(m.queue)
      /\ m.admissions \in [Owners -> Admission \cup {NoAdmission}]
      /\ m.claims \in [Keys -> Owners \cup {NoOwner}]
  BY DEF Consistent, Typed
<1>2. n = [queue |-> m.queue, admissions |-> [m.admissions EXCEPT ![owner] = a],
           claims |-> m.claims]
  BY <1>1
<1> HIDE DEF n
<1>3. /\ n = [queue |-> n.queue, admissions |-> n.admissions, claims |-> n.claims]
      /\ n.queue = m.queue /\ n.claims = m.claims
      /\ n.admissions = [m.admissions EXCEPT ![owner] = a]
  BY <1>2
<1>4. /\ n.admissions[owner] = a
      /\ \A o \in Owners \ {owner} : n.admissions[o] = m.admissions[o]
      /\ n.admissions \in [Owners -> Admission \cup {NoAdmission}]
  BY <1>1, <1>3
<1>5. Typed(n)
  BY <1>1, <1>3, <1>4 DEF Typed
<1>6. a # NoAdmission
  BY NoAdmissionIsNone
<1>7. \A k \in Keys : (Holds(n, k) <=> Holds(m, k)) /\ (Waits(m, k) => Waits(n, k))
  BY <1>3 DEF Holds, Waits
<1>8. \A o \in Owners \ {owner} : Untouched(m, n, o)
  BY <1>3, <1>4, <1>7 DEF Untouched
<1>9. \A k \in Keys : n.claims[k] = owner <=>
        n.admissions[owner] # NoAdmission /\ k \in n.admissions[owner].cands
  BY <1>3, <1>4, <1>6
<1>10. n.admissions[owner] # NoAdmission =>
         SlotsMatch(n.admissions[owner], n.queue) /\ HandsOver(n.admissions[owner])
  BY <1>3, <1>4
<1>11. /\ Consistent(n)
       /\ \A o \in Owners \ {owner} :
            /\ Busy(m, o) <=> Busy(n, o)
            /\ Settled(m, o) <=> Settled(n, o)
            /\ Swept(m, o) => Swept(n, o)
            /\ \A k \in Keys :
                 n.claims[k] = o => m.claims[k] = o /\ (Holds(m, k) => Holds(n, k))
  BY <1>3, <1>5, <1>8, <1>9, <1>10, OthersUntouched
<1>12. ASSUME Busy(m, owner) <=> a.busy, Settled(m, owner) => a.promotion /\ a.done
       PROVE  Keeps(m, n)
  <2>1. Busy(m, owner) <=> Busy(n, owner)
    BY <1>4, <1>6, <1>12 DEF Busy
  <2>2. Settled(m, owner) => Settled(n, owner)
    BY <1>4, <1>6, <1>12 DEF Settled
  <2>3. \A k \in Keys :
          n.claims[k] = owner => m.claims[k] = owner /\ (Holds(m, k) => Holds(n, k))
    BY <1>3, <1>7
  <2> QED
    BY <1>11, <2>1, <2>2, <2>3 DEF Keeps, KeepsBatches
<1>13. TakesNone(m, n)
  BY <1>7 DEF TakesNone
<1>14. ~Spent(a) => Swept(n, owner)
  BY <1>4 DEF Swept
<1> QED
  BY <1>3, <1>4, <1>6, <1>11, <1>12, <1>13, <1>14 DEF n

LEMMA NewAdmissionOK ==
  ASSUME NEW promotion \in BOOLEAN, NEW q, q # NoQueue
  PROVE  LET a == newAdmission(promotion)
         IN  /\ a \in Admission /\ a.cands = {} /\ a.promotion = promotion
             /\ ~a.busy /\ ~Spent(a)
             /\ SlotsMatch(a, q) /\ HandsOver(a)
<1> DEFINE a == newAdmission(promotion)
<1>1. /\ a \in Admission /\ a.cands = {} /\ a.reserved = {} /\ a.attempts = {}
      /\ a.promotion = promotion /\ a.busy = FALSE /\ a.done = FALSE
  BY DEF newAdmission, Admission
<1> HIDE DEF a
<1>2. SlotsMatch(a, q)
  BY <1>1 DEF SlotsMatch
<1>3. HandsOver(a) /\ ~Spent(a)
  BY <1>1 DEF HandsOver, Spent
<1> QED
  BY <1>1, <1>2, <1>3 DEF a

(* The admission an owner that had none gets (admission.go:78), after the  *)
(* owner's place is given up when it is a promotion.                       *)
LEMMA RegisteredOK ==
  ASSUME NEW m, Consistent(m), m.queue # NoQueue, NEW owner \in Owners, NEW mode
  PROVE  LET n == registered(m, owner, mode)
         IN  /\ Consistent(n) /\ n.queue # NoQueue
             /\ n.admissions[owner] # NoAdmission
             /\ m.admissions[owner] # NoAdmission => n = m
             /\ Keeps(m, n) /\ TakesNone(m, n)
             /\ \A o \in Owners : Swept(m, o) => Swept(n, o)
<1> DEFINE n == registered(m, owner, mode)
<1>1. CASE m.admissions[owner] # NoAdmission
  <2>1. n = m
    BY <1>1 DEF registered
  <2> HIDE DEF n
  <2> QED
    BY <1>1, <2>1, KeepsReflexive DEF n
<1>2. CASE m.admissions[owner] = NoAdmission
  <2> DEFINE base == IF mode = Promotion THEN removeKey(m, KeyOf(owner)) ELSE m
             a == newAdmission(mode = Promotion)
  <2>1. KeyOf(owner) \in Keys
    BY DEF KeyOf, Owners
  <2>2. /\ Consistent(base) /\ base.queue # NoQueue /\ base.admissions[owner] = NoAdmission
        /\ Keeps(m, base) /\ TakesNone(m, base)
        /\ \A o \in Owners : Swept(m, o) => Swept(base, o)
    <3>1. CASE mode = Promotion
      BY <1>2, <2>1, <3>1, RemoveKeyOK
    <3>2. CASE mode # Promotion
      BY <1>2, <3>2, KeepsReflexive
    <3> QED
      BY <3>1, <3>2
  <2>3. n = [base EXCEPT !.admissions[owner] = a]
    BY <1>2 DEF registered
  <2> HIDE DEF base
  <2>4. /\ a \in Admission /\ a.cands = {} /\ ~a.busy /\ ~Spent(a)
        /\ SlotsMatch(a, base.queue) /\ HandsOver(a)
    BY <2>2, NewAdmissionOK
  <2>5. \A k \in Keys : base.claims[k] = owner <=> k \in a.cands
    BY <2>2, <2>4 DEF Consistent, ClaimsMatch
  <2> HIDE DEF a, n
  <2>6. (Busy(base, owner) <=> a.busy) /\ (Settled(base, owner) => a.promotion /\ a.done)
    BY <2>2, <2>4 DEF Busy, Settled
  <2>7. /\ Consistent(n) /\ n.queue = base.queue
        /\ n.admissions[owner] = a /\ a # NoAdmission
        /\ TakesNone(base, n) /\ Keeps(base, n)
        /\ \A o \in Owners \ {owner} : Swept(base, o) => Swept(n, o)
        /\ Swept(n, owner)
    BY <2>2, <2>3, <2>4, <2>5, <2>6, AdmissionChangeOK
  <2>8. Keeps(m, n) /\ TakesNone(m, n)
    BY <2>2, <2>7, KeepsComposes, TakesNoneComposes
  <2> QED
    BY <1>2, <2>2, <2>7, <2>8 DEF n
<1> QED
  BY <1>1, <1>2

(* The place a finishing owner gives up when it resumes (admission.go:85). *)
LEMMA OwnerReleasedOK ==
  ASSUME NEW m, Consistent(m), m.queue # NoQueue,
         NEW owner \in Owners, m.admissions[owner] # NoAdmission,
         NEW mode, NEW finishing
  PROVE  LET n == ownerReleased(m, owner, mode, finishing)
         IN  /\ Consistent(n) /\ n.queue # NoQueue
             /\ n.admissions[owner] # NoAdmission
             /\ Keeps(m, n) /\ TakesNone(m, n)
             /\ \A o \in Owners : Swept(m, o) => Swept(n, o)
<1> DEFINE n == ownerReleased(m, owner, mode, finishing)
           moving == mode = Resume /\ finishing /\ Queued(m, KeyOf(owner))
<1>1. CASE ~moving
  <2>1. n = m
    BY <1>1 DEF ownerReleased
  <2> HIDE DEF n
  <2> QED
    BY <2>1, KeepsReflexive DEF n
<1>2. CASE moving
  <2> DEFINE a == m.admissions[owner]
             b == [a EXCEPT !.releasedOwner = TRUE]
             marked == [m EXCEPT !.admissions[owner] = b]
             freed == removeKey(marked, KeyOf(owner))
             c == freed.admissions[owner]
             d == [c EXCEPT !.done = @ \/ c.cands = {}]
  <2>1. KeyOf(owner) \in Keys
    BY DEF KeyOf, Owners
  <2>2. a \in Admission /\ SlotsMatch(a, m.queue) /\ HandsOver(a)
    BY DEF Consistent, Typed
  <2>3. \A k \in Keys : m.claims[k] = owner <=> k \in a.cands
    BY DEF Consistent, ClaimsMatch
  <2>4. [m EXCEPT !.admissions[owner].releasedOwner = TRUE] = marked
    OBVIOUS
  <2>5. n = [freed EXCEPT !.admissions[owner] = d]
    <3>1. n = [freed EXCEPT !.admissions[owner].done = @ \/ freed.admissions[owner].cands = {}]
      BY <1>2 DEF ownerReleased
    <3> HIDE DEF freed, n
    <3> QED
      BY <3>1
  <2>6. Busy(m, owner) <=> a.busy
    BY DEF Busy
  <2>7. Settled(m, owner) <=> a.promotion /\ a.done
    BY DEF Settled
  <2> HIDE DEF a
  <2>8. /\ b \in Admission /\ b.releasedOwner /\ b.busy = a.busy /\ b.promotion = a.promotion
        /\ b.done = a.done /\ b.cands = a.cands /\ b.reserved = a.reserved
        /\ b.attempts = a.attempts
    BY <2>2 DEF Admission
  <2> HIDE DEF b
  <2>9. SlotsMatch(b, m.queue) /\ HandsOver(b) /\ ~Spent(b)
    <3>1. SlotsMatch(b, m.queue)
      BY <2>2, <2>8 DEF SlotsMatch
    <3>2. HandsOver(b)
      BY <2>2, <2>8 DEF HandsOver
    <3>3. ~Spent(b)
      BY <2>8 DEF Spent
    <3> QED
      BY <3>1, <3>2, <3>3
  <2>10. \A k \in Keys : m.claims[k] = owner <=> k \in b.cands
    BY <2>3, <2>8
  <2>11. (Busy(m, owner) <=> b.busy) /\ (Settled(m, owner) => b.promotion /\ b.done)
    BY <2>6, <2>7, <2>8
  <2>12. /\ Consistent(marked) /\ marked.queue = m.queue
         /\ marked.admissions[owner] = b /\ b # NoAdmission
         /\ TakesNone(m, marked) /\ Keeps(m, marked)
         /\ \A o \in Owners : Swept(m, o) => Swept(marked, o)
    BY <2>8, <2>9, <2>10, <2>11, AdmissionChangeOK
  <2> HIDE DEF marked
  <2>13. /\ Consistent(freed) /\ freed.queue # NoQueue
         /\ Keeps(marked, freed) /\ TakesNone(marked, freed)
         /\ \A o \in Owners : Swept(marked, o) => Swept(freed, o)
         /\ c # NoAdmission /\ c.releasedOwner
    <3>1. marked.queue # NoQueue
      BY <2>12
    <3>2. /\ Consistent(freed) /\ freed.queue # NoQueue
          /\ Keeps(marked, freed) /\ TakesNone(marked, freed)
          /\ \A o \in Owners : Swept(marked, o) => Swept(freed, o)
      BY <2>1, <2>12, <3>1, RemoveKeyOK
    <3>3. \A o \in Owners : marked.admissions[o] # NoAdmission /\ marked.admissions[o].releasedOwner
            => freed.admissions[o] # NoAdmission /\ freed.admissions[o].releasedOwner
      BY <2>1, <2>12, <3>1, RemoveKeyOK
    <3>4. c # NoAdmission /\ c.releasedOwner
      BY <2>8, <2>12, <3>3
    <3> QED
      BY <3>2, <3>4
  <2> HIDE DEF freed
  <2>14. c \in Admission /\ SlotsMatch(c, freed.queue) /\ HandsOver(c)
    BY <2>13 DEF Consistent, Typed
  <2>15. \A k \in Keys : freed.claims[k] = owner <=> k \in c.cands
    BY <2>13 DEF Consistent, ClaimsMatch
  <2>16. (Busy(freed, owner) <=> c.busy) /\ (Settled(freed, owner) <=> c.promotion /\ c.done)
    BY <2>13 DEF Busy, Settled
  <2> HIDE DEF c
  <2>17. /\ d \in Admission /\ d.releasedOwner /\ d.busy = c.busy /\ d.promotion = c.promotion
         /\ d.done = (c.done \/ c.cands = {}) /\ d.cands = c.cands /\ d.reserved = c.reserved
         /\ d.attempts = c.attempts
    BY <2>13, <2>14 DEF Admission
  <2> HIDE DEF d
  <2>18. SlotsMatch(d, freed.queue) /\ HandsOver(d) /\ ~Spent(d)
    <3>1. SlotsMatch(d, freed.queue)
      BY <2>14, <2>17 DEF SlotsMatch
    <3>2. HandsOver(d)
      BY <2>14, <2>17 DEF HandsOver
    <3>3. ~Spent(d)
      BY <2>17 DEF Spent
    <3> QED
      BY <3>1, <3>2, <3>3
  <2>19. \A k \in Keys : freed.claims[k] = owner <=> k \in d.cands
    BY <2>15, <2>17
  <2>20. (Busy(freed, owner) <=> d.busy) /\ (Settled(freed, owner) => d.promotion /\ d.done)
    BY <2>16, <2>17
  <2> HIDE DEF n
  <2>21. /\ Consistent(n) /\ n.queue = freed.queue
         /\ n.admissions[owner] = d /\ d # NoAdmission
         /\ TakesNone(freed, n) /\ Keeps(freed, n)
         /\ \A o \in Owners : Swept(freed, o) => Swept(n, o)
    BY <2>5, <2>13, <2>17, <2>18, <2>19, <2>20, AdmissionChangeOK
  <2>22. Keeps(m, n)
    BY <2>12, <2>13, <2>21, KeepsComposes
  <2>23. TakesNone(m, n)
    BY <2>12, <2>13, <2>21, TakesNoneComposes
  <2> QED
    BY <2>12, <2>13, <2>21, <2>22, <2>23 DEF n
<1> QED
  BY <1>1, <1>2

----------------------------------------------------------------------------
LEMMA SizesAreNat ==
  ASSUME NEW set \in SUBSET Keys
  PROVE  IsFiniteSet(set) /\ Cardinality(set) \in Nat
BY FS_Subset, FS_CardinalityType, AdmissionsAssumption

(* What reservedAgain changes.                                             *)
LEMMA ReservedAgainView ==
  ASSUME NEW m, Consistent(m), NEW owner \in Owners
  PROVE  LET a       == m.admissions[owner]
             waiting == a.cands \ a.reserved
             size    == Cardinality(waiting)
             batch   == Batch(m.queue, waiting, size)
         IN  reservedAgain(m, owner) =
               [queue |-> acquireBatch(m.queue, waiting, size),
                admissions |-> [m.admissions EXCEPT
                                  ![owner] = [a EXCEPT !.reserved = @ \cup batch]],
                claims |-> m.claims]
<1> DEFINE n == reservedAgain(m, owner)
           a == m.admissions[owner]
           waiting == a.cands \ a.reserved
           size == Cardinality(waiting)
           batch == Batch(m.queue, waiting, size)
           q == acquireBatch(m.queue, waiting, size)
           b == [a EXCEPT !.reserved = @ \cup batch]
           l == [m EXCEPT !.queue = q]
<1>1. /\ m = [queue |-> m.queue, admissions |-> m.admissions, claims |-> m.claims]
      /\ m.admissions \in [Owners -> Admission \cup {NoAdmission}]
  BY DEF Consistent, Typed
<1>2. n = [m EXCEPT !.queue = q, !.admissions[owner].reserved = @ \cup batch]
  BY DEF reservedAgain
<1> HIDE DEF q, batch, size
<1>3. l = [queue |-> q, admissions |-> m.admissions, claims |-> m.claims]
  BY <1>1
<1>4. n = [l EXCEPT !.admissions[owner].reserved = @ \cup batch]
  BY <1>2
<1> HIDE DEF l, n
<1>5. n = [queue |-> q, admissions |-> [m.admissions EXCEPT ![owner] = b],
           claims |-> m.claims]
  BY <1>1, <1>3, <1>4
<1> QED
  BY <1>5 DEF n, q, batch, size

(* Candidates that were put back take slots again (admission.go:149): only *)
(* the owner's own candidates do.                                          *)
LEMMA ReservedAgainOK ==
  ASSUME NEW m, Consistent(m), m.queue # NoQueue,
         NEW owner \in Owners, m.admissions[owner] # NoAdmission
  PROVE  LET n == reservedAgain(m, owner)
         IN  /\ Consistent(n) /\ n.queue # NoQueue
             /\ n.admissions[owner] # NoAdmission
             /\ n.admissions[owner].cands = m.admissions[owner].cands
             /\ Keeps(m, n) /\ TakesInOrder(m, n)
             /\ m.admissions[owner].cands = {} => TakesNone(m, n)
             /\ \A o \in Owners : Swept(m, o) => Swept(n, o)
<1> DEFINE n == reservedAgain(m, owner)
           a == m.admissions[owner]
           waiting == a.cands \ a.reserved
           size == Cardinality(waiting)
           batch == Batch(m.queue, waiting, size)
           q == acquireBatch(m.queue, waiting, size)
           b == [a EXCEPT !.reserved = @ \cup batch]
<1>1. /\ m = [queue |-> m.queue, admissions |-> m.admissions, claims |-> m.claims]
      /\ m.admissions \in [Owners -> Admission \cup {NoAdmission}]
      /\ m.claims \in [Keys -> Owners \cup {NoOwner}]
      /\ WellFormed(m.queue, Keys) /\ PermitsMatch(m.queue)
  BY DEF Consistent, Typed, Sound
<1>2. a \in Admission /\ SlotsMatch(a, m.queue) /\ HandsOver(a)
  BY DEF Consistent, Typed
<1>3. \A k \in Keys : m.claims[k] = owner <=> k \in a.cands
  BY DEF Consistent, ClaimsMatch
<1>4. size \in Nat
  <2>1. waiting \in SUBSET Keys
    BY <1>2 DEF Admission
  <2> QED
    BY <2>1, SizesAreNat
<1>5. /\ WellFormed(q, Keys) /\ PermitsMatch(q)
      /\ q.running = m.queue.running \cup batch /\ q.pending = m.queue.pending \ batch
      /\ batch \subseteq m.queue.pending \cap waiting
  <2> HIDE DEF waiting, size
  <2> QED
    BY <1>1, <1>4, AcquireBatchOK, AdmissionsAssumption
<1>6. \A k \in q.running \ m.queue.running :
        /\ q.limit = 0 \/ Cardinality(q.running) <= q.limit
        /\ \A j \in q.pending : <<j, k>> \notin q.ahead
  BY <1>1, <1>4, AcquireInOrder
<1>7. (Busy(m, owner) <=> a.busy) /\ (Settled(m, owner) <=> a.promotion /\ a.done)
      /\ (Swept(m, owner) <=> ~Spent(a))
  BY DEF Busy, Settled, Swept
<1>9. n = [queue |-> q, admissions |-> [m.admissions EXCEPT ![owner] = b],
           claims |-> m.claims]
  BY ReservedAgainView
<1> HIDE DEF q, batch, size
<1> HIDE DEF n
<1>10. /\ n = [queue |-> n.queue, admissions |-> n.admissions, claims |-> n.claims]
       /\ n.queue = q /\ n.claims = m.claims
       /\ n.admissions = [m.admissions EXCEPT ![owner] = b]
  BY <1>9
<1> HIDE DEF a
<1>11. /\ b \in Admission /\ b.promotion = a.promotion /\ b.busy = a.busy /\ b.done = a.done
       /\ b.releasedOwner = a.releasedOwner
       /\ b.cands = a.cands /\ b.reserved = a.reserved \cup batch /\ b.attempts = a.attempts
  BY <1>2, <1>5 DEF Admission
<1> HIDE DEF b
<1>12. b # NoAdmission /\ q # NoQueue /\ Sound(q)
  BY <1>5, <1>11, NoAdmissionIsNone, SoundQueue
<1>13. /\ n.admissions[owner] = b
       /\ \A o \in Owners \ {owner} : n.admissions[o] = m.admissions[o]
       /\ n.admissions \in [Owners -> Admission \cup {NoAdmission}]
  BY <1>1, <1>10, <1>11
<1>14. Typed(n)
  BY <1>1, <1>10, <1>12, <1>13 DEF Typed
<1>15. \A k \in batch : k \in Keys /\ m.claims[k] = owner
  BY <1>2, <1>3, <1>5 DEF Admission
<1>16. \A o \in Owners \ {owner} : Untouched(m, n, o)
  <2> SUFFICES ASSUME NEW o \in Owners \ {owner} PROVE Untouched(m, n, o)
    OBVIOUS
  <2>1. ASSUME NEW k \in Keys, m.claims[k] = o
        PROVE  (Holds(n, k) <=> Holds(m, k)) /\ (Waits(m, k) => Waits(n, k))
    BY <1>5, <1>10, <1>12, <1>15, <2>1 DEF Holds, Waits
  <2> QED
    BY <1>10, <1>13, <2>1 DEF Untouched
<1>17. SlotsMatch(b, q) /\ HandsOver(b)
  <2>1. SlotsMatch(b, q)
    BY <1>2, <1>5, <1>11, <1>12 DEF SlotsMatch
  <2>2. HandsOver(b)
    BY <1>2, <1>11 DEF HandsOver
  <2> QED
    BY <2>1, <2>2
<1>18. \A k \in Keys : n.claims[k] = owner <=>
         n.admissions[owner] # NoAdmission /\ k \in n.admissions[owner].cands
  BY <1>3, <1>10, <1>11, <1>12, <1>13
<1>19. /\ Consistent(n)
       /\ \A o \in Owners \ {owner} :
            /\ Busy(m, o) <=> Busy(n, o)
            /\ Settled(m, o) <=> Settled(n, o)
            /\ Swept(m, o) => Swept(n, o)
            /\ \A k \in Keys :
                 n.claims[k] = o => m.claims[k] = o /\ (Holds(m, k) => Holds(n, k))
  BY <1>10, <1>12, <1>13, <1>14, <1>16, <1>17, <1>18, OthersUntouched
<1>20. Keeps(m, n)
  <2>1. Busy(m, owner) <=> Busy(n, owner)
    BY <1>7, <1>11, <1>12, <1>13 DEF Busy
  <2>2. Settled(m, owner) => Settled(n, owner)
    BY <1>7, <1>11, <1>12, <1>13 DEF Settled
  <2>3. \A k \in Keys :
          n.claims[k] = owner => m.claims[k] = owner /\ (Holds(m, k) => Holds(n, k))
    BY <1>5, <1>10, <1>12 DEF Holds
  <2> QED
    BY <1>19, <2>1, <2>2, <2>3 DEF Keeps, KeepsBatches
<1>21. TakesInOrder(m, n)
  BY <1>6, <1>10, <1>12 DEF TakesInOrder, Holds
<1>22. a.cands = {} => TakesNone(m, n)
  BY <1>5, <1>10 DEF TakesNone, Holds
<1>23. Swept(m, owner) => Swept(n, owner)
  <2>1. Spent(b) <=> Spent(a)
    BY <1>11 DEF Spent
  <2> QED
    BY <1>7, <1>13, <2>1 DEF Swept
<1> QED
  BY <1>10, <1>11, <1>12, <1>13, <1>19, <1>20, <1>21, <1>22, <1>23 DEF n, a

LEMMA SizeOfBatch ==
  ASSUME NEW q, WellFormed(q, Keys), NEW promotion
  PROVE  (IF promotion THEN 1
          ELSE IF q.limit = 0 THEN Cardinality(q.pending) ELSE q.limit) \in Nat
<1>1. q.pending \in SUBSET Keys /\ q.limit \in Nat
  BY DEF WellFormed, IsSemaphore
<1>2. Cardinality(q.pending) \in Nat
  BY <1>1, SizesAreNat
<1> QED
  BY <1>1, <1>2

LEMMA OneInABatchOfOne ==
  ASSUME NEW q, WellFormed(q, Keys), NEW allowed
  PROVE  \A j, k \in Batch(q, allowed, 1) : j = k
<1> DEFINE batch == Batch(q, allowed, 1)
<1>1. IsFiniteSet(batch) /\ (batch # {} => Cardinality(batch) <= 1)
  BY BatchBound, AdmissionsAssumption
<1> HIDE DEF batch
<1>2. ASSUME NEW j \in batch, NEW k \in batch PROVE j = k
  <2>1. Cardinality(batch) = 1
    BY <1>1, FS_EmptySet, FS_CardinalityType
  <2>2. PICK x : batch = {x}
    BY <1>1, <2>1, FS_Singleton
  <2> QED
    BY <2>2
<1> QED
  BY <1>2 DEF batch

(* What filled changes when it takes a batch.                              *)
LEMMA FilledView ==
  ASSUME NEW m, Consistent(m), NEW owner \in Owners,
         m.admissions[owner].cands = {}, ~m.admissions[owner].done
  PROVE  LET a     == m.admissions[owner]
             size  == IF a.promotion THEN 1
                      ELSE IF m.queue.limit = 0 THEN Cardinality(m.queue.pending)
                      ELSE m.queue.limit
             batch == Batch(m.queue, Unclaimed(m), size)
             over  == batch = {} /\ nextPending(m.queue) \subseteq Unclaimed(m)
             b     == [a EXCEPT !.cands = batch, !.reserved = batch, !.done = over]
         IN  filled(m, owner) =
               [queue |-> acquireBatch(m.queue, Unclaimed(m), size),
                admissions |-> [m.admissions EXCEPT ![owner] = b],
                claims |-> [k \in Keys |-> IF k \in batch THEN owner ELSE m.claims[k]]]
<1> DEFINE n == filled(m, owner)
           a == m.admissions[owner]
           size == IF a.promotion THEN 1
                   ELSE IF m.queue.limit = 0 THEN Cardinality(m.queue.pending)
                   ELSE m.queue.limit
           batch == Batch(m.queue, Unclaimed(m), size)
           q == acquireBatch(m.queue, Unclaimed(m), size)
           over == batch = {} /\ nextPending(m.queue) \subseteq Unclaimed(m)
           b == [a EXCEPT !.cands = batch, !.reserved = batch, !.done = over]
           cl == [k \in Keys |-> IF k \in batch THEN owner ELSE m.claims[k]]
<1>1. /\ m = [queue |-> m.queue, admissions |-> m.admissions, claims |-> m.claims]
      /\ m.admissions \in [Owners -> Admission \cup {NoAdmission}]
  BY DEF Consistent, Typed
<1>8. n = [m EXCEPT !.queue = q, !.claims = cl, !.admissions[owner].cands = batch,
                    !.admissions[owner].reserved = batch, !.admissions[owner].done = over]
  BY DEF filled
<1> HIDE DEF size, q, batch, over, cl
<1>9. n = [queue |-> q, admissions |-> [m.admissions EXCEPT ![owner] = b], claims |-> cl]
  <2> DEFINE l1 == [m EXCEPT !.queue = q]
             l2 == [l1 EXCEPT !.claims = cl]
             l3 == [l2 EXCEPT !.admissions[owner].cands = batch]
             l4 == [l3 EXCEPT !.admissions[owner].reserved = batch]
             b1 == [a EXCEPT !.cands = batch]
             b2 == [b1 EXCEPT !.reserved = batch]
  <2>1. l1 = [queue |-> q, admissions |-> m.admissions, claims |-> m.claims]
    BY <1>1
  <2>2. n = [l4 EXCEPT !.admissions[owner].done = over]
    BY <1>8
  <2>3. b = [b2 EXCEPT !.done = over]
    OBVIOUS
  <2> HIDE DEF n, l1, b
  <2>4. l2 = [queue |-> q, admissions |-> m.admissions, claims |-> cl]
    BY <2>1
  <2> HIDE DEF l2
  <2>5. l3 = [queue |-> q, admissions |-> [m.admissions EXCEPT ![owner] = b1], claims |-> cl]
    BY <2>4
  <2> HIDE DEF l3, b1
  <2>6. l4 = [queue |-> q, admissions |-> [m.admissions EXCEPT ![owner] = b2], claims |-> cl]
    <3>1. [m.admissions EXCEPT ![owner] = b1][owner] = b1
      BY <1>1
    <3>2. l4 = [queue |-> q, claims |-> cl,
                admissions |-> [[m.admissions EXCEPT ![owner] = b1] EXCEPT ![owner] = b2]]
      BY <2>5, <3>1
    <3> HIDE DEF l4, b2
    <3> QED
      BY <1>1, <3>2
  <2> HIDE DEF l4, b2
  <2>7. [m.admissions EXCEPT ![owner] = b2][owner] = b2
    BY <1>1
  <2>8. n = [queue |-> q, claims |-> cl,
             admissions |-> [[m.admissions EXCEPT ![owner] = b2] EXCEPT ![owner] = b]]
    BY <2>2, <2>3, <2>6, <2>7
  <2> QED
    BY <1>1, <2>8
<1> QED
  BY <1>9 DEF n, size, q, batch, over, cl

(* The batch an admission takes once (admission.go:160): unclaimed keys,   *)
(* one for a promotion.                                                    *)
LEMMA FilledOK ==
  ASSUME NEW m, Consistent(m), m.queue # NoQueue,
         NEW owner \in Owners, m.admissions[owner] # NoAdmission, ~Busy(m, owner)
  PROVE  LET n == filled(m, owner)
         IN  /\ Consistent(n) /\ n.queue # NoQueue
             /\ n.admissions[owner] # NoAdmission
             /\ m.admissions[owner].cands # {} => n = m
             /\ Keeps(m, n) /\ TakesInOrder(m, n)
             /\ \A o \in Owners \ {owner} : Swept(m, o) => Swept(n, o)
<1> DEFINE n == filled(m, owner)
           a == m.admissions[owner]
<1>1. CASE a.cands # {} \/ a.done
  <2>1. n = m
    BY <1>1 DEF filled
  <2> HIDE DEF n
  <2>2. TakesInOrder(m, m)
    BY DEF TakesInOrder
  <2> QED
    BY <2>1, <2>2, KeepsReflexive DEF n
<1>2. CASE a.cands = {} /\ ~a.done
  <2> DEFINE size == IF a.promotion THEN 1
                     ELSE IF m.queue.limit = 0 THEN Cardinality(m.queue.pending)
                     ELSE m.queue.limit
             batch == Batch(m.queue, Unclaimed(m), size)
             q == acquireBatch(m.queue, Unclaimed(m), size)
             over == batch = {} /\ nextPending(m.queue) \subseteq Unclaimed(m)
             b == [a EXCEPT !.cands = batch, !.reserved = batch, !.done = over]
             cl == [k \in Keys |-> IF k \in batch THEN owner ELSE m.claims[k]]
  <2>1. /\ m = [queue |-> m.queue, admissions |-> m.admissions, claims |-> m.claims]
        /\ m.admissions \in [Owners -> Admission \cup {NoAdmission}]
        /\ m.claims \in [Keys -> Owners \cup {NoOwner}]
        /\ WellFormed(m.queue, Keys) /\ PermitsMatch(m.queue)
    BY DEF Consistent, Typed, Sound
  <2>2. a \in Admission /\ SlotsMatch(a, m.queue) /\ HandsOver(a)
    BY DEF Consistent, Typed
  <2>3. \A k \in Keys : m.claims[k] = owner <=> k \in a.cands
    BY DEF Consistent, ClaimsMatch
  <2>4. size \in Nat
    BY <2>1, SizeOfBatch
  <2>5. /\ WellFormed(q, Keys) /\ PermitsMatch(q)
        /\ q.running = m.queue.running \cup batch /\ q.pending = m.queue.pending \ batch
        /\ batch \subseteq m.queue.pending \cap Unclaimed(m)
        /\ \A k \in q.running \ m.queue.running :
             /\ q.limit = 0 \/ Cardinality(q.running) <= q.limit
             /\ \A j \in q.pending : <<j, k>> \notin q.ahead
    <3> HIDE DEF size
    <3>1. /\ WellFormed(q, Keys) /\ PermitsMatch(q)
          /\ q.running = m.queue.running \cup batch /\ q.pending = m.queue.pending \ batch
          /\ batch \subseteq m.queue.pending \cap Unclaimed(m)
      BY <2>1, <2>4, AcquireBatchOK, AdmissionsAssumption
    <3>2. \A k \in q.running \ m.queue.running :
             /\ q.limit = 0 \/ Cardinality(q.running) <= q.limit
             /\ \A j \in q.pending : <<j, k>> \notin q.ahead
      BY <2>1, <2>4, AcquireInOrder
    <3> QED
      BY <3>1, <3>2
  <2>6. a.promotion => \A j, k \in batch : j = k
    BY <2>1, OneInABatchOfOne
  <2>7. ~a.busy
    BY DEF Busy
  <2>9. n = [queue |-> q, admissions |-> [m.admissions EXCEPT ![owner] = b], claims |-> cl]
    BY <1>2, FilledView
  <2> HIDE DEF size, q, batch, over, cl
  <2> HIDE DEF n
  <2>10. /\ n = [queue |-> n.queue, admissions |-> n.admissions, claims |-> n.claims]
         /\ n.queue = q /\ n.claims = cl
         /\ n.admissions = [m.admissions EXCEPT ![owner] = b]
    BY <2>9
  <2> HIDE DEF a
  <2>11. over \in BOOLEAN /\ (over => batch = {}) /\ batch \in SUBSET Keys
    BY <2>1, <2>5 DEF over, Unclaimed
  <2>12. /\ b \in Admission /\ b.promotion = a.promotion /\ b.busy = a.busy /\ b.done = over
         /\ b.releasedOwner = a.releasedOwner
         /\ b.cands = batch /\ b.reserved = batch /\ b.attempts = a.attempts
    BY <2>2, <2>11 DEF Admission
  <2> HIDE DEF b
  <2>13. b # NoAdmission /\ q # NoQueue /\ Sound(q)
    BY <2>5, <2>12, NoAdmissionIsNone, SoundQueue
  <2>14. cl \in [Keys -> Owners \cup {NoOwner}] /\ \A k \in Keys :
           cl[k] = IF k \in batch THEN owner ELSE m.claims[k]
    BY <2>1 DEF cl
  <2>15. /\ n.admissions[owner] = b
         /\ \A o \in Owners \ {owner} : n.admissions[o] = m.admissions[o]
         /\ n.admissions \in [Owners -> Admission \cup {NoAdmission}]
    BY <2>1, <2>10, <2>12
  <2>16. Typed(n)
    BY <2>10, <2>13, <2>14, <2>15 DEF Typed
  <2>17. \A k \in batch : k \in Keys /\ m.claims[k] = NoOwner
    BY <2>5 DEF Unclaimed
  <2>18. \A k \in Keys, o \in Owners \ {owner} : n.claims[k] = o <=> m.claims[k] = o
    BY <2>10, <2>14, <2>17, OwnersAreSome
  <2>19. \A o \in Owners \ {owner} : Untouched(m, n, o)
    <3> SUFFICES ASSUME NEW o \in Owners \ {owner} PROVE Untouched(m, n, o)
      OBVIOUS
    <3>1. ASSUME NEW k \in Keys, m.claims[k] = o
          PROVE  (Holds(n, k) <=> Holds(m, k)) /\ (Waits(m, k) => Waits(n, k))
      BY <2>5, <2>10, <2>13, <2>17, <3>1, OwnersAreSome DEF Holds, Waits
    <3> QED
      BY <2>15, <2>18, <3>1 DEF Untouched
  <2>20. SlotsMatch(b, q) /\ HandsOver(b)
    <3>1. a.attempts = {}
      BY <1>2, <2>2 DEF SlotsMatch, a
    <3>2. SlotsMatch(b, q)
      BY <2>5, <2>12, <2>13, <3>1 DEF SlotsMatch
    <3>3. HandsOver(b)
      BY <2>6, <2>11, <2>12 DEF HandsOver
    <3> QED
      BY <3>2, <3>3
  <2>21. \A k \in Keys : n.claims[k] = owner <=>
           n.admissions[owner] # NoAdmission /\ k \in n.admissions[owner].cands
    <3>1. \A k \in Keys : m.claims[k] # owner
      BY <1>2, <2>3 DEF a
    <3> QED
      BY <2>10, <2>12, <2>13, <2>14, <2>15, <3>1
  <2>22. /\ Consistent(n)
         /\ \A o \in Owners \ {owner} :
              /\ Busy(m, o) <=> Busy(n, o)
              /\ Settled(m, o) <=> Settled(n, o)
              /\ Swept(m, o) => Swept(n, o)
              /\ \A k \in Keys :
                   n.claims[k] = o => m.claims[k] = o /\ (Holds(m, k) => Holds(n, k))
    BY <2>10, <2>13, <2>15, <2>16, <2>19, <2>20, <2>21, OthersUntouched
  <2>23. ~Busy(m, owner) /\ ~Busy(n, owner)
    BY <2>7, <2>12, <2>13, <2>15 DEF Busy
  <2>24. ~Settled(m, owner)
    BY <1>2 DEF Settled, a
  <2>25. Keeps(m, n)
    BY <2>22, <2>23, <2>24 DEF Keeps, KeepsBatches
  <2>26. TakesInOrder(m, n)
    BY <2>5, <2>10, <2>13 DEF TakesInOrder, Holds
  <2> QED
    BY <1>2, <2>10, <2>13, <2>15, <2>22, <2>25, <2>26 DEF n, a
<1> QED
  BY <1>1, <1>2

(* AcquireAdmission up to its last errors (admission.go:60): every other   *)
(* owner's batch is as it was, and slots are taken in order.               *)
LEMMA PreparedOK ==
  ASSUME NEW m, Consistent(m), NEW owner \in Owners, ~Busy(m, owner),
         NEW list \in Seq(Keys), NEW mode, NEW finishing, NEW limit \in Nat
  PROVE  LET n == prepared(m, owner, list, mode, finishing, limit)
         IN  /\ Consistent(n) /\ n.queue # NoQueue
             /\ n.admissions[owner] # NoAdmission
             /\ Keeps(m, n) /\ TakesInOrder(m, n)
             /\ \A o \in Owners \ {owner} : Swept(m, o) => Swept(n, o)
<1> DEFINE m1 == getSemaphore(m, limit)
           m2 == registered(m1, owner, mode)
           m3 == ownerReleased(m2, owner, mode, finishing)
           m4 == listed(m3, list)
           m5 == reservedAgain(m4, owner)
           n == filled(m5, owner)
<1>1. prepared(m, owner, list, mode, finishing, limit) = n
  BY DEF prepared
<1>2. /\ Consistent(m1) /\ m1.queue # NoQueue /\ m1.admissions = m.admissions
      /\ Keeps(m, m1) /\ TakesNone(m, m1)
  BY GetSemaphoreOK
<1> HIDE DEF m1
<1>3. /\ Consistent(m2) /\ m2.queue # NoQueue /\ m2.admissions[owner] # NoAdmission
      /\ Keeps(m1, m2) /\ TakesNone(m1, m2)
      /\ \A o \in Owners : Swept(m1, o) => Swept(m2, o)
  BY <1>2, RegisteredOK
<1> HIDE DEF m2
<1>4. /\ Consistent(m3) /\ m3.queue # NoQueue /\ m3.admissions[owner] # NoAdmission
      /\ Keeps(m2, m3) /\ TakesNone(m2, m3)
      /\ \A o \in Owners : Swept(m2, o) => Swept(m3, o)
  BY <1>3, OwnerReleasedOK
<1> HIDE DEF m3
<1>5. /\ Consistent(m4) /\ m4.queue # NoQueue /\ m4.admissions = m3.admissions
      /\ Keeps(m3, m4) /\ TakesNone(m3, m4)
  BY <1>4, ListedOK
<1> HIDE DEF m4
<1>6. m4.admissions[owner] # NoAdmission
  BY <1>4, <1>5
<1>7. /\ Consistent(m5) /\ m5.queue # NoQueue /\ m5.admissions[owner] # NoAdmission
      /\ m5.admissions[owner].cands = m4.admissions[owner].cands
      /\ Keeps(m4, m5) /\ TakesInOrder(m4, m5)
      /\ m4.admissions[owner].cands = {} => TakesNone(m4, m5)
      /\ \A o \in Owners : Swept(m4, o) => Swept(m5, o)
  BY <1>5, <1>6, ReservedAgainOK
<1> HIDE DEF m5
<1>8. Keeps(m, m4)
  BY <1>2, <1>3, <1>4, <1>5, KeepsComposes
<1>9. Keeps(m, m5)
  BY <1>7, <1>8, KeepsComposes
<1>10. ~Busy(m5, owner)
  BY <1>9 DEF Keeps, KeepsBatches
<1>11. /\ Consistent(n) /\ n.queue # NoQueue /\ n.admissions[owner] # NoAdmission
       /\ m5.admissions[owner].cands # {} => n = m5
       /\ Keeps(m5, n) /\ TakesInOrder(m5, n)
       /\ \A o \in Owners \ {owner} : Swept(m5, o) => Swept(n, o)
  BY <1>7, <1>10, FilledOK
<1> HIDE DEF n
<1>12. Keeps(m, n)
  BY <1>9, <1>11, KeepsComposes
<1>13. TakesNone(m, m4)
  BY <1>2, <1>3, <1>4, <1>5, TakesNoneComposes
<1>14. TakesInOrder(m4, n)
  <2>1. CASE m5.admissions[owner].cands # {}
    BY <2>1, <1>7, <1>11
  <2>2. CASE m5.admissions[owner].cands = {}
    BY <2>2, <1>7, <1>11, TakesNoneFirst
  <2> QED
    BY <2>1, <2>2
<1>15. TakesInOrder(m, n)
  BY <1>13, <1>14, TakesNoneFirst
<1>16. \A o \in Owners \ {owner} : Swept(m, o) => Swept(n, o)
  <2>1. \A o \in Owners : (Swept(m, o) => Swept(m1, o)) /\ (Swept(m3, o) => Swept(m4, o))
    BY <1>2, <1>5 DEF Swept
  <2> QED
    BY <1>3, <1>4, <1>7, <1>11, <2>1
<1> QED
  BY <1>1, <1>11, <1>12, <1>15, <1>16

----------------------------------------------------------------------------
\* What another owner's step leaves of o's admission and batch.
Spared(m, n, o) ==
  /\ n.admissions[o] = m.admissions[o]
  /\ Busy(m, o) <=> Busy(n, o)
  /\ Swept(m, o) => Swept(n, o)
  /\ \A k \in Keys :
       n.claims[k] = o => m.claims[k] = o /\ (Holds(m, k) => Holds(n, k))

(* What recorded leaves of the owner's admission, and the candidates it    *)
(* takes the slot from.                                                    *)
Unsent(m, live, succeeded, gone, attempts) ==
  {k \in live \ (live \cap (succeeded \cup gone)) : \A t \in attempts : t[1] # k}
    \cap m.queue.running

AfterBatch(m, owner, live, succeeded, gone, attempts) ==
  LET over == live \cap (succeeded \cup gone)
      again == live \ over
      left == Without(m.admissions[owner], over)
      tried == {t \in left.attempts : t[1] \notin again} \cup {t \in attempts : t[1] \in again}
      finished == left.done \/ live \cap succeeded # {}
      b == [left EXCEPT !.busy = FALSE, !.done = finished,
                        !.reserved = @ \ Unsent(m, live, succeeded, gone, attempts),
                        !.attempts = tried]
      over2 == ~b.promotion /\ b.cands = {}
  IN  IF over2 /\ b.releasedOwner THEN [b EXCEPT !.promotion = TRUE, !.done = FALSE]
      ELSE IF over2 /\ b.done THEN NoAdmission ELSE b

(* What recorded changes.                                                  *)
IsRecorded(n, m, owner, live, succeeded, gone, attempts) ==
  LET q == removeFromQueue(release(requeue(m.queue,
                              Unsent(m, live, succeeded, gone, attempts)),
                            live \cap gone), live \cap gone)
      cl == [k \in Keys |-> IF k \in live \cap (succeeded \cup gone)
                            THEN NoOwner ELSE m.claims[k]]
      c == AfterBatch(m, owner, live, succeeded, gone, attempts)
  IN  n = [queue |-> q, admissions |-> [m.admissions EXCEPT ![owner] = c], claims |-> cl]

LEMMA RecordedView ==
  ASSUME NEW m, Consistent(m), NEW owner \in Owners, NEW live,
         NEW succeeded, NEW gone, NEW attempts
  PROVE  IsRecorded(recorded(m, owner, live, succeeded, gone, attempts),
                    m, owner, live, succeeded, gone, attempts)
<1> DEFINE n == recorded(m, owner, live, succeeded, gone, attempts)
           q == removeFromQueue(release(requeue(m.queue,
                                   Unsent(m, live, succeeded, gone, attempts)),
                                 live \cap gone), live \cap gone)
           cl == [k \in Keys |-> IF k \in live \cap (succeeded \cup gone)
                                 THEN NoOwner ELSE m.claims[k]]
           c == AfterBatch(m, owner, live, succeeded, gone, attempts)
           l1 == [m EXCEPT !.queue = q]
           l2 == [l1 EXCEPT !.claims = cl]
<1>1. m = [queue |-> m.queue, admissions |-> m.admissions, claims |-> m.claims]
  BY DEF Consistent, Typed
<1>2. n = [m EXCEPT !.queue = q, !.claims = cl, !.admissions[owner] = c]
  BY DEF recorded, AfterBatch, Unsent
<1>3. n = [l2 EXCEPT !.admissions[owner] = c]
  BY <1>2
<1> HIDE DEF q, cl, c, n
<1>4. l1 = [queue |-> q, admissions |-> m.admissions, claims |-> m.claims]
  BY <1>1
<1> HIDE DEF l1
<1>5. l2 = [queue |-> q, admissions |-> m.admissions, claims |-> cl]
  BY <1>4
<1> HIDE DEF l2
<1>6. n = [queue |-> q, admissions |-> [m.admissions EXCEPT ![owner] = c], claims |-> cl]
  BY <1>3, <1>5
<1> QED
  BY <1>6 DEF n, q, cl, c, IsRecorded

(* FinishAdmission's results (admission.go:194): the owner's batch is the  *)
(* only one whose slots change, and it takes none.                         *)
LEMMA RecordedOK ==
  ASSUME NEW m, Consistent(m), m.queue # NoQueue,
         NEW owner \in Owners, m.admissions[owner] # NoAdmission,
         NEW live \in SUBSET Keys,
         \A k \in live : m.claims[k] = owner /\ k \in m.queue.running,
         NEW succeeded, NEW gone, NEW attempts \in SUBSET (Keys \X UIDs)
  PROVE  LET n == recorded(m, owner, live, succeeded, gone, attempts)
         IN  /\ Consistent(n) /\ n.queue # NoQueue
             /\ ~Busy(n, owner) /\ Swept(n, owner)
             /\ TakesNone(m, n)
             /\ \A o \in Owners \ {owner} : Spared(m, n, o)
<1> DEFINE n == recorded(m, owner, live, succeeded, gone, attempts)
           a == m.admissions[owner]
           over == live \cap (succeeded \cup gone)
           again == live \ over
           unsent == {k \in again : \A t \in attempts : t[1] # k} \cap m.queue.running
           left == Without(a, over)
           tried == {t \in left.attempts : t[1] \notin again} \cup {t \in attempts : t[1] \in again}
           finished == left.done \/ live \cap succeeded # {}
           b == [left EXCEPT !.busy = FALSE, !.done = finished,
                             !.reserved = @ \ unsent, !.attempts = tried]
           over2 == ~b.promotion /\ b.cands = {}
           c == IF over2 /\ b.releasedOwner THEN [b EXCEPT !.promotion = TRUE, !.done = FALSE]
                ELSE IF over2 /\ b.done THEN NoAdmission ELSE b
           q1 == requeue(m.queue, unsent)
           q2 == release(q1, live \cap gone)
           q == removeFromQueue(q2, live \cap gone)
           cl == [k \in Keys |-> IF k \in over THEN NoOwner ELSE m.claims[k]]
<1>1. /\ m = [queue |-> m.queue, admissions |-> m.admissions, claims |-> m.claims]
      /\ m.admissions \in [Owners -> Admission \cup {NoAdmission}]
      /\ m.claims \in [Keys -> Owners \cup {NoOwner}]
      /\ WellFormed(m.queue, Keys) /\ PermitsMatch(m.queue)
  BY DEF Consistent, Typed, Sound
<1>2. a \in Admission /\ SlotsMatch(a, m.queue) /\ HandsOver(a)
  BY DEF Consistent, Typed
<1>3. \A k \in Keys : m.claims[k] = owner <=> k \in a.cands
  BY DEF Consistent, ClaimsMatch
<1>4. live \subseteq a.reserved /\ over \subseteq live /\ unsent \subseteq live
  BY <1>2, <1>3 DEF SlotsMatch
<1>5. /\ WellFormed(q, Keys) /\ PermitsMatch(q)
      /\ q.running = (m.queue.running \ unsent) \ (live \cap gone)
      /\ q.pending = (m.queue.pending \cup (m.queue.running \cap unsent)) \ (live \cap gone)
  <2>1. /\ WellFormed(q1, Keys) /\ PermitsMatch(q1)
        /\ q1.running = m.queue.running \ unsent
        /\ q1.pending = m.queue.pending \cup (m.queue.running \cap unsent)
    <3> HIDE DEF unsent
    <3> QED
      BY <1>1, RequeueOK, AdmissionsAssumption
  <2> HIDE DEF q1
  <2>2. /\ WellFormed(q2, Keys) /\ PermitsMatch(q2)
        /\ q2.running = q1.running \ (live \cap gone) /\ q2.pending = q1.pending
    BY <2>1, ReleaseOK, AdmissionsAssumption
  <2> HIDE DEF q2
  <2>3. /\ WellFormed(q, Keys) /\ PermitsMatch(q)
        /\ q.running = q2.running /\ q.pending = q2.pending \ (live \cap gone)
    BY <2>2, RemoveFromQueueOK
  <2> QED
    BY <2>1, <2>2, <2>3
<1>7. Busy(m, owner) <=> a.busy
  BY DEF Busy
<1>8. n = [queue |-> q, admissions |-> [m.admissions EXCEPT ![owner] = c], claims |-> cl]
  <2> DEFINE u == Unsent(m, live, succeeded, gone, attempts)
             d == AfterBatch(m, owner, live, succeeded, gone, attempts)
  <2>1. unsent = u
    BY DEF Unsent
  <2>2. c = d
    BY DEF AfterBatch, Unsent
  <2> HIDE DEF c, unsent, u, d
  <2>3. IsRecorded(n, m, owner, live, succeeded, gone, attempts)
    BY RecordedView
  <2>4. n = [queue |-> removeFromQueue(release(requeue(m.queue, u), live \cap gone), live \cap gone),
             admissions |-> [m.admissions EXCEPT ![owner] = d], claims |-> cl]
    BY <2>3 DEF IsRecorded, u, d
  <2> QED
    BY <2>1, <2>2, <2>4
<1> HIDE DEF q, cl
<1> HIDE DEF n, a
<1>9. /\ n = [queue |-> n.queue, admissions |-> n.admissions, claims |-> n.claims]
      /\ n.queue = q /\ n.claims = cl
      /\ n.admissions = [m.admissions EXCEPT ![owner] = c]
  BY <1>8
<1>10. /\ left \in Admission
       /\ left.promotion = a.promotion /\ left.releasedOwner = a.releasedOwner
       /\ left.done = a.done
       /\ left.cands = a.cands \ over /\ left.reserved = a.reserved \ over
       /\ left.attempts = {t \in a.attempts : t[1] \notin over}
  <2> HIDE DEF over
  <2> QED
    BY <1>2, WithoutOK
<1>11. tried \in SUBSET (Keys \X UIDs)
  <2>1. left.attempts \in SUBSET (Keys \X UIDs)
    <3> HIDE DEF left
    <3> QED
      BY <1>10 DEF Admission
  <2> HIDE DEF left, again
  <2> QED
    BY <2>1
<1>12. finished \in BOOLEAN
  BY <1>10 DEF Admission
<1>13. \A t \in tried : t[1] \in (a.reserved \ over) \ unsent
  <2>1. ASSUME NEW t \in left.attempts, t[1] \notin again
        PROVE  t[1] \in (a.reserved \ over) \ unsent
    <3>1. t \in a.attempts /\ t[1] \notin over
      BY <1>10
    <3>2. t[1] \in a.reserved
      BY <1>2, <3>1 DEF SlotsMatch
    <3> QED
      BY <2>1, <3>1, <3>2
  <2>2. ASSUME NEW t \in attempts, t[1] \in again
        PROVE  t[1] \in (a.reserved \ over) \ unsent
    BY <1>4, <2>2
  <2> QED
    BY <2>1, <2>2
<1>14. /\ over \subseteq live /\ live \cap gone \subseteq over
       /\ unsent \subseteq live /\ unsent \cap over = {} /\ unsent \subseteq m.queue.running
       /\ live \cap succeeded # {} => over # {}
  OBVIOUS
<1> HIDE DEF left, tried, finished, over, unsent
<1>15. /\ b \in Admission /\ ~b.busy /\ b.promotion = a.promotion
       /\ b.releasedOwner = a.releasedOwner /\ b.done = finished
       /\ b.cands = a.cands \ over /\ b.reserved = (a.reserved \ over) \ unsent
       /\ b.attempts = tried
  BY <1>10, <1>11, <1>12 DEF Admission
<1> HIDE DEF b
<1>16. SlotsMatch(b, q) /\ HandsOver(b)
  <2>1. q # NoQueue
    BY <1>5, SoundQueue
  <2>2. b.reserved = b.cands \cap q.running
    BY <1>2, <1>5, <1>14, <1>15 DEF SlotsMatch
  <2>3. b.cands \ b.reserved \subseteq q.pending
    BY <1>2, <1>5, <1>14, <1>15 DEF SlotsMatch
  <2>4. SlotsMatch(b, q)
    BY <1>13, <1>15, <2>1, <2>2, <2>3 DEF SlotsMatch
  <2>5. HandsOver(b)
    <3> SUFFICES ASSUME b.promotion
                 PROVE  (\A j, k \in b.cands : j = k) /\ (b.done => b.cands = {})
      BY DEF HandsOver
    <3>1. (\A j, k \in a.cands : j = k) /\ (a.done => a.cands = {})
      BY <1>2, <1>15 DEF HandsOver
    <3>2. ASSUME b.done PROVE b.cands = {}
      <4>1. CASE a.done
        BY <1>15, <3>1, <4>1
      <4>2. CASE live \cap succeeded # {}
        BY <1>2, <1>4, <1>14, <1>15, <3>1, <4>2 DEF SlotsMatch
      <4> QED
        BY <1>10, <1>15, <3>2, <4>1, <4>2 DEF finished
    <3> QED
      BY <1>15, <3>1, <3>2
  <2> QED
    BY <2>4, <2>5
<1>17. /\ c \in Admission \cup {NoAdmission}
       /\ c # NoAdmission => /\ c \in Admission /\ ~c.busy /\ ~Spent(c)
                             /\ c.cands = a.cands \ over
                             /\ SlotsMatch(c, q) /\ HandsOver(c)
       /\ c = NoAdmission => a.cands \ over = {}
  <2>1. b # NoAdmission
    BY <1>15, NoAdmissionIsNone
  <2>2. CASE over2 /\ b.releasedOwner
    <3> DEFINE d == [b EXCEPT !.promotion = TRUE, !.done = FALSE]
    <3>1. /\ d \in Admission /\ d.promotion = TRUE /\ d.done = FALSE /\ d.busy = b.busy
          /\ d.cands = b.cands /\ d.reserved = b.reserved /\ d.attempts = b.attempts
      BY <1>15 DEF Admission
    <3>2. c = d
      BY <2>2
    <3> HIDE DEF c, d
    <3>3. d # NoAdmission
      BY <3>1, NoAdmissionIsNone
    <3>4. SlotsMatch(d, q)
      BY <1>16, <3>1 DEF SlotsMatch
    <3>5. HandsOver(d)
      BY <2>2, <3>1 DEF HandsOver
    <3>6. ~Spent(d)
      BY <3>1 DEF Spent
    <3> QED
      BY <1>15, <3>1, <3>2, <3>3, <3>4, <3>5, <3>6
  <2>3. CASE over2 /\ ~b.releasedOwner /\ b.done
    <3>1. c = NoAdmission
      BY <2>3
    <3> HIDE DEF c
    <3> QED
      BY <1>15, <2>3, <3>1
  <2>4. CASE ~over2 \/ (~b.releasedOwner /\ ~b.done)
    <3>1. c = b
      BY <2>4
    <3>2. ~Spent(b)
      BY <2>4 DEF Spent
    <3> HIDE DEF c
    <3> QED
      BY <1>15, <1>16, <2>1, <3>1, <3>2
  <2> QED
    BY <2>2, <2>3, <2>4
<1> HIDE DEF c, over2
<1>18. q # NoQueue /\ Sound(q)
  BY <1>5, SoundQueue
<1>19. cl \in [Keys -> Owners \cup {NoOwner}] /\ \A k \in Keys :
         cl[k] = IF k \in over THEN NoOwner ELSE m.claims[k]
  BY <1>1 DEF cl
<1>20. /\ n.admissions[owner] = c
       /\ \A o \in Owners \ {owner} : n.admissions[o] = m.admissions[o]
       /\ n.admissions \in [Owners -> Admission \cup {NoAdmission}]
  BY <1>1, <1>9, <1>17
<1>21. Typed(n)
  BY <1>9, <1>18, <1>19, <1>20 DEF Typed
<1>22. \A o \in Owners \ {owner} : Untouched(m, n, o)
  <2> SUFFICES ASSUME NEW o \in Owners \ {owner} PROVE Untouched(m, n, o)
    OBVIOUS
  <2>1. ASSUME NEW k \in Keys PROVE n.claims[k] = o <=> m.claims[k] = o
    BY <1>9, <1>14, <1>19, OwnersAreSome
  <2>2. ASSUME NEW k \in Keys, m.claims[k] = o
        PROVE  (Holds(n, k) <=> Holds(m, k)) /\ (Waits(m, k) => Waits(n, k))
    <3>1. k \notin live
      BY <2>2
    <3> QED
      BY <1>5, <1>9, <1>14, <1>18, <3>1 DEF Holds, Waits
  <2> QED
    BY <1>20, <2>1, <2>2 DEF Untouched
<1>23. \A k \in Keys : n.claims[k] = owner <=>
         n.admissions[owner] # NoAdmission /\ k \in n.admissions[owner].cands
  <2> SUFFICES ASSUME NEW k \in Keys
               PROVE  n.claims[k] = owner <=> c # NoAdmission /\ k \in c.cands
    BY <1>20
  <2>1. n.claims[k] = owner <=> k \in a.cands \ over
    BY <1>3, <1>9, <1>19, OwnersAreSome
  <2> QED
    BY <1>17, <2>1
<1>24. n.admissions[owner] # NoAdmission =>
         SlotsMatch(n.admissions[owner], n.queue) /\ HandsOver(n.admissions[owner])
  BY <1>9, <1>17, <1>20
<1>25. /\ Consistent(n)
       /\ \A o \in Owners \ {owner} :
            /\ Busy(m, o) <=> Busy(n, o)
            /\ Settled(m, o) <=> Settled(n, o)
            /\ Swept(m, o) => Swept(n, o)
            /\ \A k \in Keys :
                 n.claims[k] = o => m.claims[k] = o /\ (Holds(m, k) => Holds(n, k))
  BY <1>9, <1>18, <1>21, <1>22, <1>23, <1>24, OthersUntouched
<1>26. ~Busy(n, owner) /\ Swept(n, owner)
  BY <1>17, <1>20 DEF Busy, Swept
<1>27. TakesNone(m, n)
  BY <1>5, <1>9 DEF TakesNone, Holds
<1>28. \A o \in Owners \ {owner} : Spared(m, n, o)
  BY <1>20, <1>25 DEF Spared
<1> QED
  BY <1>9, <1>18, <1>25, <1>26, <1>27, <1>28 DEF n

----------------------------------------------------------------------------
(* ForgetAdmission (admission.go:237): an idle admission without           *)
(* candidates has no claim nor slot to lose.                               *)
LEMMA ForgottenOK ==
  ASSUME NEW m, Consistent(m), NEW owner \in Owners,
         m.admissions[owner] # NoAdmission, ~m.admissions[owner].busy,
         m.admissions[owner].cands = {}
  PROVE  LET n == [m EXCEPT !.admissions[owner] = NoAdmission]
         IN  /\ Consistent(n) /\ n.queue = m.queue
             /\ n.admissions = [m.admissions EXCEPT ![owner] = NoAdmission]
             /\ KeepsBatches(m, n) /\ TakesNone(m, n)
             /\ \A o \in Owners : Swept(m, o) => Swept(n, o)
<1> DEFINE n == [m EXCEPT !.admissions[owner] = NoAdmission]
<1>1. /\ m = [queue |-> m.queue, admissions |-> m.admissions, claims |-> m.claims]
      /\ Sound(m.queue) /\ m.queue # NoQueue
      /\ m.admissions \in [Owners -> Admission \cup {NoAdmission}]
      /\ m.claims \in [Keys -> Owners \cup {NoOwner}]
  BY DEF Consistent, Typed, SlotsMatch
<1>2. n = [queue |-> m.queue, admissions |-> [m.admissions EXCEPT ![owner] = NoAdmission],
           claims |-> m.claims]
  BY <1>1
<1> HIDE DEF n
<1>3. /\ n = [queue |-> n.queue, admissions |-> n.admissions, claims |-> n.claims]
      /\ n.queue = m.queue /\ n.claims = m.claims
      /\ n.admissions = [m.admissions EXCEPT ![owner] = NoAdmission]
  BY <1>2
<1>4. /\ n.admissions[owner] = NoAdmission
      /\ \A o \in Owners \ {owner} : n.admissions[o] = m.admissions[o]
      /\ n.admissions \in [Owners -> Admission \cup {NoAdmission}]
  BY <1>1, <1>3
<1>5. Typed(n)
  BY <1>1, <1>3, <1>4 DEF Typed
<1>6. \A k \in Keys : (Holds(n, k) <=> Holds(m, k)) /\ (Waits(m, k) => Waits(n, k))
  BY <1>3 DEF Holds, Waits
<1>7. \A o \in Owners \ {owner} : Untouched(m, n, o)
  BY <1>3, <1>4, <1>6 DEF Untouched
<1>8. \A k \in Keys : n.claims[k] # owner
  BY <1>3 DEF Consistent, ClaimsMatch
<1>9. /\ Consistent(n)
      /\ \A o \in Owners \ {owner} :
           /\ Busy(m, o) <=> Busy(n, o)
           /\ Settled(m, o) <=> Settled(n, o)
           /\ Swept(m, o) => Swept(n, o)
           /\ \A k \in Keys :
                n.claims[k] = o => m.claims[k] = o /\ (Holds(m, k) => Holds(n, k))
  BY <1>1, <1>3, <1>4, <1>5, <1>7, <1>8, OthersUntouched
<1>10. ~Busy(m, owner) /\ ~Busy(n, owner) /\ Swept(n, owner)
  BY <1>4 DEF Busy, Swept
<1>11. KeepsBatches(m, n)
  BY <1>8, <1>9, <1>10 DEF KeepsBatches
<1>12. TakesNone(m, n)
  BY <1>6 DEF TakesNone
<1> QED
  BY <1>3, <1>9, <1>10, <1>11, <1>12 DEF n

LEMMA NewManagerOK ==
  /\ Consistent(NewManager)
  /\ NewManager.queue = NoQueue
  /\ \A o \in Owners : NewManager.admissions[o] = NoAdmission
<1> DEFINE m == NewManager
<1>1. /\ m = [queue |-> m.queue, admissions |-> m.admissions, claims |-> m.claims]
      /\ m.queue = NoQueue
      /\ m.admissions = [o \in Owners |-> NoAdmission]
      /\ m.claims = [k \in Keys |-> NoOwner]
  BY DEF NewManager
<1> HIDE DEF m
<1>2. Typed(m) /\ ClaimsMatch(m)
  BY <1>1, OwnersAreSome DEF Typed, Sound, ClaimsMatch
<1> QED
  BY <1>1, <1>2 DEF Consistent, m
----------------------------------------------------------------------------
(* What a step leaves of every slot, place, claim and attempt but those of *)
(* the keys of a set: where a key whose start may be outstanding is safe.  *)
Tries(m, o) == IF m.admissions[o] = NoAdmission THEN {} ELSE m.admissions[o].attempts

\* Nobody gets in front of a key that was not there before.
InLine(m, n, keys) ==
  m.queue # NoQueue => n.queue # NoQueue /\ KeepsPlaces(m.queue, n.queue, keys)

Stays(m, n, keys) ==
  /\ InLine(m, n, keys)
  /\ \A k \in Keys \ keys :
       /\ Holds(m, k) => Holds(n, k) /\ n.claims[k] = m.claims[k]
       /\ m.claims[k] # NoOwner => n.claims[k] = m.claims[k]
  /\ \A o \in Owners :
       /\ Tries(n, o) \subseteq Tries(m, o)
       /\ \A t \in Tries(m, o) : t[1] \notin keys => t \in Tries(n, o)

SameLimit(m, n) == n.queue.limit = m.queue.limit

LEMMA StaysComposes ==
  ASSUME NEW l, NEW m, NEW n, NEW keys, Stays(l, m, keys), Stays(m, n, keys)
  PROVE  Stays(l, n, keys)
<1>1. InLine(l, n, keys)
  BY PlacesCompose DEF Stays, InLine
<1> QED
  BY <1>1 DEF Stays

LEMMA StaysReflexive ==
  ASSUME NEW m, NEW keys
  PROVE  Stays(m, m, keys)
<1>1. InLine(m, m, keys)
  BY SamePlaces DEF InLine
<1> QED
  BY <1>1 DEF Stays

(* A change of the queue that takes no slot back.                          *)
LEMMA QueueGrowthStays ==
  ASSUME NEW m, NEW n, NEW keys, n.admissions = m.admissions, n.claims = m.claims,
         InLine(m, n, keys), m.queue # NoQueue => m.queue.running \subseteq n.queue.running
  PROVE  Stays(m, n, keys)
<1>1. \A o : Tries(n, o) = Tries(m, o)
  BY DEF Tries
<1>2. \A k : Holds(m, k) => Holds(n, k)
  BY DEF Holds, InLine
<1> QED
  BY <1>1, <1>2 DEF Stays

(* A change of one admission that keeps its attempts.                      *)
LEMMA AdmissionChangeStays ==
  ASSUME NEW m, NEW n, NEW keys, NEW owner \in Owners, NEW a,
         m.admissions \in [Owners -> Admission \cup {NoAdmission}],
         n.admissions = [m.admissions EXCEPT ![owner] = a],
         a # NoAdmission => a.attempts = Tries(m, owner),
         a = NoAdmission => Tries(m, owner) = {},
         InLine(m, n, keys), m.queue # NoQueue => m.queue.running \subseteq n.queue.running,
         \A k \in Keys : m.claims[k] # NoOwner \/ Holds(m, k) => n.claims[k] = m.claims[k]
  PROVE  Stays(m, n, keys)
<1>1. ASSUME NEW o \in Owners PROVE Tries(n, o) = Tries(m, o)
  <2>1. CASE o = owner
    BY <2>1 DEF Tries
  <2>2. CASE o # owner
    BY <2>2 DEF Tries
  <2> QED
    BY <2>1, <2>2
<1>2. \A k : Holds(m, k) => Holds(n, k)
  BY DEF Holds, InLine
<1> QED
  BY <1>1, <1>2 DEF Stays

LEMMA GetSemaphoreStays ==
  ASSUME NEW m, Consistent(m), NEW limit \in Nat, NEW keys
  PROVE  LET n == getSemaphore(m, limit)
         IN  Stays(m, n, keys) /\ n.queue.limit = limit
<1> DEFINE n == getSemaphore(m, limit)
           q == IF m.queue = NoQueue THEN newSemaphore(limit)
                ELSE IF m.queue.limit # limit THEN resize(m.queue, limit) ELSE m.queue
<1>1. n.admissions = m.admissions /\ n.claims = m.claims /\ n.queue # NoQueue
  BY GetSemaphoreOK
<1>2. n.queue = q
  <2>1. n = [m EXCEPT !.queue = q]
    BY DEF getSemaphore
  <2>2. m = [queue |-> m.queue, admissions |-> m.admissions, claims |-> m.claims]
    BY DEF Consistent, Typed
  <2> HIDE DEF n, q
  <2> QED
    BY <2>1, <2>2
<1>3. m.queue # NoQueue => WellFormed(m.queue, Keys)
  BY DEF Consistent, Typed, Sound
<1>4. q.limit = limit /\ (m.queue # NoQueue => m.queue.running \subseteq q.running)
  BY <1>3 DEF WellFormed, IsSemaphore, newSemaphore, resize
<1>5. m.queue # NoQueue => KeepsPlaces(m.queue, q, keys)
  <2>1. KeepsPlaces(m.queue, m.queue, keys)
    BY SamePlaces
  <2>2. m.queue # NoQueue => KeepsPlaces(m.queue, resize(m.queue, limit), keys)
    BY <1>3, ResizePlaces
  <2> QED
    BY <2>1, <2>2
<1> HIDE DEF n, q
<1>6. InLine(m, n, keys)
  BY <1>1, <1>2, <1>5 DEF InLine
<1>7. Stays(m, n, keys)
  BY <1>1, <1>2, <1>4, <1>6, QueueGrowthStays
<1> QED
  BY <1>2, <1>4, <1>7 DEF n

LEMMA RemoveKeyStays ==
  ASSUME NEW m, Consistent(m), m.queue # NoQueue, NEW key \in Keys, NEW keys, key \in keys
  PROVE  LET n == removeKey(m, key)
         IN  Stays(m, n, keys) /\ SameLimit(m, n)
<1> DEFINE n == removeKey(m, key)
           owner == m.claims[key]
           q == removeFromQueue(release(m.queue, {key}), {key})
           b == Bereft(m.admissions[owner], key)
<1>1. /\ n.queue = q
      /\ n.admissions = IF owner = NoOwner THEN m.admissions
                        ELSE [m.admissions EXCEPT ![owner] = b]
      /\ n.claims = [m.claims EXCEPT ![key] = NoOwner]
  <2>1. n = [queue |-> q,
             admissions |-> IF owner = NoOwner THEN m.admissions
                            ELSE [m.admissions EXCEPT ![owner] = b],
             claims |-> [m.claims EXCEPT ![key] = NoOwner]]
    BY RemoveKeyView
  <2> HIDE DEF n, q, b, owner
  <2> QED
    BY <2>1
<1>2. n.queue # NoQueue /\ n.queue.limit = m.queue.limit
  BY RemoveKeyOK
<1>3. /\ m.admissions \in [Owners -> Admission \cup {NoAdmission}]
      /\ m.claims \in [Keys -> Owners \cup {NoOwner}]
      /\ WellFormed(m.queue, Keys) /\ PermitsMatch(m.queue)
  BY DEF Consistent, Typed, Sound
<1>4. q.running = m.queue.running \ {key}
  BY <1>3, KeyLeavesQueue
<1>p. KeepsPlaces(m.queue, q, keys)
  <2> DEFINE q1 == release(m.queue, {key})
  <2>1. {key} \subseteq keys
    OBVIOUS
  <2>2. WellFormed(q1, Keys) /\ PermitsMatch(q1)
    BY <1>3, ReleaseOK, AdmissionsAssumption
  <2>3. KeepsPlaces(m.queue, q1, keys)
    BY <1>3, <2>1, ReleasePlaces, AdmissionsAssumption
  <2> HIDE DEF q1
  <2>4. KeepsPlaces(q1, removeFromQueue(q1, {key}), keys)
    BY <2>1, <2>2, RemoveFromQueuePlaces
  <2> QED
    BY <2>3, <2>4, PlacesCompose DEF q1
<1> HIDE DEF n, q, b
<1>q. InLine(m, n, keys)
  BY <1>1, <1>2, <1>p DEF InLine
<1>5. \A k \in Keys \ keys : /\ Holds(m, k) => Holds(n, k)
                             /\ n.claims[k] = m.claims[k]
  BY <1>1, <1>2, <1>3, <1>4 DEF Holds
<1>6. ASSUME NEW o \in Owners
      PROVE  /\ Tries(n, o) \subseteq Tries(m, o)
             /\ \A t \in Tries(m, o) : t[1] \notin keys => t \in Tries(n, o)
  <2>1. CASE owner = NoOwner \/ o # owner
    <3>1. n.admissions[o] = m.admissions[o]
      BY <1>1, <1>3, <2>1
    <3> QED
      BY <3>1 DEF Tries
  <2>2. CASE owner # NoOwner /\ o = owner
    <3> DEFINE a == m.admissions[owner]
    <3>1. owner \in Owners /\ n.admissions[owner] = b
      BY <1>1, <1>3, <2>2
    <3>2. /\ a # NoAdmission /\ a \in Admission
          /\ SlotsMatch(a, m.queue)
      BY <1>3, <3>1, <2>2 DEF Consistent, ClaimsMatch
    <3> HIDE DEF a, owner
    <3>3. /\ b = NoAdmission => a.cands \subseteq {key}
          /\ b # NoAdmission => b.attempts = {t \in a.attempts : t[1] # key}
      BY <3>2, BereftOK DEF b, a
    <3>4. \A t \in a.attempts : t[1] \in a.cands
      BY <3>2 DEF SlotsMatch
    <3>5. Tries(m, o) = a.attempts /\ Tries(n, o) = IF b = NoAdmission THEN {} ELSE b.attempts
      BY <2>2, <3>1, <3>2 DEF Tries, a
    <3> QED
      BY <3>3, <3>4, <3>5
  <2> QED
    BY <2>1, <2>2
<1>7. Stays(m, n, keys)
  BY <1>5, <1>6, <1>q DEF Stays
<1> QED
  BY <1>2, <1>7 DEF n, SameLimit

LEMMA RegisteredStays ==
  ASSUME NEW m, Consistent(m), m.queue # NoQueue, NEW owner \in Owners, NEW mode,
         NEW keys, mode = Promotion => KeyOf(owner) \in keys
  PROVE  LET n == registered(m, owner, mode)
         IN  Stays(m, n, keys) /\ SameLimit(m, n)
<1> DEFINE n == registered(m, owner, mode)
<1>1. CASE m.admissions[owner] # NoAdmission
  <2>1. n = m
    BY <1>1 DEF registered
  <2> HIDE DEF n
  <2> QED
    BY <2>1, StaysReflexive DEF n, SameLimit
<1>2. CASE m.admissions[owner] = NoAdmission
  <2> DEFINE base == IF mode = Promotion THEN removeKey(m, KeyOf(owner)) ELSE m
             a == newAdmission(mode = Promotion)
  <2>1. KeyOf(owner) \in Keys
    BY DEF KeyOf, Owners
  <2>2. /\ Consistent(base) /\ base.queue # NoQueue /\ base.admissions[owner] = NoAdmission
        /\ Stays(m, base, keys) /\ SameLimit(m, base)
    <3>1. CASE mode = Promotion
      BY <1>2, <2>1, <3>1, RemoveKeyOK, RemoveKeyStays
    <3>2. CASE mode # Promotion
      BY <1>2, <3>2, StaysReflexive DEF SameLimit
    <3> QED
      BY <3>1, <3>2
  <2>3. n = [base EXCEPT !.admissions[owner] = a]
    BY <1>2 DEF registered
  <2>4. a.attempts = {}
    BY DEF newAdmission
  <2> HIDE DEF base, a, n
  <2>5. /\ base = [queue |-> base.queue, admissions |-> base.admissions, claims |-> base.claims]
        /\ base.admissions \in [Owners -> Admission \cup {NoAdmission}]
    BY <2>2 DEF Consistent, Typed
  <2>6. n = [queue |-> base.queue, admissions |-> [base.admissions EXCEPT ![owner] = a],
             claims |-> base.claims]
    BY <2>3, <2>5
  <2>7. n.queue = base.queue /\ n.claims = base.claims
        /\ n.admissions = [base.admissions EXCEPT ![owner] = a]
    BY <2>6
  <2>8. Tries(base, owner) = {}
    BY <2>2 DEF Tries
  <2>9. Stays(base, n, keys)
    <3>1. InLine(base, n, keys)
      BY <2>7, SamePlaces DEF InLine
    <3> QED
      BY <2>4, <2>5, <2>7, <2>8, <3>1, AdmissionChangeStays
  <2>10. Stays(m, n, keys)
    BY <2>2, <2>9, StaysComposes
  <2> QED
    BY <2>2, <2>7, <2>10 DEF n, SameLimit
<1> QED
  BY <1>1, <1>2

LEMMA OwnerReleasedStays ==
  ASSUME NEW m, Consistent(m), m.queue # NoQueue,
         NEW owner \in Owners, m.admissions[owner] # NoAdmission,
         NEW mode, NEW finishing,
         NEW keys, mode = Resume /\ finishing => KeyOf(owner) \in keys
  PROVE  LET n == ownerReleased(m, owner, mode, finishing)
         IN  Stays(m, n, keys) /\ SameLimit(m, n)
<1> DEFINE n == ownerReleased(m, owner, mode, finishing)
           moving == mode = Resume /\ finishing /\ Queued(m, KeyOf(owner))
<1>1. CASE ~moving
  <2>1. n = m
    BY <1>1 DEF ownerReleased
  <2> HIDE DEF n
  <2> QED
    BY <2>1, StaysReflexive DEF n, SameLimit
<1>2. CASE moving
  <2> DEFINE a == m.admissions[owner]
             b == [a EXCEPT !.releasedOwner = TRUE]
             marked == [m EXCEPT !.admissions[owner] = b]
             freed == removeKey(marked, KeyOf(owner))
             c == freed.admissions[owner]
             d == [c EXCEPT !.done = @ \/ c.cands = {}]
  <2>1. KeyOf(owner) \in Keys /\ KeyOf(owner) \in keys
    BY <1>2 DEF KeyOf, Owners
  <2>2. a \in Admission /\ SlotsMatch(a, m.queue) /\ HandsOver(a)
    BY DEF Consistent, Typed
  <2>3. \A k \in Keys : m.claims[k] = owner <=> k \in a.cands
    BY DEF Consistent, ClaimsMatch
  <2>4. [m EXCEPT !.admissions[owner].releasedOwner = TRUE] = marked
    OBVIOUS
  <2>5. n = [freed EXCEPT !.admissions[owner] = d]
    <3>1. n = [freed EXCEPT !.admissions[owner].done = @ \/ freed.admissions[owner].cands = {}]
      BY <1>2 DEF ownerReleased
    <3> HIDE DEF freed, n
    <3> QED
      BY <3>1
  <2>6. Tries(m, owner) = a.attempts
    BY DEF Tries
  <2> HIDE DEF a
  <2>7. /\ b \in Admission /\ b.releasedOwner /\ b.promotion = a.promotion /\ b.done = a.done
        /\ b.cands = a.cands /\ b.reserved = a.reserved /\ b.attempts = a.attempts
    BY <2>2 DEF Admission
  <2> HIDE DEF b
  <2>8. SlotsMatch(b, m.queue) /\ HandsOver(b)
    <3>1. SlotsMatch(b, m.queue)
      BY <2>2, <2>7 DEF SlotsMatch
    <3>2. HandsOver(b)
      BY <2>2, <2>7 DEF HandsOver
    <3> QED
      BY <3>1, <3>2
  <2>9. \A k \in Keys : m.claims[k] = owner <=> k \in b.cands
    BY <2>3, <2>7
  <2>10. /\ Consistent(marked) /\ marked.queue = m.queue /\ marked.claims = m.claims
         /\ marked.admissions = [m.admissions EXCEPT ![owner] = b]
         /\ marked.admissions[owner] = b /\ b # NoAdmission
    BY <2>7, <2>8, <2>9, AdmissionChangeOK
  <2> HIDE DEF marked
  <2>11. m.admissions \in [Owners -> Admission \cup {NoAdmission}]
    BY DEF Consistent, Typed
  <2>12. Stays(m, marked, keys)
    <3>1. InLine(m, marked, keys)
      BY <2>10, SamePlaces DEF InLine
    <3> QED
      BY <2>6, <2>7, <2>10, <2>11, <3>1, AdmissionChangeStays
  <2>13. /\ Consistent(freed) /\ freed.queue # NoQueue
         /\ Stays(marked, freed, keys) /\ SameLimit(marked, freed)
         /\ c # NoAdmission
    <3>1. marked.queue # NoQueue
      BY <2>10
    <3> DEFINE key == KeyOf(owner)
    <3>k. key \in Keys /\ freed = removeKey(marked, key)
      BY <2>1
    <3> HIDE DEF key, freed
    <3>c. Consistent(marked)
      BY <2>10
    <3>r. LET x == removeKey(marked, key)
          IN  /\ Consistent(x) /\ x.queue # NoQueue
              /\ \A o \in Owners : marked.admissions[o] # NoAdmission /\ marked.admissions[o].releasedOwner
                   => x.admissions[o] # NoAdmission /\ x.admissions[o].releasedOwner
      BY <3>c, <3>1, <3>k, RemoveKeyOK
    <3>2. /\ Consistent(freed) /\ freed.queue # NoQueue
          /\ \A o \in Owners : marked.admissions[o] # NoAdmission /\ marked.admissions[o].releasedOwner
               => freed.admissions[o] # NoAdmission /\ freed.admissions[o].releasedOwner
      BY <3>k, <3>r
    <3>4. c # NoAdmission
      BY <2>7, <2>10, <3>2
    <3>5. Stays(marked, freed, keys) /\ SameLimit(marked, freed)
      <4>1. key \in keys
        BY <2>1 DEF key
      <4> QED
        BY <4>1, <3>c, <3>1, <3>k, RemoveKeyStays
    <3> QED
      BY <3>2, <3>4, <3>5
  <2> HIDE DEF freed
  <2>14. c \in Admission /\ freed.admissions \in [Owners -> Admission \cup {NoAdmission}]
         /\ freed = [queue |-> freed.queue, admissions |-> freed.admissions,
                     claims |-> freed.claims]
    BY <2>13 DEF Consistent, Typed
  <2>15. Tries(freed, owner) = c.attempts
    BY <2>13 DEF Tries
  <2> HIDE DEF c
  <2>16. d \in Admission /\ d.attempts = c.attempts
    BY <2>13, <2>14 DEF Admission
  <2> HIDE DEF d, n
  <2>17. n = [queue |-> freed.queue, admissions |-> [freed.admissions EXCEPT ![owner] = d],
              claims |-> freed.claims]
    BY <2>5, <2>14
  <2>18. /\ n.queue = freed.queue /\ n.claims = freed.claims
         /\ n.admissions = [freed.admissions EXCEPT ![owner] = d]
    BY <2>17
  <2>19. d # NoAdmission
    BY <2>16, NoAdmissionIsNone
  <2>20. Stays(freed, n, keys)
    <3>1. InLine(freed, n, keys)
      BY <2>18, SamePlaces DEF InLine
    <3> QED
      BY <2>14, <2>15, <2>16, <2>18, <2>19, <3>1, AdmissionChangeStays
  <2>21. Stays(m, n, keys)
    BY <2>12, <2>13, <2>20, StaysComposes
  <2>22. SameLimit(m, n)
    BY <2>10, <2>13, <2>18 DEF SameLimit
  <2> QED
    BY <2>21, <2>22 DEF n
<1> QED
  BY <1>1, <1>2

LEMMA ListedStays ==
  ASSUME NEW m, Consistent(m), m.queue # NoQueue, NEW list \in Seq(Keys), NEW keys
  PROVE  LET n == listed(m, list)
         IN  Stays(m, n, keys) /\ SameLimit(m, n)
<1> DEFINE q == addToQueue(m.queue, list)
           n == [m EXCEPT !.queue = q]
<1>1. WellFormed(m.queue, Keys) /\ PermitsMatch(m.queue)
      /\ m = [queue |-> m.queue, admissions |-> m.admissions, claims |-> m.claims]
  BY DEF Consistent, Typed, Sound
<1>2. /\ WellFormed(q, Keys) /\ PermitsMatch(q)
      /\ q.running = m.queue.running /\ q.limit = m.queue.limit
  BY <1>1, AddToQueueOK
<1>3. listed(m, list) = n
  BY DEF listed
<1>p. KeepsPlaces(m.queue, q, keys)
  BY <1>1, AddToQueuePlaces
<1> HIDE DEF q
<1>4. n = [queue |-> q, admissions |-> m.admissions, claims |-> m.claims]
  BY <1>1
<1> HIDE DEF n
<1>5. n.queue = q /\ n.admissions = m.admissions /\ n.claims = m.claims
  BY <1>4
<1>6. q # NoQueue
  BY <1>2, SoundQueue
<1>7. Stays(m, n, keys)
  <2>1. InLine(m, n, keys)
    BY <1>5, <1>6, <1>p DEF InLine
  <2> QED
    BY <1>2, <1>5, <2>1, QueueGrowthStays
<1> QED
  BY <1>2, <1>3, <1>5, <1>7 DEF SameLimit

LEMMA ReservedAgainStays ==
  ASSUME NEW m, Consistent(m), m.queue # NoQueue,
         NEW owner \in Owners, m.admissions[owner] # NoAdmission, NEW keys
  PROVE  LET n == reservedAgain(m, owner)
         IN  Stays(m, n, keys) /\ SameLimit(m, n)
<1> DEFINE n == reservedAgain(m, owner)
           a == m.admissions[owner]
           waiting == a.cands \ a.reserved
           size == Cardinality(waiting)
           batch == Batch(m.queue, waiting, size)
           q == acquireBatch(m.queue, waiting, size)
           b == [a EXCEPT !.reserved = @ \cup batch]
<1>1. /\ m.admissions \in [Owners -> Admission \cup {NoAdmission}]
      /\ WellFormed(m.queue, Keys) /\ PermitsMatch(m.queue)
      /\ a \in Admission
  BY DEF Consistent, Typed, Sound
<1>2. size \in Nat
  BY <1>1, SizesAreNat DEF Admission
<1>3. /\ WellFormed(q, Keys) /\ PermitsMatch(q) /\ q.limit = m.queue.limit
      /\ q.running = m.queue.running \cup batch
      /\ batch \subseteq m.queue.pending \cap waiting
  <2> HIDE DEF size, waiting
  <2> QED
    BY <1>1, <1>2, AcquireBatchOK, AdmissionsAssumption
<1>p. KeepsPlaces(m.queue, q, keys)
  <2> HIDE DEF size, waiting
  <2> QED
    BY <1>1, <1>2, AcquireBatchPlaces, AdmissionsAssumption
<1>4. n = [queue |-> q, admissions |-> [m.admissions EXCEPT ![owner] = b], claims |-> m.claims]
  BY ReservedAgainView
<1>5. Tries(m, owner) = a.attempts
  BY DEF Tries
<1>6. batch \subseteq Keys
  BY <1>1, <1>3 DEF Admission
<1> HIDE DEF n, a, q, batch, size, waiting
<1>7. /\ n.queue = q /\ n.claims = m.claims
      /\ n.admissions = [m.admissions EXCEPT ![owner] = b]
  BY <1>4
<1>8. b.attempts = a.attempts
  BY <1>1 DEF Admission
<1>9. b \in Admission
  BY <1>1, <1>6 DEF Admission
<1> HIDE DEF b
<1>10. q # NoQueue /\ b # NoAdmission
  BY <1>3, <1>9, SoundQueue, NoAdmissionIsNone
<1>11. Stays(m, n, keys)
  <2>1. InLine(m, n, keys)
    BY <1>7, <1>10, <1>p DEF InLine
  <2> QED
    BY <1>1, <1>3, <1>5, <1>7, <1>8, <1>10, <2>1, AdmissionChangeStays
<1> QED
  BY <1>3, <1>7, <1>11 DEF n, SameLimit

LEMMA FilledStays ==
  ASSUME NEW m, Consistent(m), m.queue # NoQueue,
         NEW owner \in Owners, m.admissions[owner] # NoAdmission, NEW keys
  PROVE  LET n == filled(m, owner)
         IN  Stays(m, n, keys) /\ SameLimit(m, n)
<1> DEFINE n == filled(m, owner)
           a == m.admissions[owner]
<1>1. CASE a.cands # {} \/ a.done
  <2>1. n = m
    BY <1>1 DEF filled
  <2> HIDE DEF n
  <2> QED
    BY <2>1, StaysReflexive DEF n, SameLimit
<1>2. CASE a.cands = {} /\ ~a.done
  <2> DEFINE size == IF a.promotion THEN 1
                     ELSE IF m.queue.limit = 0 THEN Cardinality(m.queue.pending)
                     ELSE m.queue.limit
             batch == Batch(m.queue, Unclaimed(m), size)
             q == acquireBatch(m.queue, Unclaimed(m), size)
             over == batch = {} /\ nextPending(m.queue) \subseteq Unclaimed(m)
             b == [a EXCEPT !.cands = batch, !.reserved = batch, !.done = over]
             cl == [k \in Keys |-> IF k \in batch THEN owner ELSE m.claims[k]]
  <2>1. /\ m.admissions \in [Owners -> Admission \cup {NoAdmission}]
        /\ WellFormed(m.queue, Keys) /\ PermitsMatch(m.queue)
        /\ a \in Admission
    BY DEF Consistent, Typed, Sound
  <2>2. size \in Nat
    BY <2>1, SizeOfBatch
  <2>3. /\ WellFormed(q, Keys) /\ PermitsMatch(q) /\ q.limit = m.queue.limit
        /\ q.running = m.queue.running \cup batch
        /\ batch \subseteq m.queue.pending \cap Unclaimed(m)
    <3> HIDE DEF size
    <3> QED
      BY <2>1, <2>2, AcquireBatchOK, AdmissionsAssumption
  <2>p. KeepsPlaces(m.queue, q, keys)
    <3> DEFINE allowed == Unclaimed(m)
    <3>1. IsFiniteSet(Keys) /\ q = acquireBatch(m.queue, allowed, size)
      BY AdmissionsAssumption
    <3> HIDE DEF size, allowed, q, batch
    <3> QED
      BY <2>1, <2>2, <3>1, AcquireBatchPlaces
  <2>4. n = [queue |-> q, admissions |-> [m.admissions EXCEPT ![owner] = b], claims |-> cl]
    BY <1>2, FilledView
  <2>5. Tries(m, owner) = a.attempts
    BY DEF Tries
  <2> HIDE DEF n, a, q, batch, size, over
  <2>6. /\ n.queue = q /\ n.claims = cl
        /\ n.admissions = [m.admissions EXCEPT ![owner] = b]
    BY <2>4
  <2>7. b.attempts = a.attempts
    BY <2>1 DEF Admission
  <2>8. b \in Admission
    <3>1. over \in BOOLEAN
      BY DEF over
    <3>2. batch \in SUBSET Keys
      BY <2>3 DEF Unclaimed
    <3> QED
      BY <2>1, <3>1, <3>2 DEF Admission
  <2> HIDE DEF b
  <2>9. q # NoQueue /\ b # NoAdmission
    BY <2>3, <2>8, SoundQueue, NoAdmissionIsNone
  <2>10. ASSUME NEW k \in Keys, m.claims[k] # NoOwner \/ Holds(m, k)
         PROVE  n.claims[k] = m.claims[k]
    <3>1. k \notin batch
      BY <2>1, <2>3, <2>10 DEF Holds, Unclaimed, WellFormed
    <3> QED
      BY <2>6, <3>1
  <2> HIDE DEF cl
  <2>11. Stays(m, n, keys)
    <3>1. InLine(m, n, keys)
      BY <2>6, <2>9, <2>p DEF InLine
    <3> QED
      BY <2>1, <2>3, <2>5, <2>6, <2>7, <2>9, <2>10, <3>1, AdmissionChangeStays
  <2> QED
    BY <2>3, <2>6, <2>11 DEF n, SameLimit
<1> QED
  BY <1>1, <1>2

(* AcquireAdmission frees at most the place of the owner: no other key     *)
(* loses its slot, its claim or its start attempt (admission.go:78).       *)
LEMMA PreparedStays ==
  ASSUME NEW m, Consistent(m), NEW owner \in Owners, ~Busy(m, owner),
         NEW list \in Seq(Keys), NEW mode, NEW finishing, NEW limit \in Nat,
         NEW keys, mode = Promotion \/ (mode = Resume /\ finishing) => KeyOf(owner) \in keys
  PROVE  LET n == prepared(m, owner, list, mode, finishing, limit)
         IN  Stays(m, n, keys) /\ n.queue.limit = limit
<1> DEFINE m1 == getSemaphore(m, limit)
           m2 == registered(m1, owner, mode)
           m3 == ownerReleased(m2, owner, mode, finishing)
           m4 == listed(m3, list)
           m5 == reservedAgain(m4, owner)
           n == filled(m5, owner)
<1>1. prepared(m, owner, list, mode, finishing, limit) = n
  BY DEF prepared
<1>2. Consistent(m1) /\ m1.queue # NoQueue
  BY GetSemaphoreOK
<1>3. Stays(m, m1, keys) /\ m1.queue.limit = limit
  BY GetSemaphoreStays
<1> HIDE DEF m1
<1>4. Consistent(m2) /\ m2.queue # NoQueue /\ m2.admissions[owner] # NoAdmission
  BY <1>2, RegisteredOK
<1>5. Stays(m1, m2, keys) /\ SameLimit(m1, m2)
  BY <1>2, RegisteredStays
<1> HIDE DEF m2
<1>6. Consistent(m3) /\ m3.queue # NoQueue /\ m3.admissions[owner] # NoAdmission
  BY <1>4, OwnerReleasedOK
<1>7. Stays(m2, m3, keys) /\ SameLimit(m2, m3)
  BY <1>4, OwnerReleasedStays
<1> HIDE DEF m3
<1>8. Consistent(m4) /\ m4.queue # NoQueue /\ m4.admissions = m3.admissions
  BY <1>6, ListedOK
<1>9. Stays(m3, m4, keys) /\ SameLimit(m3, m4)
  BY <1>6, ListedStays
<1> HIDE DEF m4
<1>10. m4.admissions[owner] # NoAdmission
  BY <1>6, <1>8
<1>11. Consistent(m5) /\ m5.queue # NoQueue /\ m5.admissions[owner] # NoAdmission
  BY <1>8, <1>10, ReservedAgainOK
<1>12. Stays(m4, m5, keys) /\ SameLimit(m4, m5)
  BY <1>8, <1>10, ReservedAgainStays
<1> HIDE DEF m5
<1>13. Stays(m5, n, keys) /\ SameLimit(m5, n)
  BY <1>11, FilledStays
<1> HIDE DEF n
<1>14. Stays(m, m3, keys)
  BY <1>3, <1>5, <1>7, StaysComposes
<1>15. Stays(m, n, keys)
  BY <1>9, <1>12, <1>13, <1>14, StaysComposes
<1>16. n.queue.limit = limit
  BY <1>3, <1>5, <1>7, <1>9, <1>12, <1>13 DEF SameLimit
<1> QED
  BY <1>1, <1>15, <1>16

(* What FinishAdmission leaves of the slots, claims and start attempts: a  *)
(* candidate loses its slot when it is gone or no start was attempted for  *)
(* it, and the attempts of the ones that are retried are remembered.       *)
Leaves(m, n, owner, live, succeeded, gone, attempts) ==
  /\ n.queue.limit = m.queue.limit
  /\ KeepsPlaces(m.queue, n.queue, live \cap gone)
  /\ n.queue.running = (m.queue.running \ Unsent(m, live, succeeded, gone, attempts))
                         \ (live \cap gone)
  /\ \A k \in Keys :
       n.claims[k] = IF k \in live \cap (succeeded \cup gone) THEN NoOwner ELSE m.claims[k]
  /\ \A t \in Tries(n, owner) : t \in Tries(m, owner) \/ t \in attempts
  /\ n.admissions[owner] # NoAdmission =>
       \A t \in attempts : t[1] \in live \ (succeeded \cup gone) => t \in Tries(n, owner)
  /\ \A o \in Owners \ {owner} : Tries(n, o) = Tries(m, o)

LEMMA RecordedLeaves ==
  ASSUME NEW m, Consistent(m), m.queue # NoQueue,
         NEW owner \in Owners, m.admissions[owner] # NoAdmission,
         NEW live \in SUBSET Keys,
         NEW succeeded, NEW gone, NEW attempts \in SUBSET (Keys \X UIDs)
  PROVE  Leaves(m, recorded(m, owner, live, succeeded, gone, attempts),
                owner, live, succeeded, gone, attempts)
<1> DEFINE n == recorded(m, owner, live, succeeded, gone, attempts)
           a == m.admissions[owner]
           c == AfterBatch(m, owner, live, succeeded, gone, attempts)
           u == Unsent(m, live, succeeded, gone, attempts)
           q1 == requeue(m.queue, u)
           q2 == release(q1, live \cap gone)
           q == removeFromQueue(q2, live \cap gone)
           over == live \cap (succeeded \cup gone)
           cl == [k \in Keys |-> IF k \in over THEN NoOwner ELSE m.claims[k]]
<1>1. /\ m.admissions \in [Owners -> Admission \cup {NoAdmission}] /\ a \in Admission
      /\ WellFormed(m.queue, Keys) /\ PermitsMatch(m.queue)
  BY DEF Consistent, Typed, Sound
<1>2. /\ n.queue = q /\ n.claims = cl
      /\ n.admissions = [m.admissions EXCEPT ![owner] = c]
  <2>1. IsRecorded(n, m, owner, live, succeeded, gone, attempts)
    BY RecordedView
  <2>2. n = [queue |-> q, admissions |-> [m.admissions EXCEPT ![owner] = c], claims |-> cl]
    BY <2>1 DEF IsRecorded
  <2> HIDE DEF n, q, c, cl
  <2> QED
    BY <2>2
<1> HIDE DEF n
<1>3. /\ q.limit = m.queue.limit /\ q.running = (m.queue.running \ u) \ (live \cap gone)
      /\ KeepsPlaces(m.queue, q, live \cap gone)
  <2>1. u \in SUBSET Keys
    BY DEF Unsent
  <2> HIDE DEF u
  <2>2. /\ WellFormed(q1, Keys) /\ PermitsMatch(q1)
        /\ q1.limit = m.queue.limit /\ q1.running = m.queue.running \ u
    BY <1>1, <2>1, RequeueOK, AdmissionsAssumption
  <2>p. KeepsPlaces(m.queue, q1, live \cap gone)
    BY <1>1, <2>1, RequeuePlaces, AdmissionsAssumption
  <2> HIDE DEF q1
  <2>3. /\ WellFormed(q2, Keys) /\ PermitsMatch(q2)
        /\ q2.limit = q1.limit /\ q2.running = q1.running \ (live \cap gone)
    BY <2>2, ReleaseOK, AdmissionsAssumption
  <2>q. KeepsPlaces(q1, q2, live \cap gone)
    BY <2>2, ReleasePlaces, AdmissionsAssumption
  <2> HIDE DEF q2
  <2>4. q.limit = q2.limit /\ q.running = q2.running
    BY <2>3, RemoveFromQueueOK
  <2>r. KeepsPlaces(q2, q, live \cap gone)
    BY <2>3, RemoveFromQueuePlaces
  <2>s. KeepsPlaces(m.queue, q, live \cap gone)
    <3> HIDE DEF q
    <3> QED
      BY <2>p, <2>q, <2>r, PlacesCompose
  <2> QED
    BY <2>2, <2>3, <2>4, <2>s
<1> HIDE DEF q
<1>4. \A k \in Keys : n.claims[k] = IF k \in over THEN NoOwner ELSE m.claims[k]
  BY <1>2
<1>5. \A o \in Owners \ {owner} : Tries(n, o) = Tries(m, o)
  BY <1>1, <1>2 DEF Tries
<1>6. n.admissions[owner] = c /\ Tries(m, owner) = a.attempts
  BY <1>1, <1>2 DEF Tries
<1>7. c = NoAdmission \/ c.attempts = {t \in a.attempts : t[1] \notin over /\ t[1] \notin live \ over}
                                        \cup {t \in attempts : t[1] \in live \ over}
  <2> DEFINE left == Without(a, over)
             tried == {t \in left.attempts : t[1] \notin live \ over}
                        \cup {t \in attempts : t[1] \in live \ over}
             finished == left.done \/ live \cap succeeded # {}
             b == [left EXCEPT !.busy = FALSE, !.done = finished,
                               !.reserved = @ \ u, !.attempts = tried]
             over2 == ~b.promotion /\ b.cands = {}
  <2>1. left \in Admission /\ left.attempts = {t \in a.attempts : t[1] \notin over}
    <3> HIDE DEF over
    <3> QED
      BY <1>1, WithoutOK
  <2>2. c = IF over2 /\ b.releasedOwner THEN [b EXCEPT !.promotion = TRUE, !.done = FALSE]
            ELSE IF over2 /\ b.done THEN NoAdmission ELSE b
    BY DEF AfterBatch
  <2> HIDE DEF c, left, over2, finished, u
  <2>3. tried = {t \in a.attempts : t[1] \notin over /\ t[1] \notin live \ over}
                  \cup {t \in attempts : t[1] \in live \ over}
    BY <2>1
  <2> HIDE DEF tried, over
  <2>4. b.attempts = tried /\ [b EXCEPT !.promotion = TRUE, !.done = FALSE].attempts = tried
    BY <2>1 DEF Admission
  <2> HIDE DEF b
  <2>5. c = NoAdmission \/ c.attempts = tried
    BY <2>2, <2>4
  <2> QED
    BY <2>3, <2>5
<1>8. \A t \in Tries(n, owner) : t \in Tries(m, owner) \/ t \in attempts
  BY <1>6, <1>7 DEF Tries
<1>9. n.admissions[owner] # NoAdmission =>
        \A t \in attempts : t[1] \in live \ (succeeded \cup gone) => t \in Tries(n, owner)
  BY <1>6, <1>7 DEF Tries
<1> QED
  BY <1>2, <1>3, <1>4, <1>5, <1>8, <1>9 DEF n, u, over, Leaves

(* Forgetting an owner without candidates, and leasing its admission.      *)
LEMMA ForgottenStays ==
  ASSUME NEW m, Consistent(m), NEW owner \in Owners,
         m.admissions[owner] # NoAdmission, m.admissions[owner].cands = {}, NEW keys
  PROVE  LET n == [m EXCEPT !.admissions[owner] = NoAdmission]
         IN  Stays(m, n, keys) /\ n.queue = m.queue
<1> DEFINE n == [m EXCEPT !.admissions[owner] = NoAdmission]
           a == m.admissions[owner]
<1>1. /\ m = [queue |-> m.queue, admissions |-> m.admissions, claims |-> m.claims]
      /\ m.admissions \in [Owners -> Admission \cup {NoAdmission}]
  BY DEF Consistent, Typed
<1>2. /\ n.queue = m.queue /\ n.claims = m.claims
      /\ n.admissions = [m.admissions EXCEPT ![owner] = NoAdmission]
  <2>1. n = [queue |-> m.queue, claims |-> m.claims,
             admissions |-> [m.admissions EXCEPT ![owner] = NoAdmission]]
    BY <1>1
  <2> HIDE DEF n
  <2> QED
    BY <2>1
<1> HIDE DEF n
<1>3. SlotsMatch(a, m.queue)
  BY DEF Consistent
<1>4. Tries(m, owner) = {}
  BY <1>3 DEF Tries, SlotsMatch
<1>5. InLine(m, n, keys) /\ (m.queue # NoQueue => m.queue.running \subseteq n.queue.running)
  BY <1>2, SamePlaces DEF InLine
<1>6. Stays(m, n, keys)
  BY <1>1, <1>2, <1>4, <1>5, AdmissionChangeStays
<1> QED
  BY <1>2, <1>6 DEF n

LEMMA LeasedStays ==
  ASSUME NEW m, Consistent(m), NEW owner \in Owners,
         m.admissions[owner] # NoAdmission, NEW keys
  PROVE  LET n == [m EXCEPT !.admissions[owner].busy = TRUE]
         IN  Stays(m, n, keys) /\ n.queue = m.queue
<1> DEFINE n == [m EXCEPT !.admissions[owner].busy = TRUE]
           a == m.admissions[owner]
           b == [a EXCEPT !.busy = TRUE]
<1>1. /\ m = [queue |-> m.queue, admissions |-> m.admissions, claims |-> m.claims]
      /\ m.admissions \in [Owners -> Admission \cup {NoAdmission}]
      /\ a \in Admission
  BY DEF Consistent, Typed
<1>2. n = [m EXCEPT !.admissions[owner] = b]
  OBVIOUS
<1>3. Tries(m, owner) = a.attempts
  BY DEF Tries
<1> HIDE DEF n, a
<1>4. b \in Admission /\ b.attempts = a.attempts
  BY <1>1 DEF Admission
<1> HIDE DEF b
<1>5. n = [queue |-> m.queue, admissions |-> [m.admissions EXCEPT ![owner] = b],
           claims |-> m.claims]
  BY <1>1, <1>2
<1>6. /\ n.queue = m.queue /\ n.claims = m.claims
      /\ n.admissions = [m.admissions EXCEPT ![owner] = b]
  BY <1>5
<1>7. b # NoAdmission
  BY <1>4, NoAdmissionIsNone
<1>8. InLine(m, n, keys) /\ (m.queue # NoQueue => m.queue.running \subseteq n.queue.running)
  BY <1>6, SamePlaces DEF InLine
<1>9. Stays(m, n, keys)
  BY <1>1, <1>3, <1>4, <1>6, <1>7, <1>8, AdmissionChangeStays
<1> QED
  BY <1>6, <1>9 DEF n

----------------------------------------------------------------------------
(* What AcquireAdmission does about slots that no admission is starting a  *)
(* run in, and about owners that have given up their place.                *)
Loose(m, k) == Holds(m, k) /\ m.claims[k] = NoOwner

GaveUp(m, o) ==
  /\ m.admissions[o] # NoAdmission
  /\ m.admissions[o].promotion \/ m.admissions[o].releasedOwner

\* No slot is taken without a claim, and only owner claims and gives up.
Tidy(m, n, owner) ==
  /\ \A k \in Keys : Loose(n, k) => Loose(m, k)
  /\ \A k \in Keys, o \in Owners \ {owner} : n.claims[k] = o => m.claims[k] = o
  /\ \A o \in Owners \ {owner} : GaveUp(n, o) => GaveUp(m, o)

\* The key has no slot, but for one that owner may have claimed since.
Placeless(m, key, owner) ==
  ~Loose(m, key) /\ \A o \in Owners \ {owner} : m.claims[key] # o

LEMMA TidyComposes ==
  ASSUME NEW l, NEW m, NEW n, NEW owner, Tidy(l, m, owner), Tidy(m, n, owner)
  PROVE  Tidy(l, n, owner)
BY DEF Tidy

LEMMA TidyReflexive ==
  ASSUME NEW m, NEW owner
  PROVE  Tidy(m, m, owner)
BY DEF Tidy

LEMMA PlacelessStays ==
  ASSUME NEW m, NEW n, NEW owner, Tidy(m, n, owner), NEW key \in Keys,
         Placeless(m, key, owner)
  PROVE  Placeless(n, key, owner)
BY DEF Tidy, Placeless

LEMMA QueueOnlyTidy ==
  ASSUME NEW m, NEW n, NEW owner, n.admissions = m.admissions, n.claims = m.claims,
         TakesNone(m, n)
  PROVE  Tidy(m, n, owner) /\ \A o : GaveUp(n, o) <=> GaveUp(m, o)
<1>1. \A o : GaveUp(n, o) <=> GaveUp(m, o)
  BY Zenon DEF GaveUp
<1> QED
  BY <1>1 DEF Tidy, TakesNone, Loose

\* One admission changes, and at most its claims and slots are new.
LEMMA AdmissionChangeTidy ==
  ASSUME NEW m, NEW n, NEW owner \in Owners, NEW a,
         m.admissions \in [Owners -> Admission \cup {NoAdmission}],
         n.admissions = [m.admissions EXCEPT ![owner] = a],
         \A k \in Keys : n.claims[k] = m.claims[k] \/ n.claims[k] = owner,
         \A k \in Keys : Holds(n, k) => Holds(m, k) \/ n.claims[k] = owner
  PROVE  Tidy(m, n, owner)
<1>1. \A o \in Owners \ {owner} : n.admissions[o] = m.admissions[o]
  OBVIOUS
<1>2. \A o \in Owners \ {owner} : GaveUp(n, o) => GaveUp(m, o)
  BY <1>1 DEF GaveUp
<1>3. \A k \in Keys : Loose(n, k) => Loose(m, k)
  BY OwnersAreSome DEF Loose
<1> QED
  BY <1>2, <1>3 DEF Tidy

LEMMA RemoveKeyTidy ==
  ASSUME NEW m, Consistent(m), m.queue # NoQueue, NEW key \in Keys, NEW other
  PROVE  LET n == removeKey(m, key)
         IN  /\ Tidy(m, n, other) /\ Placeless(n, key, other)
             /\ \A o \in Owners : GaveUp(n, o) => GaveUp(m, o)
<1> DEFINE n == removeKey(m, key)
           owner == m.claims[key]
           q == removeFromQueue(release(m.queue, {key}), {key})
           b == Bereft(m.admissions[owner], key)
<1>1. /\ n.queue = q
      /\ n.admissions = IF owner = NoOwner THEN m.admissions
                        ELSE [m.admissions EXCEPT ![owner] = b]
      /\ n.claims = [m.claims EXCEPT ![key] = NoOwner]
  <2>1. n = [queue |-> q,
             admissions |-> IF owner = NoOwner THEN m.admissions
                            ELSE [m.admissions EXCEPT ![owner] = b],
             claims |-> [m.claims EXCEPT ![key] = NoOwner]]
    BY RemoveKeyView
  <2> HIDE DEF n, q, b, owner
  <2> QED
    BY <2>1
<1>2. /\ m.admissions \in [Owners -> Admission \cup {NoAdmission}]
      /\ m.claims \in [Keys -> Owners \cup {NoOwner}]
      /\ WellFormed(m.queue, Keys) /\ PermitsMatch(m.queue)
  BY DEF Consistent, Typed, Sound
<1>3. q.running = m.queue.running \ {key}
  BY <1>2, KeyLeavesQueue
<1> HIDE DEF n, q, b
<1>4. ASSUME NEW o \in Owners, GaveUp(n, o)
      PROVE  GaveUp(m, o)
  <2>1. CASE owner = NoOwner \/ o # owner
    <3>1. n.admissions[o] = m.admissions[o]
      BY <1>1, <1>2, <2>1
    <3> QED
      BY <1>4, <3>1 DEF GaveUp
  <2>2. CASE owner # NoOwner /\ o = owner
    <3> DEFINE a == m.admissions[owner]
    <3>1. owner \in Owners /\ n.admissions[owner] = b
      BY <1>1, <1>2, <2>2
    <3>2. a # NoAdmission /\ a \in Admission
      BY <1>2, <3>1, <2>2 DEF Consistent, ClaimsMatch
    <3> HIDE DEF a, owner
    <3>3. b # NoAdmission => b.promotion = a.promotion /\ b.releasedOwner = a.releasedOwner
      BY <3>2, BereftOK DEF b, a
    <3> QED
      BY <1>4, <2>2, <3>1, <3>2, <3>3 DEF GaveUp, a
  <2> QED
    BY <2>1, <2>2
<1>5. ~Holds(n, key) /\ \A k \in Keys : Holds(n, k) => Holds(m, k)
  BY <1>1, <1>3 DEF Holds
<1>6. n.claims[key] = NoOwner /\ \A k \in Keys : n.claims[k] = m.claims[k] \/ n.claims[k] = NoOwner
  BY <1>1, <1>2
<1>7. \A k \in Keys \ {key} : n.claims[k] = m.claims[k]
  BY <1>1, <1>2
<1>8. Placeless(n, key, other)
  BY <1>5, <1>6, OwnersAreSome DEF Placeless, Loose
<1>9. Tidy(m, n, other)
  <2>1. \A k \in Keys : Loose(n, k) => Loose(m, k)
    BY <1>5, <1>7 DEF Loose
  <2>2. \A k \in Keys, o \in Owners : n.claims[k] = o => m.claims[k] = o
    BY <1>6, OwnersAreSome
  <2> QED
    BY <1>4, <2>1, <2>2 DEF Tidy
<1> QED
  BY <1>4, <1>8, <1>9 DEF n

LEMMA RegisteredTidy ==
  ASSUME NEW m, Consistent(m), m.queue # NoQueue, NEW owner \in Owners, NEW mode
  PROVE  LET n == registered(m, owner, mode)
         IN  /\ Tidy(m, n, owner)
             /\ m.admissions[owner] # NoAdmission => n.admissions[owner] = m.admissions[owner]
             /\ m.admissions[owner] = NoAdmission =>
                  /\ GaveUp(n, owner) => mode = Promotion
                  /\ mode = Promotion => Placeless(n, KeyOf(owner), owner)
<1> DEFINE n == registered(m, owner, mode)
<1>1. CASE m.admissions[owner] # NoAdmission
  <2>1. n = m
    BY <1>1 DEF registered
  <2> HIDE DEF n
  <2> QED
    BY <1>1, <2>1, TidyReflexive DEF n
<1>2. CASE m.admissions[owner] = NoAdmission
  <2> DEFINE base == IF mode = Promotion THEN removeKey(m, KeyOf(owner)) ELSE m
             a == newAdmission(mode = Promotion)
  <2>1. KeyOf(owner) \in Keys
    BY DEF KeyOf, Owners
  <2>2. /\ Consistent(base) /\ Tidy(m, base, owner)
        /\ mode = Promotion => Placeless(base, KeyOf(owner), owner)
    <3>1. CASE mode = Promotion
      BY <2>1, <3>1, RemoveKeyOK, RemoveKeyTidy
    <3>2. CASE mode # Promotion
      BY <3>2, TidyReflexive
    <3> QED
      BY <3>1, <3>2
  <2>3. n = [base EXCEPT !.admissions[owner] = a]
    BY <1>2 DEF registered
  <2>4. a.promotion = (mode = Promotion) /\ a.releasedOwner = FALSE
    BY DEF newAdmission
  <2> HIDE DEF base, a, n
  <2>5. /\ base = [queue |-> base.queue, admissions |-> base.admissions, claims |-> base.claims]
        /\ base.admissions \in [Owners -> Admission \cup {NoAdmission}]
    BY <2>2 DEF Consistent, Typed
  <2>6. n = [queue |-> base.queue, admissions |-> [base.admissions EXCEPT ![owner] = a],
             claims |-> base.claims]
    BY <2>3, <2>5
  <2>7. n.queue = base.queue /\ n.claims = base.claims
        /\ n.admissions = [base.admissions EXCEPT ![owner] = a]
    BY <2>6
  <2>8. Tidy(base, n, owner)
    BY <2>5, <2>7, AdmissionChangeTidy DEF Holds
  <2>9. Tidy(m, n, owner)
    BY <2>2, <2>8, TidyComposes
  <2>10. n.admissions[owner] = a
    BY <2>5, <2>7
  <2>11. GaveUp(n, owner) => mode = Promotion
    BY <2>4, <2>10 DEF GaveUp
  <2>12. mode = Promotion => Placeless(n, KeyOf(owner), owner)
    BY <2>1, <2>2, <2>8, PlacelessStays
  <2> QED
    BY <1>2, <2>9, <2>11, <2>12 DEF n
<1> QED
  BY <1>1, <1>2

LEMMA ListedTidy ==
  ASSUME NEW m, Consistent(m), m.queue # NoQueue, NEW list \in Seq(Keys), NEW owner
  PROVE  LET n == listed(m, list)
         IN  Tidy(m, n, owner) /\ \A o : GaveUp(n, o) <=> GaveUp(m, o)
<1> DEFINE n == listed(m, list)
<1>1. n.admissions = m.admissions /\ n.claims = m.claims /\ TakesNone(m, n)
  BY ListedOK
<1> HIDE DEF n
<1> QED
  BY <1>1, QueueOnlyTidy DEF n

LEMMA ReservedAgainTidy ==
  ASSUME NEW m, Consistent(m), m.queue # NoQueue,
         NEW owner \in Owners, m.admissions[owner] # NoAdmission
  PROVE  LET n == reservedAgain(m, owner)
         IN  Tidy(m, n, owner) /\ (GaveUp(n, owner) => GaveUp(m, owner))
<1> DEFINE n == reservedAgain(m, owner)
           a == m.admissions[owner]
           waiting == a.cands \ a.reserved
           size == Cardinality(waiting)
           batch == Batch(m.queue, waiting, size)
           q == acquireBatch(m.queue, waiting, size)
           b == [a EXCEPT !.reserved = @ \cup batch]
<1>1. /\ m.admissions \in [Owners -> Admission \cup {NoAdmission}]
      /\ WellFormed(m.queue, Keys) /\ PermitsMatch(m.queue)
      /\ a \in Admission
      /\ \A k \in Keys : m.claims[k] = owner <=> k \in a.cands
  BY DEF Consistent, Typed, Sound, ClaimsMatch
<1>2. size \in Nat
  BY <1>1, SizesAreNat DEF Admission
<1>3. /\ q.running = m.queue.running \cup batch
      /\ batch \subseteq m.queue.pending \cap waiting
  <2> HIDE DEF size, waiting
  <2> QED
    BY <1>1, <1>2, AcquireBatchOK, AdmissionsAssumption
<1>4. n = [queue |-> q, admissions |-> [m.admissions EXCEPT ![owner] = b], claims |-> m.claims]
  BY ReservedAgainView
<1>5. batch \subseteq a.cands /\ batch \subseteq Keys
  BY <1>1, <1>3 DEF Admission
<1>a. a # NoAdmission
  OBVIOUS
<1> HIDE DEF n, a, q, batch, size, waiting
<1>6. /\ n.queue = q /\ n.claims = m.claims
      /\ n.admissions = [m.admissions EXCEPT ![owner] = b]
  BY <1>4
<1>7. b.promotion = a.promotion /\ b.releasedOwner = a.releasedOwner
  BY <1>1 DEF Admission
<1> HIDE DEF b
<1>8. \A k \in Keys : Holds(n, k) => Holds(m, k) \/ n.claims[k] = owner
  BY <1>1, <1>3, <1>5, <1>6 DEF Holds
<1>9. Tidy(m, n, owner)
  BY <1>1, <1>6, <1>8, AdmissionChangeTidy
<1>10. n.admissions[owner] = b /\ m.admissions[owner] = a
  BY <1>1, <1>6 DEF a
<1>11. GaveUp(n, owner) => GaveUp(m, owner)
  BY <1>7, <1>10, <1>a DEF GaveUp
<1> QED
  BY <1>9, <1>11 DEF n

LEMMA FilledTidy ==
  ASSUME NEW m, Consistent(m), m.queue # NoQueue,
         NEW owner \in Owners, m.admissions[owner] # NoAdmission
  PROVE  LET n == filled(m, owner)
         IN  Tidy(m, n, owner) /\ (GaveUp(n, owner) => GaveUp(m, owner))
<1> DEFINE n == filled(m, owner)
           a == m.admissions[owner]
<1>1. CASE a.cands # {} \/ a.done
  <2>1. n = m
    BY <1>1 DEF filled
  <2> HIDE DEF n
  <2> QED
    BY <2>1, TidyReflexive DEF n
<1>2. CASE a.cands = {} /\ ~a.done
  <2> DEFINE size == IF a.promotion THEN 1
                     ELSE IF m.queue.limit = 0 THEN Cardinality(m.queue.pending)
                     ELSE m.queue.limit
             batch == Batch(m.queue, Unclaimed(m), size)
             q == acquireBatch(m.queue, Unclaimed(m), size)
             over == batch = {} /\ nextPending(m.queue) \subseteq Unclaimed(m)
             b == [a EXCEPT !.cands = batch, !.reserved = batch, !.done = over]
             cl == [k \in Keys |-> IF k \in batch THEN owner ELSE m.claims[k]]
  <2>1. /\ m.admissions \in [Owners -> Admission \cup {NoAdmission}]
        /\ WellFormed(m.queue, Keys) /\ PermitsMatch(m.queue)
        /\ a \in Admission /\ a # NoAdmission
    BY DEF Consistent, Typed, Sound
  <2>2. size \in Nat
    BY <2>1, SizeOfBatch
  <2>3. q.running = m.queue.running \cup batch
    <3> HIDE DEF size
    <3> QED
      BY <2>1, <2>2, AcquireBatchOK, AdmissionsAssumption
  <2>4. n = [queue |-> q, admissions |-> [m.admissions EXCEPT ![owner] = b], claims |-> cl]
    BY <1>2, FilledView
  <2> HIDE DEF n, a, q, batch, size, over
  <2>5. /\ n.queue = q /\ n.claims = cl
        /\ n.admissions = [m.admissions EXCEPT ![owner] = b]
    BY <2>4
  <2>6. b.promotion = a.promotion /\ b.releasedOwner = a.releasedOwner
    BY <2>1 DEF Admission
  <2> HIDE DEF b
  <2>7. \A k \in Keys : n.claims[k] = IF k \in batch THEN owner ELSE m.claims[k]
    BY <2>5
  <2> HIDE DEF cl
  <2>8. \A k \in Keys : Holds(n, k) => Holds(m, k) \/ n.claims[k] = owner
    BY <2>3, <2>5, <2>7 DEF Holds
  <2>9. \A k \in Keys : n.claims[k] = m.claims[k] \/ n.claims[k] = owner
    BY <2>7
  <2>10. Tidy(m, n, owner)
    BY <2>1, <2>5, <2>8, <2>9, AdmissionChangeTidy
  <2>11. n.admissions[owner] = b /\ m.admissions[owner] = a
    BY <2>1, <2>5 DEF a
  <2>12. GaveUp(n, owner) => GaveUp(m, owner)
    BY <2>1, <2>6, <2>11 DEF GaveUp
  <2> QED
    BY <2>10, <2>12 DEF n
<1> QED
  BY <1>1, <1>2

LEMMA OwnerReleasedTidy ==
  ASSUME NEW m, Consistent(m), m.queue # NoQueue,
         NEW owner \in Owners, m.admissions[owner] # NoAdmission,
         NEW mode, NEW finishing
  PROVE  LET n == ownerReleased(m, owner, mode, finishing)
         IN  /\ Tidy(m, n, owner)
             /\ GaveUp(n, owner) /\ ~GaveUp(m, owner) =>
                  mode = Resume /\ finishing /\ Placeless(n, KeyOf(owner), owner)
<1> DEFINE n == ownerReleased(m, owner, mode, finishing)
           moving == mode = Resume /\ finishing /\ Queued(m, KeyOf(owner))
<1>1. CASE ~moving
  <2>1. n = m
    BY <1>1 DEF ownerReleased
  <2> HIDE DEF n
  <2> QED
    BY <2>1, TidyReflexive DEF n
<1>2. CASE moving
  <2> DEFINE a == m.admissions[owner]
             b == [a EXCEPT !.releasedOwner = TRUE]
             marked == [m EXCEPT !.admissions[owner] = b]
             freed == removeKey(marked, KeyOf(owner))
             c == freed.admissions[owner]
             d == [c EXCEPT !.done = @ \/ c.cands = {}]
  <2>1. KeyOf(owner) \in Keys
    BY <1>2 DEF KeyOf, Owners
  <2>2. a \in Admission /\ SlotsMatch(a, m.queue) /\ HandsOver(a)
    BY DEF Consistent, Typed
  <2>3. \A k \in Keys : m.claims[k] = owner <=> k \in a.cands
    BY DEF Consistent, ClaimsMatch
  <2>4. [m EXCEPT !.admissions[owner].releasedOwner = TRUE] = marked
    OBVIOUS
  <2>5. n = [freed EXCEPT !.admissions[owner] = d]
    <3>1. n = [freed EXCEPT !.admissions[owner].done = @ \/ freed.admissions[owner].cands = {}]
      BY <1>2 DEF ownerReleased
    <3> HIDE DEF freed, n
    <3> QED
      BY <3>1
  <2> HIDE DEF a
  <2>6. /\ b \in Admission
        /\ b.promotion = a.promotion /\ b.done = a.done
        /\ b.cands = a.cands /\ b.reserved = a.reserved /\ b.attempts = a.attempts
    BY <2>2 DEF Admission
  <2> HIDE DEF b
  <2>7. SlotsMatch(b, m.queue) /\ HandsOver(b)
    <3>1. SlotsMatch(b, m.queue)
      BY <2>2, <2>6 DEF SlotsMatch
    <3>2. HandsOver(b)
      BY <2>2, <2>6 DEF HandsOver
    <3> QED
      BY <3>1, <3>2
  <2>8. \A k \in Keys : m.claims[k] = owner <=> k \in b.cands
    BY <2>3, <2>6
  <2>9. /\ Consistent(marked) /\ marked.queue = m.queue /\ marked.claims = m.claims
        /\ marked.admissions = [m.admissions EXCEPT ![owner] = b]
    BY <2>6, <2>7, <2>8, AdmissionChangeOK
  <2> HIDE DEF marked
  <2>10. m.admissions \in [Owners -> Admission \cup {NoAdmission}]
    BY DEF Consistent, Typed
  <2>11. Tidy(m, marked, owner)
    BY <2>9, <2>10, AdmissionChangeTidy DEF Holds
  <2>12. Consistent(freed) /\ Tidy(marked, freed, owner) /\ Placeless(freed, KeyOf(owner), owner)
    <3> DEFINE key == KeyOf(owner)
    <3>1. marked.queue # NoQueue /\ key \in Keys /\ freed = removeKey(marked, key)
      BY <2>1, <2>9
    <3> HIDE DEF key, freed
    <3>2. Consistent(removeKey(marked, key))
      BY <2>9, <3>1, RemoveKeyOK
    <3>3. Tidy(marked, removeKey(marked, key), owner) /\ Placeless(removeKey(marked, key), key, owner)
      BY <2>9, <3>1, RemoveKeyTidy
    <3> QED
      BY <3>1, <3>2, <3>3 DEF key
  <2> HIDE DEF freed, c, d, n
  <2>13. freed.admissions \in [Owners -> Admission \cup {NoAdmission}]
         /\ freed = [queue |-> freed.queue, admissions |-> freed.admissions,
                     claims |-> freed.claims]
    BY <2>12 DEF Consistent, Typed
  <2>14. n = [queue |-> freed.queue, admissions |-> [freed.admissions EXCEPT ![owner] = d],
              claims |-> freed.claims]
    BY <2>5, <2>13
  <2>15. /\ n.queue = freed.queue /\ n.claims = freed.claims
         /\ n.admissions = [freed.admissions EXCEPT ![owner] = d]
    BY <2>14
  <2>16. Tidy(freed, n, owner)
    BY <2>13, <2>15, AdmissionChangeTidy DEF Holds
  <2>17. Tidy(m, n, owner)
    BY <2>11, <2>12, <2>16, TidyComposes
  <2>18. Placeless(n, KeyOf(owner), owner)
    BY <2>1, <2>12, <2>16, PlacelessStays
  <2> QED
    BY <1>2, <2>17, <2>18 DEF n
<1> QED
  BY <1>1, <1>2

(* AcquireAdmission takes a slot only for a claim, and an owner that gives *)
(* up its place has none afterwards, unless it claims its own key again.   *)
LEMMA PreparedTidy ==
  ASSUME NEW m, Consistent(m), NEW owner \in Owners, ~Busy(m, owner),
         NEW list \in Seq(Keys), NEW mode, NEW finishing, NEW limit \in Nat,
         m.admissions[owner] # NoAdmission =>
           (m.admissions[owner].promotion <=> mode = Promotion)
  PROVE  LET n == prepared(m, owner, list, mode, finishing, limit)
         IN  /\ Tidy(m, n, owner)
             /\ mode = Promotion \/ GaveUp(n, owner) =>
                  \/ GaveUp(m, owner)
                  \/ /\ Placeless(n, KeyOf(owner), owner)
                     /\ mode = Promotion \/ (mode = Resume /\ finishing)
<1> DEFINE m1 == getSemaphore(m, limit)
           m2 == registered(m1, owner, mode)
           m3 == ownerReleased(m2, owner, mode, finishing)
           m4 == listed(m3, list)
           m5 == reservedAgain(m4, owner)
           n == filled(m5, owner)
           key == KeyOf(owner)
<1>1. prepared(m, owner, list, mode, finishing, limit) = n
  BY DEF prepared
<1>2. /\ Consistent(m1) /\ m1.queue # NoQueue
      /\ m1.admissions = m.admissions /\ m1.claims = m.claims /\ TakesNone(m, m1)
  BY GetSemaphoreOK
<1> HIDE DEF m1
<1>3. Tidy(m, m1, owner)
  BY <1>2, QueueOnlyTidy
<1>4. Consistent(m2) /\ m2.queue # NoQueue /\ m2.admissions[owner] # NoAdmission
  BY <1>2, RegisteredOK
<1>5. /\ Tidy(m1, m2, owner)
      /\ m1.admissions[owner] # NoAdmission => m2.admissions[owner] = m1.admissions[owner]
      /\ m1.admissions[owner] = NoAdmission =>
           /\ GaveUp(m2, owner) => mode = Promotion
           /\ mode = Promotion => Placeless(m2, key, owner)
  BY <1>2, RegisteredTidy
<1> HIDE DEF m2
<1>6. Consistent(m3) /\ m3.queue # NoQueue /\ m3.admissions[owner] # NoAdmission
  BY <1>4, OwnerReleasedOK
<1>7. /\ Tidy(m2, m3, owner)
      /\ GaveUp(m3, owner) /\ ~GaveUp(m2, owner) =>
           mode = Resume /\ finishing /\ Placeless(m3, key, owner)
  BY <1>4, OwnerReleasedTidy
<1> HIDE DEF m3
<1>8. Consistent(m4) /\ m4.queue # NoQueue /\ m4.admissions = m3.admissions
  BY <1>6, ListedOK
<1>9. Tidy(m3, m4, owner) /\ (GaveUp(m4, owner) => GaveUp(m3, owner))
  BY <1>6, ListedTidy
<1> HIDE DEF m4
<1>10. m4.admissions[owner] # NoAdmission
  BY <1>6, <1>8
<1>11. Consistent(m5) /\ m5.queue # NoQueue /\ m5.admissions[owner] # NoAdmission
  BY <1>8, <1>10, ReservedAgainOK
<1>12. Tidy(m4, m5, owner) /\ (GaveUp(m5, owner) => GaveUp(m4, owner))
  BY <1>8, <1>10, ReservedAgainTidy
<1> HIDE DEF m5
<1>13. Tidy(m5, n, owner) /\ (GaveUp(n, owner) => GaveUp(m5, owner))
  BY <1>11, FilledTidy
<1> HIDE DEF n
<1>14. Tidy(m3, n, owner)
  BY <1>9, <1>12, <1>13, TidyComposes
<1>15. Tidy(m2, n, owner)
  BY <1>7, <1>14, TidyComposes
<1>16. Tidy(m, n, owner)
  BY <1>3, <1>5, <1>15, TidyComposes
<1>17. key \in Keys
  BY DEF KeyOf, Owners
<1> HIDE DEF key
<1>18. ASSUME mode = Promotion \/ GaveUp(n, owner), ~GaveUp(m, owner)
       PROVE  /\ Placeless(n, key, owner)
              /\ mode = Promotion \/ (mode = Resume /\ finishing)
  <2>1. CASE mode = Promotion
    <3>1. m.admissions[owner] = NoAdmission
      BY <1>18, <2>1 DEF GaveUp
    <3>2. Placeless(m2, key, owner)
      BY <1>2, <1>5, <2>1, <3>1
    <3> QED
      BY <1>15, <1>17, <2>1, <3>2, PlacelessStays
  <2>2. CASE mode # Promotion
    <3>1. GaveUp(m3, owner)
      BY <1>9, <1>12, <1>13, <1>18, <2>2
    <3>2. ~GaveUp(m2, owner)
      <4>1. CASE m.admissions[owner] = NoAdmission
        BY <1>2, <1>5, <2>2, <4>1
      <4>2. CASE m.admissions[owner] # NoAdmission
        BY <1>2, <1>5, <1>18, <4>2 DEF GaveUp
      <4> QED
        BY <4>1, <4>2
    <3>3. mode = Resume /\ finishing /\ Placeless(m3, key, owner)
      BY <1>7, <3>1, <3>2
    <3> QED
      BY <1>14, <1>17, <3>3, PlacelessStays
  <2> QED
    BY <2>1, <2>2
<1> QED
  BY <1>1, <1>16, <1>18 DEF key

(* FinishAdmission makes no owner give its place up: it turns the batch of *)
(* one that did into its handoff (admission.go:228).                       *)
LEMMA RecordedGivesNoneUp ==
  ASSUME NEW m, Consistent(m), NEW owner \in Owners, m.admissions[owner] # NoAdmission,
         NEW live, NEW succeeded, NEW gone, NEW attempts
  PROVE  LET n == recorded(m, owner, live, succeeded, gone, attempts)
         IN  \A o \in Owners : GaveUp(n, o) => GaveUp(m, o)
<1> DEFINE n == recorded(m, owner, live, succeeded, gone, attempts)
           c == AfterBatch(m, owner, live, succeeded, gone, attempts)
           a == m.admissions[owner]
<1>1. m.admissions \in [Owners -> Admission \cup {NoAdmission}] /\ a \in Admission
  BY DEF Consistent, Typed
<1>2. c # NoAdmission /\ (c.promotion \/ c.releasedOwner) => a.promotion \/ a.releasedOwner
  <2> DEFINE over == live \cap (succeeded \cup gone)
             again == live \ over
             left == Without(a, over)
             tried == {t \in left.attempts : t[1] \notin again}
                        \cup {t \in attempts : t[1] \in again}
             finished == left.done \/ live \cap succeeded # {}
             rest == left.reserved \ Unsent(m, live, succeeded, gone, attempts)
             b == [left EXCEPT !.busy = FALSE, !.done = finished,
                               !.reserved = rest, !.attempts = tried]
             over2 == ~b.promotion /\ b.cands = {}
  <2>1. left \in [promotion : {a.promotion}, busy : BOOLEAN, done : BOOLEAN,
                  releasedOwner : {a.releasedOwner}, cands : SUBSET Keys,
                  reserved : SUBSET Keys, attempts : SUBSET (Keys \X UIDs)]
    <3> HIDE DEF a, over
    <3> QED
      BY <1>1 DEF Without, Admission
  <2>2. c = IF over2 /\ b.releasedOwner THEN [b EXCEPT !.promotion = TRUE, !.done = FALSE]
            ELSE IF over2 /\ b.done THEN NoAdmission ELSE b
    BY DEF AfterBatch
  <2> HIDE DEF left, over, tried, finished, rest, a, c
  <2>3. b.promotion = a.promotion /\ b.releasedOwner = a.releasedOwner
    BY <2>1
  <2>4. [b EXCEPT !.promotion = TRUE, !.done = FALSE].releasedOwner = b.releasedOwner
    BY <2>1
  <2> HIDE DEF b
  <2> QED
    BY <2>2, <2>3, <2>4
<1>3. n.admissions = [m.admissions EXCEPT ![owner] = c]
  <2> HIDE DEF n, c
  <2>1. IsRecorded(n, m, owner, live, succeeded, gone, attempts)
    BY RecordedView DEF n
  <2> QED
    BY <2>1 DEF IsRecorded, c
<1> HIDE DEF n, c
<1>4. ASSUME NEW o \in Owners, GaveUp(n, o) PROVE GaveUp(m, o)
  <2>1. CASE o = owner
    BY <1>1, <1>2, <1>3, <1>4, <2>1 DEF GaveUp
  <2>2. CASE o # owner
    BY <1>1, <1>3, <1>4, <2>2 DEF GaveUp
  <2> QED
    BY <2>1, <2>2
<1> QED
  BY <1>4 DEF n

LEMMA LeasedTidy ==
  ASSUME NEW m, Consistent(m), NEW owner \in Owners, m.admissions[owner] # NoAdmission
  PROVE  LET n == [m EXCEPT !.admissions[owner].busy = TRUE]
         IN  Tidy(m, n, owner) /\ \A o \in Owners : GaveUp(n, o) => GaveUp(m, o)
<1> DEFINE n == [m EXCEPT !.admissions[owner].busy = TRUE]
           a == m.admissions[owner]
           b == [a EXCEPT !.busy = TRUE]
<1>1. m = [queue |-> m.queue, admissions |-> m.admissions, claims |-> m.claims]
      /\ m.admissions \in [Owners -> Admission \cup {NoAdmission}] /\ a \in Admission
  BY DEF Consistent, Typed
<1>2. b.promotion = a.promotion /\ b.releasedOwner = a.releasedOwner
  <2> HIDE DEF a
  <2> QED
    BY <1>1 DEF Admission
<1>3. n = [queue |-> m.queue, admissions |-> [m.admissions EXCEPT ![owner] = b],
           claims |-> m.claims]
  <2>1. n = [m EXCEPT !.admissions = [m.admissions EXCEPT ![owner] = b]]
    BY <1>1
  <2> HIDE DEF n, b
  <2> QED
    BY <1>1, <2>1
<1> HIDE DEF n, b
<1>4. /\ n.queue = m.queue /\ n.claims = m.claims
      /\ n.admissions = [m.admissions EXCEPT ![owner] = b]
  BY <1>3
<1>5. ASSUME NEW o \in Owners, GaveUp(n, o) PROVE GaveUp(m, o)
  <2>1. CASE o = owner
    BY <1>1, <1>2, <1>4, <1>5, <2>1 DEF GaveUp
  <2>2. CASE o # owner
    BY <1>1, <1>4, <1>5, <2>2 DEF GaveUp
  <2> QED
    BY <2>1, <2>2
<1>6. Tidy(m, n, owner)
  BY <1>4, <1>5 DEF Tidy, Loose, Holds
<1> QED
  BY <1>5, <1>6 DEF n
=============================================================================
