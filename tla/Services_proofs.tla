--------------------------- MODULE Services_proofs ---------------------------
(***************************************************************************)
(* Theorems of the services beside the queue and the controller.  They     *)
(* share nothing that changes, so each has an invariant of its own.        *)
(***************************************************************************)
EXTENDS Retries, TokenRotation, Settings, Analysis, HostPolicy, Cleanup, Resolution, TLAPS, WellFoundedInduction, FiniteSetTheorems,
        SequenceTheorems

(***************************************************************************)
(* Retries: a request that changes something is carried out at most once,  *)
(* every attempt carries the whole body, and the waits are those asked for,*)
(* for every setting of the attempts and of the longest wait.              *)
(***************************************************************************)

\* A set of numbers that is not empty has a smallest one: what the recursive
\* definition of the doubling is proved by.
LEMMA SmallestOne ==
    ASSUME NEW T \in SUBSET Nat, T # {}
    PROVE  \E x \in T : \A y \in T : x <= y
<1> DEFINE R == OpToRel(<, Nat)
<1>1. IsWellFoundedOn(R, Nat)
  BY NatLessThanWellFounded
<1>2. \A x, y \in Nat : x < y => <<x, y>> \in R
  BY DEF OpToRel
<1> HIDE DEF R
<1>3. PICK x \in T : \A y \in T : ~ (<<y, x>> \in R)
  BY <1>1, WFMin
<1>4. ASSUME NEW y \in T PROVE x <= y
  <2>1. x \in Nat /\ y \in Nat
    BY <1>3, <1>4
  <2>2. ~(y < x)
    BY <2>1, <1>2, <1>3, <1>4
  <2> QED
    BY <2>1, <2>2
<1> QED
  BY <1>4

\* The doubling up to a number, as a function of its own.
Doublings(n) == {f \in [1 .. n -> Nat] : \A i \in 1 .. n : f[i] = IF i = 1 THEN Second ELSE 2 * f[i - 1]}

\* There is such a function for every number.
LEMMA DoublingsExist == \A n \in Nat : Doublings(n) # {}
<1> SUFFICES ASSUME \E n \in Nat : Doublings(n) = {} PROVE FALSE
  OBVIOUS
<1> DEFINE T == {n \in Nat : Doublings(n) = {}}
<1>1. PICK n \in T : \A y \in T : n <= y
  BY SmallestOne
<1>2. n # 0
  <2>1. [i \in 1 .. 0 |-> 0] \in Doublings(0)
    BY DEF Doublings
  <2> QED
    BY <2>1, <1>1
<1>3. n \in Nat /\ n - 1 \in Nat /\ n - 1 \notin T
  BY <1>1, <1>2
<1>4. PICK f : f \in Doublings(n - 1)
  BY <1>3
<1> DEFINE g == [i \in 1 .. n |-> IF i < n THEN f[i] ELSE IF i = 1 THEN Second ELSE 2 * f[i - 1]]
<1>5. f \in [1 .. n - 1 -> Nat] /\ \A i \in 1 .. n - 1 : f[i] = IF i = 1 THEN Second ELSE 2 * f[i - 1]
  BY <1>4 DEF Doublings
<1>6. g \in [1 .. n -> Nat]
  BY <1>3, <1>5 DEF Second
<1>7. ASSUME NEW i \in 1 .. n PROVE g[i] = IF i = 1 THEN Second ELSE 2 * g[i - 1]
  BY <1>3, <1>5
<1>8. g \in Doublings(n)
  BY <1>6, <1>7 DEF Doublings
<1> QED
  BY <1>1, <1>8

\* Two of them agree where both are defined.
LEMMA DoublingsAgree ==
    ASSUME NEW n \in Nat, NEW m \in Nat, NEW f \in Doublings(n), NEW g \in Doublings(m), NEW k \in 1 .. n, k <= m
    PROVE  f[k] = g[k]
<1> SUFFICES ASSUME f[k] # g[k] PROVE FALSE
  OBVIOUS
<1> DEFINE T == {i \in Nat : i \in 1 .. n /\ i <= m /\ f[i] # g[i]}
<1>1. k \in T
  OBVIOUS
<1>2. PICK i \in T : \A y \in T : i <= y
  BY <1>1, SmallestOne
<1>3. f[i] = (IF i = 1 THEN Second ELSE 2 * f[i - 1]) /\ g[i] = IF i = 1 THEN Second ELSE 2 * g[i - 1]
  BY <1>2 DEF Doublings
<1>4. i # 1 => f[i - 1] = g[i - 1]
  BY <1>2
<1> QED
  BY <1>2, <1>3, <1>4

\* The doubling of the wait (retryhttp.go:168) is a number after every attempt.
LEMMA DoubledIsANumber ==
    /\ Doubled = [n \in Nat \ {0} |-> IF n = 1 THEN Second ELSE 2 * Doubled[n - 1]]
    /\ Doubled \in [Nat \ {0} -> Nat]
<1> DEFINE Doubles(h) == h = [n \in Nat \ {0} |-> IF n = 1 THEN Second ELSE 2 * h[n - 1]]
           U(n) == CHOOSE f : f \in Doublings(n)
           H == [n \in Nat \ {0} |-> U(n)[n]]
<1>1. \A n \in Nat : U(n) \in Doublings(n)
  BY DoublingsExist
<1> HIDE DEF U
<1>2. ASSUME NEW n \in Nat \ {0} PROVE H[n] = (IF n = 1 THEN Second ELSE 2 * H[n - 1]) /\ H[n] \in Nat
  <2>1. H[n] = U(n)[n] /\ U(n) \in Doublings(n) /\ n \in 1 .. n
    BY <1>1
  <2>2. U(n)[n] = (IF n = 1 THEN Second ELSE 2 * U(n)[n - 1]) /\ U(n)[n] \in Nat
    BY <2>1 DEF Doublings
  <2>3. ASSUME n # 1 PROVE U(n)[n - 1] = H[n - 1]
    <3>1. n - 1 \in Nat \ {0} /\ n - 1 \in 1 .. n /\ n - 1 <= n - 1 /\ U(n - 1) \in Doublings(n - 1)
      BY <2>3, <1>1
    <3>2. U(n)[n - 1] = U(n - 1)[n - 1]
      BY <2>1, <3>1, DoublingsAgree
    <3> QED
      BY <3>1, <3>2
  <2> QED
    BY <2>1, <2>2, <2>3
<1>3. Doubles(H)
  BY <1>2
<1>4. Doubled = CHOOSE h : Doubles(h)
  BY DEF Doubled
<1>5. Doubles(Doubled)
  BY <1>3, <1>4
<1>6. \A n \in Nat \ {0} : Doubled[n] \in Nat
  <2> SUFFICES ASSUME \E n \in Nat \ {0} : Doubled[n] \notin Nat PROVE FALSE
    OBVIOUS
  <2> DEFINE T == {n \in Nat : n # 0 /\ Doubled[n] \notin Nat}
  <2>1. PICK n \in T : \A y \in T : n <= y
    BY SmallestOne
  <2>2. n \in Nat \ {0} /\ Doubled[n] \notin Nat /\ (n # 1 => Doubled[n - 1] \in Nat)
    BY <2>1
  <2>3. Doubled[n] = IF n = 1 THEN Second ELSE 2 * Doubled[n - 1]
    BY <1>5, <2>2
  <2> QED
    BY <2>2, <2>3 DEF Second
<1> QED
  BY <1>5, <1>6
\* What addJitter (retryhttp.go:180) adds keeps the wait below the maximum.
LEMMA JitterIsBounded ==
    ASSUME NEW w \in Nat, NEW most \in Int, NEW max \in Nat, NEW x \in AddJitter(w, most, max)
    PROVE  x \in Nat /\ x <= max /\ (w <= max => w <= x)
BY DEF AddJitter, Smaller

LEMMA JitterIsPossible ==
    ASSUME NEW w \in Nat, NEW most \in Int, NEW max \in Nat
    PROVE  AddJitter(w, most, max) # {}
<1>1. CASE w >= max
  BY <1>1 DEF AddJitter
<1>2. CASE ~(w >= max)
  <2>1. w + 0 \in AddJitter(w, most, max)
    BY <1>2 DEF AddJitter, Smaller
  <2> QED
    BY <2>1
<1> QED
  BY <1>1, <1>2

WaitingAsAsked(q, a, w) ==
    /\ w \in Nat /\ w <= q.maxWait
    /\ a.status \in {"429", "403"} /\ a.after # NoHeader => w >= a.after
    /\ a.status \in {"429", "403"} /\ a.after = NoHeader => w >= a.reset

\* Both ways to wait, backoff (retryhttp.go:142) and the one of the GitLab client.
LEMMA WaitsAreAsAsked ==
    ASSUME NEW q \in Requests, NEW a \in Answers, NEW n \in Nat \ {0}, Retried(q, a, n), NEW w \in Waits(q, a, n)
    PROVE  WaitingAsAsked(q, a, w)
<1>1. q.maxWait \in Nat /\ q.policy \in {"transport", "gitlab"}
  BY RetriesAssumption DEF Requests
<1>2. a.after \in Nat \cup {NoHeader} /\ a.reset \in Nat \cup {NoHeader}
  BY DEF Answers, Headers, NoHeader, Second
<1>3. Second \in Int /\ NoHeader = -1 /\ Doubled[n] \in Nat
  BY DoubledIsANumber DEF Second, NoHeader
<1>4. CASE q.policy = "transport"
  <2>1. w \in Backoff(q, a, n)
    BY <1>4 DEF Waits
  <2>2. CASE a.after # NoHeader
    <3>1. ~(a.after > q.maxWait) /\ w \in AddJitter(a.after, Second, q.maxWait) /\ a.after \in Nat
      BY <2>1, <2>2, <1>2 DEF Backoff
    <3>2. w \in Nat /\ w <= q.maxWait /\ a.after <= w
      BY <3>1, <1>1, <1>3, JitterIsBounded, SMTT(30)
    <3> QED
      BY <3>2, <2>2 DEF WaitingAsAsked
  <2>3. CASE a.after = NoHeader /\ a.reset # NoHeader
    <3>1. ~(a.reset > q.maxWait) /\ w \in AddJitter(a.reset, Second, q.maxWait) /\ a.reset \in Nat
      BY <2>1, <2>3, <1>2 DEF Backoff
    <3>2. a.reset <= q.maxWait
      BY <3>1, <1>1
    <3>3. w \in Nat /\ w <= q.maxWait /\ (a.reset <= q.maxWait => a.reset <= w)
      BY <3>1, <1>1, <1>3, JitterIsBounded
    <3> QED
      BY <3>2, <3>3, <2>3 DEF WaitingAsAsked
  <2>4. CASE a.after = NoHeader /\ a.reset = NoHeader
    <3> DEFINE u == Smaller(Doubled[n], q.maxWait)
    <3>1. w \in AddJitter(u, u \div 2, q.maxWait)
      BY <2>1, <2>4 DEF Backoff
    <3>2. u \in Nat /\ u \div 2 \in Int
      BY <1>1, <1>3 DEF Smaller
    <3>3. w \in Nat /\ w <= q.maxWait
      BY <3>1, <3>2, <1>1, JitterIsBounded
    <3> QED
      BY <3>3, <2>4, <1>3 DEF WaitingAsAsked
  <2> QED
    BY <2>2, <2>3, <2>4
<1>5. CASE q.policy = "gitlab"
  <2> DEFINE u == GitLabRateLimitWait(a)
  <2>1. w \in GitLabRetryBackoff(q, a, n) /\ GitLabRetryPolicy(q, a)
    BY <1>5 DEF Waits, Retried
  <2>2. u \in Nat \cup {NoHeader} /\ u = IF a.after # NoHeader THEN a.after ELSE a.reset
    BY <1>2 DEF GitLabRateLimitWait
  <2> HIDE DEF u
  <2>3. CASE a.status = "429" /\ u # NoHeader
    <3>1. w \in AddJitter(u, Second + 1, q.maxWait) /\ u <= q.maxWait /\ u \in Nat /\ Second + 1 \in Int
      BY <2>1, <2>2, <2>3, <1>3 DEF GitLabRetryBackoff, GitLabRetryPolicy, u
    <3>2. w \in Nat /\ w <= q.maxWait /\ u <= w
      BY <3>1, <1>1, JitterIsBounded
    <3> QED
      BY <3>2, <2>2 DEF WaitingAsAsked
  <2>4. CASE ~(a.status = "429" /\ u # NoHeader)
    <3>1. PICK v \in Second .. (2 * Second) : w = Smaller(n * v, q.maxWait)
      BY <2>1, <2>4 DEF GitLabRetryBackoff, u
    <3>2. v \in {2, 3, 4} /\ n * v \in Nat
      BY <3>1 DEF Second
    <3>3. w \in Nat /\ w <= q.maxWait
      BY <3>1, <3>2, <1>1 DEF Smaller
    <3>4. a.status # "403"
      BY <2>1 DEF GitLabRetryPolicy
    <3>5. a.status = "429" => a.after = NoHeader /\ a.reset = NoHeader
      BY <2>2, <2>4
    <3> QED
      BY <3>3, <3>4, <3>5, <1>3 DEF WaitingAsAsked
  <2> QED
    BY <2>3, <2>4
<1> QED
  BY <1>1, <1>4, <1>5

GivenUp(q, a) ==
    \/ q.policy = "transport" /\ q.body = "stream"
    \/ a.after > q.maxWait
    \/ a.after = NoHeader /\ a.reset > q.maxWait

\* A rate limit that is given up although attempts are left has a reason.
LEMMA RateLimitIsTriedAgain ==
    ASSUME NEW q \in Requests, NEW a \in Answers, NEW n \in Nat \ {0}, n < q.attempts, a.status = "429",
           ~(Retried(q, a, n) /\ Waits(q, a, n) # {})
    PROVE  GivenUp(q, a)
<1> SUFFICES ASSUME ~GivenUp(q, a) PROVE Retried(q, a, n) /\ Waits(q, a, n) # {}
  OBVIOUS
<1>1. q.maxWait \in Nat /\ q.policy \in {"transport", "gitlab"}
  BY RetriesAssumption DEF Requests
<1>2. a.after \in Nat \cup {NoHeader} /\ a.reset \in Nat \cup {NoHeader}
  BY DEF Answers, Headers, NoHeader, Second
<1>3. Second \in Int /\ NoHeader = -1 /\ Doubled[n] \in Nat
  BY DoubledIsANumber DEF Second, NoHeader
<1>4. ~(a.after > q.maxWait) /\ ~(a.after = NoHeader /\ a.reset > q.maxWait)
  BY DEF GivenUp
<1>5. CASE q.policy = "transport"
  <2>1. Retried(q, a, n)
    BY <1>5 DEF Retried, CanReplay, ShouldRetry, GivenUp
  <2>2. CASE a.after # NoHeader
    <3>1. a.after \in Nat /\ AddJitter(a.after, Second, q.maxWait) # {}
      BY <2>2, <1>1, <1>2, <1>3, JitterIsPossible
    <3>2. Waits(q, a, n) = AddJitter(a.after, Second, q.maxWait)
      BY <2>2, <1>4, <1>5 DEF Waits, Backoff
    <3> QED
      BY <2>1, <3>1, <3>2
  <2>3. CASE a.after = NoHeader /\ a.reset # NoHeader
    <3>1. a.reset \in Nat /\ AddJitter(a.reset, Second, q.maxWait) # {}
      BY <2>3, <1>1, <1>2, <1>3, JitterIsPossible
    <3>2. Waits(q, a, n) = AddJitter(a.reset, Second, q.maxWait)
      BY <2>3, <1>4, <1>5 DEF Waits, Backoff
    <3> QED
      BY <2>1, <3>1, <3>2
  <2>4. CASE a.after = NoHeader /\ a.reset = NoHeader
    <3> DEFINE u == Smaller(Doubled[n], q.maxWait)
    <3>1. u \in Nat /\ u \div 2 \in Int
      BY <1>1, <1>3 DEF Smaller
    <3>2. AddJitter(u, u \div 2, q.maxWait) # {}
      BY <3>1, <1>1, JitterIsPossible
    <3>3. Waits(q, a, n) = AddJitter(u, u \div 2, q.maxWait)
      BY <2>4, <1>5 DEF Waits, Backoff
    <3> QED
      BY <2>1, <3>2, <3>3
  <2> QED
    BY <2>1, <2>2, <2>3, <2>4
<1>6. CASE q.policy = "gitlab"
  <2>1. Retried(q, a, n)
    BY <1>1, <1>2, <1>3, <1>4, <1>6 DEF Retried, GitLabRetryPolicy, GitLabRateLimitWait
  <2>2. CASE GitLabRateLimitWait(a) # NoHeader
    <3>1. GitLabRateLimitWait(a) \in Nat /\ Second + 1 \in Int
      BY <2>2, <1>2, <1>3 DEF GitLabRateLimitWait
    <3>2. AddJitter(GitLabRateLimitWait(a), Second + 1, q.maxWait) # {}
      BY <3>1, <1>1, JitterIsPossible
    <3> QED
      BY <2>1, <2>2, <3>2, <1>6 DEF Waits, GitLabRetryBackoff
  <2>3. CASE GitLabRateLimitWait(a) = NoHeader
    <3>1. Smaller(n * Second, q.maxWait) \in GitLabRetryBackoff(q, a, n)
      BY <2>3, <1>3 DEF GitLabRetryBackoff, Second
    <3> QED
      BY <2>1, <3>1, <1>6 DEF Waits
  <2> QED
    BY <2>2, <2>3
<1> QED
  BY <1>1, <1>5, <1>6

CallOK(c) ==
    /\ DOMAIN c = {"q", "pc", "attempt", "applied", "carried", "whole", "answer", "wait"}
    /\ c.q \in Requests /\ c.applied \in Nat /\ c.carried \in BOOLEAN /\ c.whole \in BOOLEAN
    /\ c.attempt \in Nat \ {0}

\* While there may be another attempt the ones before it have changed nothing,
\* and the body is still to be had.
GoesOn(c) == c.pc \in {"send", "wait"}
Unrepeated(c) == Changes(c.q) => c.applied <= 1 /\ (GoesOn(c) => c.applied = 0)
Replayable(c) == c.whole /\ (GoesOn(c) => c.carried)
Patient(c) == c.pc = "wait" => WaitingAsAsked(c.q, c.answer, c.wait) /\ c.attempt < c.q.attempts
Persistent(c) ==
    c.pc = "ended" /\ c.answer.status = "429" /\ c.attempt < c.q.attempts => GivenUp(c.q, c.answer)

CallInv == CallOK(call) /\ Unrepeated(call) /\ Replayable(call) /\ Patient(call) /\ Persistent(call)

\* What is tried again was not carried out, or changes nothing (shouldRetry,
\* retryhttp.go:112, and the policy of the GitLab client).
LEMMA RetriedIsUnapplied ==
    ASSUME NEW q \in Requests, NEW a \in Answers, NEW n, NEW done \in AppliedBy(a),
           Retried(q, a, n), Changes(q)
    PROVE  done = FALSE
<1>1. CASE a.status \in {"network", "5xx"}
  BY <1>1 DEF Retried, ShouldRetry, RetrySafe, GitLabRetryPolicy, Changes, Requests
<1>2. CASE a.status = "429" \/ a.status = "403"
  BY <1>2 DEF AppliedBy
<1>3. a.status \in {"network", "5xx", "429", "403"}
  BY DEF Retried, ShouldRetry, GitLabRetryPolicy
<1> QED
  BY <1>1, <1>2, <1>3

\* A body that can be read only once is not sent again by the transport
\* (retryhttp.go:67); the GitLab client keeps a copy.
LEMMA RetriedIsReplayable ==
    ASSUME NEW q \in Requests, NEW a \in Answers, NEW n, Retried(q, a, n)
    PROVE  q.body # "stream" \/ q.policy = "gitlab"
BY DEF Retried, CanReplay, Requests

\* A new request satisfies the invariant.
LEMMA InitCallInv == RetryInit => CallInv
BY DEF RetryInit, NewCall, CallInv, CallOK, Unrepeated, Replayable, Patient, Persistent, GoesOn

\* An answer ends the request or lets it wait for the next attempt.
LEMMA RoundTripCallInv == CallInv /\ RoundTrip => CallInv'
<1> SUFFICES ASSUME CallInv, RoundTrip PROVE CallInv'
  OBVIOUS
<1> USE DEF GoesOn
<1> DEFINE Sent(a, more) ==
             [call EXCEPT !.answer = a, !.applied = @ + more, !.whole = @ /\ call.carried,
                          !.carried = call.q.body # "stream" \/ call.q.policy = "gitlab"]
           Again(a) == Retried(call.q, a, call.attempt) /\ Waits(call.q, a, call.attempt) # {}
           More(done) == IF done THEN 1 ELSE 0
           Outcome(a, done) ==
             IF Again(a)
             THEN \E w \in Waits(call.q, a, call.attempt) : call' = [Sent(a, More(done)) EXCEPT !.pc = "wait", !.wait = w]
             ELSE call' = [Sent(a, More(done)) EXCEPT !.pc = "ended"]
<1>0. PICK a \in Answers : \E done \in AppliedBy(a) : Outcome(a, done)
  BY DEF RoundTrip
<1>1. PICK done \in AppliedBy(a) : Outcome(a, done)
  BY <1>0
<1>2. call.pc = "send"
  BY DEF RoundTrip
<1> DEFINE more == More(done)
           sent == Sent(a, more)
<1>3. CallOK(call) /\ call.whole /\ call.carried /\ (Changes(call.q) => call.applied = 0)
  BY <1>2 DEF CallInv, Unrepeated, Replayable
<1>4. more \in {0, 1}
  OBVIOUS
<1>5. /\ DOMAIN sent = DOMAIN call /\ sent.q = call.q /\ sent.applied = call.applied + more
      /\ sent.whole = (call.whole /\ call.carried)
      /\ sent.carried = (call.q.body # "stream" \/ call.q.policy = "gitlab")
      /\ sent.answer = a /\ sent.attempt = call.attempt
  BY <1>3 DEF CallOK
<1> HIDE DEF sent, more
<1>6. CallOK(sent) /\ (Changes(sent.q) => sent.applied <= 1) /\ sent.whole
  <2>1. sent.q \in Requests /\ sent.applied \in Nat /\ sent.attempt \in Nat \ {0}
    BY <1>3, <1>4, <1>5 DEF CallOK
  <2>2. sent.whole /\ sent.whole \in BOOLEAN /\ sent.carried \in BOOLEAN
    BY <1>3, <1>5
  <2>3. Changes(sent.q) => sent.applied <= 1
    BY <1>3, <1>4, <1>5
  <2> QED
    BY <2>1, <2>2, <2>3, <1>3, <1>5 DEF CallOK
<1>7. CASE Again(a)
  <2>1. PICK w \in Waits(call.q, a, call.attempt) : call' = [sent EXCEPT !.pc = "wait", !.wait = w]
    BY <1>1, <1>7 DEF sent, more
  <2>2. /\ DOMAIN call' = DOMAIN sent /\ call'.q = sent.q /\ call'.applied = sent.applied
        /\ call'.whole = sent.whole /\ call'.carried = sent.carried /\ call'.attempt = sent.attempt
        /\ call'.pc = "wait" /\ call'.wait = w /\ call'.answer = sent.answer
    BY <2>1, <1>6 DEF CallOK
  <2>3. sent.carried
    BY <1>3, <1>5, <1>7, RetriedIsReplayable DEF CallOK
  <2>4. ASSUME Changes(sent.q) PROVE sent.applied = 0
    <3>1. done = FALSE
      BY <2>4, <1>3, <1>5, <1>7, RetriedIsUnapplied DEF CallOK
    <3> QED
      BY <3>1, <2>4, <1>3, <1>5 DEF more
  <2>5. WaitingAsAsked(call.q, a, w) /\ call.attempt < call.q.attempts
    BY <1>3, <1>7, WaitsAreAsAsked DEF CallOK, Retried
  <2>6. CallOK(call') /\ Unrepeated(call') /\ Replayable(call')
    BY <2>2, <2>3, <2>4, <1>6 DEF CallOK, Unrepeated, Replayable
  <2>7. Patient(call') /\ Persistent(call')
    BY <2>2, <2>5, <1>5 DEF Patient, Persistent
  <2> QED
    BY <2>6, <2>7 DEF CallInv
<1>8. CASE ~Again(a)
  <2>1. call' = [sent EXCEPT !.pc = "ended"]
    BY <1>1, <1>8 DEF sent, more
  <2>2. /\ DOMAIN call' = DOMAIN sent /\ call'.q = sent.q /\ call'.applied = sent.applied
        /\ call'.whole = sent.whole /\ call'.carried = sent.carried /\ call'.pc = "ended"
        /\ call'.attempt = sent.attempt /\ call'.answer = sent.answer
    BY <2>1, <1>6 DEF CallOK
  <2>3. a.status = "429" /\ call.attempt < call.q.attempts => GivenUp(call.q, a)
    BY <1>3, <1>8, RateLimitIsTriedAgain DEF CallOK
  <2>4. CallOK(call') /\ Unrepeated(call') /\ Replayable(call')
    BY <2>2, <1>6 DEF CallOK, Unrepeated, Replayable
  <2>5. Patient(call') /\ Persistent(call')
    BY <2>2, <2>3, <1>5 DEF Patient, Persistent
  <2> QED
    BY <2>4, <2>5 DEF CallInv
<1> QED
  BY <1>7, <1>8

\* The timer and the end of the request's context change neither what was done
\* nor the body.
LEMMA NextCallInv == CallInv /\ [RetryNext]_call => CallInv'
<1> SUFFICES ASSUME CallInv, [RetryNext]_call PROVE CallInv'
  OBVIOUS
<1> USE DEF CallInv, CallOK, Unrepeated, Replayable, Patient, Persistent, GoesOn
<1>1. CASE RoundTrip
  BY <1>1, RoundTripCallInv
<1>2. CASE TimerFires
  <2>1. /\ DOMAIN call' = DOMAIN call /\ call'.q = call.q /\ call'.applied = call.applied
        /\ call'.whole = call.whole /\ call'.carried = call.carried /\ call'.pc = "send"
        /\ call'.attempt = call.attempt + 1 /\ call.pc = "wait"
    BY <1>2 DEF TimerFires
  <2> QED
    BY <2>1
<1>3. CASE ContextDone
  BY <1>3 DEF ContextDone
<1>4. CASE UNCHANGED call
  BY <1>4
<1> QED
  BY <1>1, <1>2, <1>3, <1>4 DEF RetryNext

\* However often the server fails, limits or loses its answers, the retries
\* carry out a request that changes something at most once.
THEOREM ChangesAreMadeOnce == RetrySpec => []NoChangeIsRepeated
<1>1. CallInv => NoChangeIsRepeated
  BY DEF CallInv, Unrepeated, NoChangeIsRepeated
<1> QED
  BY <1>1, InitCallInv, NextCallInv, PTL DEF RetrySpec

\* No attempt is ever sent without the body the request was made with.
THEOREM BodiesAreSentWhole == RetrySpec => []EveryAttemptCarriesItsBody
<1>1. CallInv => EveryAttemptCarriesItsBody
  BY DEF CallInv, Replayable, EveryAttemptCarriesItsBody
<1> QED
  BY <1>1, InitCallInv, NextCallInv, PTL DEF RetrySpec

\* A request is tried again as often as it helps and never when it hurts: with
\* the two above, it waits as long as the server asked and no longer than the
\* setting allows, and a rate limit alone does not make it fail.
THEOREM RetriesAlwaysSafe == RetrySpec => []RetriesAreSafe
<1>1. CallInv => ComesBackAsAsked
  BY DEF CallInv, Patient, WaitingAsAsked, ComesBackAsAsked
<1>2. CallInv => RateLimitAloneDoesNotFail
  BY DEF CallInv, Persistent, GivenUp, RateLimitAloneDoesNotFail
<1>3. CallInv => NoChangeIsRepeated /\ EveryAttemptCarriesItsBody
  BY DEF CallInv, Unrepeated, NoChangeIsRepeated, Replayable, EveryAttemptCarriesItsBody
<1>4. CallInv => RetriesAreSafe
  BY <1>1, <1>2, <1>3 DEF RetriesAreSafe
<1> QED
  BY <1>4, InitCallInv, NextCallInv, PTL DEF RetrySpec
-----------------------------------------------------------------------------
(***************************************************************************)
(* TokenRotation: however many goroutines of however many processes and    *)
(* Repositories notice that the token nears its expiry, it is rotated once *)
(* and the new one is lost only by a failure.  Neither the locks nor the   *)
(* caches are needed for it: GitLab refuses a token that was rotated.      *)
(***************************************************************************)
CONSTANTS Goroutines, Processes, Repositories

TokenInit ==
    \E ws \in [Goroutines -> {Worker(p, r, rotate, project) : p \in Processes, r \in Repositories, rotate \in BOOLEAN, project \in BOOLEAN}] :
        \E writable \in BOOLEAN : InitTokens(ws, writable)
TokenSpec == TokenInit /\ [][TokenNext]_tokenVars

Stages == {"start", "lock", "cache", "introspect", "verify", "rotate", "rotateProject", "read", "write", "ready", "rejected", "gone"}
Goroutine ==
    [process : Processes, repo : Repositories, rotate : BOOLEAN, project : BOOLEAN, pc : Stages, token : Nat,
     client : Nat, seen : [version : Nat, other : Nat], new : Nat, tries : Nat, late : BOOLEAN]
TokensOK ==
    /\ worker \in [Goroutines -> Goroutine]
    /\ gitlab \in [current : Nat \ {0}, nears : SUBSET Nat]
    /\ secret \in [token : Nat, other : Nat, version : Nat, writable : BOOLEAN]

\* What a goroutine knows of the token: it rotates only one that is near, where the
\* secret can be written, and it stores the token that is in force, that the secret
\* does not have yet, over the version it read.
Informed(w) ==
    /\ worker[w].token <= secret.token
    /\ worker[w].late => worker[w].token < gitlab.current \/ worker[w].token \in gitlab.nears
    /\ worker[w].pc \in {"verify", "rotate", "rotateProject"} => worker[w].token \in gitlab.nears
    /\ worker[w].pc \in {"rotate", "rotateProject"} => secret.writable
    /\ Storing(w) => worker[w].new = gitlab.current /\ secret.token < gitlab.current
    /\ worker[w].pc = "write" =>
          /\ worker[w].seen.version <= secret.version
          /\ worker[w].seen.version = secret.version => worker[w].seen.other = secret.other

OneStores == \A v, w \in Goroutines : Storing(v) /\ Storing(w) => v = w
LostByFailure == mishaps \cap {"lostAnswer", "secretUpdate", "restart"} # {}

RotationInv ==
    /\ TokensOK
    /\ \A w \in Goroutines : Informed(w)
    /\ OneStores
    /\ secret.token <= gitlab.current
    /\ TokenIsLostOnlyByAFailure /\ UnwritableSecretKeepsItsToken
    /\ OneRotationPerExpiry /\ NearTokenIsRenewed

LEMMA InitRotationInv == TokenInit => RotationInv
<1> SUFFICES ASSUME NEW ws \in [Goroutines -> {Worker(p, r, rotate, project) : p \in Processes, r \in Repositories, rotate \in BOOLEAN, project \in BOOLEAN}],
                    NEW writable \in BOOLEAN, InitTokens(ws, writable)
             PROVE  RotationInv
  BY DEF TokenInit
<1>1. ASSUME NEW w \in Goroutines
      PROVE  worker[w] \in Goroutine /\ worker[w].pc = "start" /\ worker[w].token = 0 /\ ~worker[w].late
  <2>1. PICK p \in Processes, r \in Repositories, rotate \in BOOLEAN, project \in BOOLEAN : worker[w] = Worker(p, r, rotate, project)
    BY DEF InitTokens
  <2> QED
    BY <2>1 DEF Worker, Goroutine, Stages
<1>2. TokensOK /\ DOMAIN worker = Goroutines
  BY <1>1 DEF TokensOK, InitTokens
<1>3. secret.token = 1 /\ gitlab.current = 1
  BY DEF InitTokens
<1>4. \A w \in Goroutines : Informed(w)
  BY <1>1, <1>3 DEF Informed, Storing
<1>5. OneStores
  BY <1>1 DEF OneStores, Storing
<1>6. TokenIsLostOnlyByAFailure /\ UnwritableSecretKeepsItsToken /\ OneRotationPerExpiry /\ NearTokenIsRenewed
  BY <1>1, <1>2, <1>3 DEF TokenIsLostOnlyByAFailure, UnwritableSecretKeepsItsToken, OneRotationPerExpiry, NearTokenIsRenewed
<1> QED
  BY <1>2, <1>3, <1>4, <1>5, <1>6 DEF RotationInv

\* A step that changes only where a goroutine is keeps what is known, unless it is
\* about to rotate, to store, or is ready.
LEMMA MovesKeepRotationInv ==
    ASSUME RotationInv, NEW w \in Goroutines, NEW pc \in Stages, Becomes(w, pc),
           UNCHANGED <<gitlab, secret>>, mishaps \subseteq mishaps',
           pc \notin {"read", "write"},
           Storing(w) => mishaps' \cap {"lostAnswer", "secretUpdate", "restart"} # {},
           pc \in {"verify", "rotate", "rotateProject"} => worker[w].token \in gitlab.nears,
           pc \in {"rotate", "rotateProject"} => secret.writable,
           pc = "ready" /\ worker[w].rotate /\ worker[w].late /\ mishaps' = {} => gitlab.current > worker[w].token
    PROVE  RotationInv'
<1>1. /\ worker \in [Goroutines -> Goroutine] /\ worker' = [worker EXCEPT ![w].pc = pc]
      /\ gitlab' = gitlab /\ secret' = secret
      /\ secret.token \in Nat /\ secret.version \in Nat /\ gitlab.current \in Nat \ {0}
  BY DEF RotationInv, TokensOK, Becomes
<1>2. /\ \A v \in Goroutines \ {w} : worker'[v] = worker[v]
      /\ worker'[w] = [worker[w] EXCEPT !.pc = pc] /\ DOMAIN worker = Goroutines /\ DOMAIN worker' = Goroutines
  BY <1>1
<1>3. /\ worker'[w].pc = pc /\ worker'[w].token = worker[w].token /\ worker'[w].late = worker[w].late
      /\ worker'[w].rotate = worker[w].rotate /\ worker'[w] \in Goroutine
  BY <1>1, <1>2 DEF Goroutine
<1>4. TokensOK'
  BY <1>1, <1>2, <1>3 DEF RotationInv, TokensOK
<1>5. ASSUME NEW v \in Goroutines PROVE Informed(v)'
  <2>1. CASE v = w
    BY <2>1, <1>1, <1>3 DEF RotationInv, Informed, Storing
  <2>2. CASE v # w
    BY <2>2, <1>1, <1>2 DEF RotationInv, Informed, Storing
  <2> QED
    BY <2>1, <2>2
<1>6. \A v \in Goroutines : Storing(v)' => Storing(v) /\ v # w
  BY <1>2, <1>3 DEF Storing
<1>7. OneStores'
  BY <1>6 DEF RotationInv, OneStores
<1>8. TokenIsLostOnlyByAFailure'
  <2>1. CASE secret.token = gitlab.current \/ mishaps' \cap {"lostAnswer", "secretUpdate", "restart"} # {}
    BY <2>1, <1>1 DEF TokenIsLostOnlyByAFailure
  <2>2. CASE ~(secret.token = gitlab.current \/ mishaps' \cap {"lostAnswer", "secretUpdate", "restart"} # {})
    <3>1. mishaps \cap {"lostAnswer", "secretUpdate", "restart"} = {}
      BY <2>2
    <3>2. PICK v \in Goroutines : Storing(v) /\ worker[v].new = gitlab.current
      BY <2>2, <3>1, <1>2 DEF RotationInv, TokenIsLostOnlyByAFailure
    <3>3. v # w /\ worker'[v] = worker[v]
      BY <2>2, <3>2, <1>2
    <3> QED
      BY <3>2, <3>3, <1>1, <1>2 DEF TokenIsLostOnlyByAFailure, Storing
  <2> QED
    BY <2>1, <2>2
<1>9. UnwritableSecretKeepsItsToken' /\ OneRotationPerExpiry' /\ (secret.token <= gitlab.current)'
  BY <1>1 DEF RotationInv, UnwritableSecretKeepsItsToken, OneRotationPerExpiry
<1>10. NearTokenIsRenewed'
  BY <1>1, <1>2, <1>3 DEF RotationInv, NearTokenIsRenewed
<1> QED
  BY <1>4, <1>5, <1>7, <1>8, <1>9, <1>10 DEF RotationInv

LEMMA GetSecretRotationInv == ASSUME RotationInv, NEW w \in Goroutines, GetSecret(w) PROVE RotationInv'
<1> DEFINE pc == IF worker[w].rotate THEN "lock" ELSE "ready"
<1>1. /\ worker \in [Goroutines -> Goroutine] /\ gitlab' = gitlab /\ secret' = secret /\ mishaps' = mishaps
      /\ secret.token \in Nat /\ secret.version \in Nat /\ gitlab.current \in Nat \ {0} /\ worker[w].pc = "start"
      /\ worker' = [worker EXCEPT ![w].pc = pc, ![w].token = secret.token, ![w].client = secret.token, ![w].late = Near]
  BY DEF RotationInv, TokensOK, GetSecret
<1>2. /\ \A v \in Goroutines \ {w} : worker'[v] = worker[v]
      /\ DOMAIN worker = Goroutines /\ DOMAIN worker' = Goroutines
      /\ worker'[w] = [worker[w] EXCEPT !.pc = pc, !.token = secret.token, !.client = secret.token, !.late = Near]
  BY <1>1
<1>3. /\ worker'[w].pc = pc /\ worker'[w].token = secret.token /\ worker'[w].late = Near
      /\ worker'[w].rotate = worker[w].rotate /\ worker'[w] \in Goroutine
  <2>1. Near \in BOOLEAN /\ pc \in Stages /\ worker[w] \in Goroutine
    BY <1>1 DEF Near, Stages
  <2> HIDE DEF pc
  <2> QED
    BY <2>1, <1>1, <1>2 DEF Goroutine
<1>4. TokensOK'
  BY <1>1, <1>2, <1>3 DEF RotationInv, TokensOK
<1>5. ASSUME NEW v \in Goroutines PROVE Informed(v)'
  <2>1. CASE v = w
    <3>1. Near => secret.token < gitlab.current \/ secret.token \in gitlab.nears
      BY <1>1 DEF RotationInv, Near
    <3>2. worker'[w].pc \in {"lock", "ready"} /\ (worker'[w].late => Near)
      BY <1>3
    <3> QED
      BY <2>1, <3>1, <3>2, <1>1, <1>3 DEF RotationInv, Informed, Storing
  <2>2. CASE v # w
    BY <2>2, <1>1, <1>2 DEF RotationInv, Informed, Storing
  <2> QED
    BY <2>1, <2>2
<1>6. \A v \in Goroutines : (Storing(v)' <=> Storing(v)) /\ (Storing(v) => v # w)
  BY <1>1, <1>2, <1>3 DEF Storing
<1>7. OneStores'
  BY <1>6 DEF RotationInv, OneStores
<1>8. TokenIsLostOnlyByAFailure'
  BY <1>1, <1>2, <1>6 DEF RotationInv, TokenIsLostOnlyByAFailure
<1>9. UnwritableSecretKeepsItsToken' /\ OneRotationPerExpiry' /\ (secret.token <= gitlab.current)'
  BY <1>1 DEF RotationInv, UnwritableSecretKeepsItsToken, OneRotationPerExpiry
<1>10. NearTokenIsRenewed'
  BY <1>1, <1>2, <1>3 DEF RotationInv, NearTokenIsRenewed
<1> QED
  BY <1>4, <1>5, <1>7, <1>8, <1>9, <1>10 DEF RotationInv

\* A rotation: the token was the one in force and the secret's, so nobody was storing.
LEMMA RotatedKeepsRotationInv ==
    ASSUME RotationInv, NEW w \in Goroutines, NEW next \in {"read", "ready"}, Rotated(w, next),
           worker[w].pc \in {"rotate", "rotateProject"}, secret' = secret, mishaps \subseteq mishaps',
           next = "ready" => "lostAnswer" \in mishaps'
    PROVE  RotationInv'
<1>1. /\ worker \in [Goroutines -> Goroutine] /\ secret' = secret
      /\ secret.token \in Nat /\ secret.version \in Nat /\ worker[w].token \in Nat
      /\ worker' = [worker EXCEPT ![w].pc = next, ![w].new = gitlab.current + 1]
  BY DEF RotationInv, TokensOK, Rotated, Goroutine
<1>2. /\ gitlab'.current = gitlab.current + 1 /\ gitlab'.nears = gitlab.nears /\ gitlab.current \in Nat /\ gitlab.current # 0
      /\ gitlab' \in [current : Nat \ {0}, nears : SUBSET Nat]
  BY DEF RotationInv, TokensOK, Rotated
<1>3. /\ \A v \in Goroutines \ {w} : worker'[v] = worker[v]
      /\ DOMAIN worker = Goroutines /\ DOMAIN worker' = Goroutines
      /\ worker'[w] = [worker[w] EXCEPT !.pc = next, !.new = gitlab.current + 1]
  BY <1>1
<1>4. /\ worker'[w].pc = next /\ worker'[w].token = worker[w].token /\ worker'[w].late = worker[w].late
      /\ worker'[w].rotate = worker[w].rotate /\ worker'[w].new = gitlab.current + 1 /\ worker'[w] \in Goroutine
  <2>1. worker[w] \in Goroutine /\ next \in Stages /\ gitlab.current + 1 \in Nat
    BY <1>1, <1>2 DEF Stages
  <2> QED
    BY <2>1, <1>3 DEF Goroutine
<1>5. secret.token = gitlab.current /\ worker[w].token = gitlab.current /\ gitlab.current \in gitlab.nears /\ secret.writable
  BY <1>1, <1>2 DEF RotationInv, Informed, Rotated
<1>6. \A v \in Goroutines : ~Storing(v) /\ (Storing(v)' => v = w /\ next = "read")
  BY <1>1, <1>2, <1>3, <1>4, <1>5 DEF RotationInv, Informed, Storing
<1>7. TokensOK'
  BY <1>1, <1>2, <1>3, <1>4 DEF RotationInv, TokensOK
<1>8. ASSUME NEW v \in Goroutines PROVE Informed(v)'
  <2>0. worker[v].token \in Nat
    BY <1>1 DEF Goroutine
  <2>1. CASE v = w
    BY <2>1, <2>0, <1>1, <1>2, <1>4, <1>5 DEF RotationInv, Informed, Storing
  <2>2. CASE v # w
    BY <2>2, <2>0, <1>1, <1>2, <1>3, <1>6 DEF RotationInv, Informed, Storing
  <2> QED
    BY <2>1, <2>2
<1>9. OneStores'
  BY <1>6 DEF OneStores
<1>10. TokenIsLostOnlyByAFailure'
  <2>1. CASE next = "read"
    BY <2>1, <1>2, <1>3, <1>4 DEF TokenIsLostOnlyByAFailure, Storing
  <2>2. CASE next = "ready"
    BY <2>2 DEF TokenIsLostOnlyByAFailure
  <2> QED
    BY <2>1, <2>2
<1>11. UnwritableSecretKeepsItsToken' /\ (secret.token <= gitlab.current)'
  BY <1>1, <1>2, <1>5 DEF UnwritableSecretKeepsItsToken
<1>12. OneRotationPerExpiry'
  <2> SUFFICES ASSUME NEW t \in 1 .. gitlab'.current - 1 PROVE t \in gitlab'.nears
    BY DEF OneRotationPerExpiry
  <2>1. t = gitlab.current \/ t \in 1 .. gitlab.current - 1
    BY <1>2
  <2> QED
    BY <2>1, <1>2, <1>5 DEF RotationInv, OneRotationPerExpiry
<1>13. NearTokenIsRenewed'
  <2> SUFFICES ASSUME NEW v \in Goroutines, worker'[v].pc = "ready", worker'[v].rotate, worker'[v].late, mishaps' = {}
               PROVE  gitlab'.current > worker'[v].token
    BY <1>3 DEF NearTokenIsRenewed
  <2>1. v # w /\ mishaps = {}
    BY <1>4
  <2>2. gitlab.current > worker[v].token /\ worker[v].token \in Nat
    BY <2>1, <1>1, <1>3 DEF RotationInv, NearTokenIsRenewed, Goroutine
  <2> QED
    BY <2>1, <2>2, <1>2, <1>3
<1> QED
  BY <1>7, <1>8, <1>9, <1>10, <1>11, <1>12, <1>13 DEF RotationInv

\* The secret is read, for the first time or again after a conflict.
LEMMA ReadSecretRotationInv == ASSUME RotationInv, NEW w \in Goroutines, ReadSecret(w) PROVE RotationInv'
<1>1. CASE Leaves(w, "rejected") /\ mishaps' = mishaps \cup {"secretUpdate"}
  BY <1>1, MovesKeepRotationInv DEF Leaves, ReadSecret, Stages
<1>2. CASE worker' = [worker EXCEPT ![w].pc = "write", ![w].seen = [version |-> secret.version, other |-> secret.other]] /\ mishaps' = mishaps
  <2>1. /\ worker \in [Goroutines -> Goroutine] /\ gitlab' = gitlab /\ secret' = secret /\ mishaps' = mishaps
        /\ secret.token \in Nat /\ secret.version \in Nat /\ secret.other \in Nat /\ gitlab.current \in Nat \ {0}
        /\ worker[w].pc = "read"
    BY <1>2 DEF RotationInv, TokensOK, ReadSecret
  <2>2. /\ \A v \in Goroutines \ {w} : worker'[v] = worker[v]
        /\ DOMAIN worker = Goroutines /\ DOMAIN worker' = Goroutines
        /\ worker' = [worker EXCEPT ![w] = worker'[w]]
        /\ worker'[w] = [worker[w] EXCEPT !.pc = "write", !.seen = [version |-> secret.version, other |-> secret.other]]
    BY <1>2, <2>1
  <2>3. /\ worker'[w].pc = "write" /\ worker'[w].token = worker[w].token /\ worker'[w].late = worker[w].late
        /\ worker'[w].new = worker[w].new /\ worker'[w] \in Goroutine
        /\ worker'[w].seen.version = secret.version /\ worker'[w].seen.other = secret.other
    <3>1. worker[w] \in Goroutine /\ [version |-> secret.version, other |-> secret.other] \in [version : Nat, other : Nat]
      BY <2>1
    <3> DEFINE s == [version |-> secret.version, other |-> secret.other]
    <3>2. s.version = secret.version /\ s.other = secret.other /\ s \in [version : Nat, other : Nat]
      BY <3>1
    <3> HIDE DEF s
    <3>3. worker'[w] = [worker[w] EXCEPT !.pc = "write", !.seen = s]
      BY <2>2 DEF s
    <3> QED
      BY <3>1, <3>2, <3>3 DEF Goroutine, Stages
  <2>4. TokensOK'
    <3>1. worker' \in [Goroutines -> Goroutine]
      BY <2>1, <2>2, <2>3
    <3> QED
      BY <3>1, <2>1 DEF RotationInv, TokensOK
  <2>5. ASSUME NEW v \in Goroutines PROVE Informed(v)'
    <3>1. CASE v = w
      BY <3>1, <2>1, <2>3 DEF RotationInv, Informed, Storing
    <3>2. CASE v # w
      BY <3>2, <2>1, <2>2 DEF RotationInv, Informed, Storing
    <3> QED
      BY <3>1, <3>2
  <2>6. \A v \in Goroutines : (Storing(v)' <=> Storing(v)) /\ worker'[v].new = worker[v].new
    BY <2>1, <2>2, <2>3 DEF Storing
  <2>7. OneStores' /\ TokenIsLostOnlyByAFailure'
    BY <2>1, <2>2, <2>6 DEF RotationInv, OneStores, TokenIsLostOnlyByAFailure
  <2>8. UnwritableSecretKeepsItsToken' /\ OneRotationPerExpiry' /\ (secret.token <= gitlab.current)'
    BY <2>1 DEF RotationInv, UnwritableSecretKeepsItsToken, OneRotationPerExpiry
  <2>9. NearTokenIsRenewed'
    BY <2>1, <2>2, <2>3 DEF RotationInv, NearTokenIsRenewed
  <2> QED
    BY <2>4, <2>5, <2>7, <2>8, <2>9 DEF RotationInv
<1> QED
  BY <1>1, <1>2 DEF ReadSecret

\* The new token reaches the secret, or the write is refused and made again.
LEMMA WriteSecretRotationInv == ASSUME RotationInv, NEW w \in Goroutines, WriteSecret(w) PROVE RotationInv'
<1>1. CASE Leaves(w, "rejected") /\ mishaps' = mishaps \cup {"secretUpdate"} /\ UNCHANGED secret
  BY <1>1, MovesKeepRotationInv DEF Leaves, WriteSecret, Stages
<1>2. CASE /\ secret' = Stored(w) /\ mishaps' = mishaps
           /\ worker' = [worker EXCEPT ![w].pc = "ready", ![w].client = worker[w].new]
  <2>1. /\ worker \in [Goroutines -> Goroutine] /\ gitlab' = gitlab /\ mishaps' = mishaps
        /\ secret.token \in Nat /\ secret.version \in Nat /\ gitlab.current \in Nat \ {0}
        /\ worker[w].pc = "write" /\ worker[w].new \in Nat /\ worker[w].token \in Nat
    BY <1>2 DEF RotationInv, TokensOK, WriteSecret, Goroutine
  <2>2. /\ \A v \in Goroutines \ {w} : worker'[v] = worker[v]
        /\ DOMAIN worker = Goroutines /\ DOMAIN worker' = Goroutines
        /\ worker' = [worker EXCEPT ![w] = worker'[w]]
        /\ worker'[w] = [worker[w] EXCEPT !.pc = "ready", !.client = worker[w].new]
    BY <1>2, <2>1
  <2>3. /\ worker'[w].pc = "ready" /\ worker'[w].token = worker[w].token /\ worker'[w].late = worker[w].late
        /\ worker'[w] \in Goroutine
    <3>1. worker[w] \in Goroutine /\ worker[w].new \in Nat
      BY <2>1
    <3> QED
      BY <3>1, <2>2 DEF Goroutine, Stages
  <2>4. /\ worker[w].new = gitlab.current /\ secret.token < gitlab.current /\ worker[w].token <= secret.token
        /\ \A v \in Goroutines \ {w} : ~Storing(v)
    BY <2>1 DEF RotationInv, Informed, Storing, OneStores
  <2>5. /\ secret'.token = gitlab.current /\ secret'.version = secret.version + 1 /\ secret'.writable = secret.writable
        /\ secret' \in [token : Nat, other : Nat, version : Nat, writable : BOOLEAN]
    <3>1. secret \in [token : Nat, other : Nat, version : Nat, writable : BOOLEAN] /\ worker[w].seen.other \in Nat
      BY <2>1 DEF RotationInv, TokensOK, Goroutine
    <3>2. secret' = [secret EXCEPT !.token = worker[w].new, !.other = worker[w].seen.other, !.version = secret.version + 1]
      BY <1>2 DEF Stored
    <3>3. /\ secret'.token = worker[w].new /\ secret'.other = worker[w].seen.other
          /\ secret'.version = secret.version + 1 /\ secret'.writable = secret.writable
          /\ DOMAIN secret' = DOMAIN secret
      BY <3>1, <3>2
    <3>4. secret' \in [token : Nat, other : Nat, version : Nat, writable : BOOLEAN]
      <4> DEFINE version == secret.version + 1
                 new == worker[w].new
                 other == worker[w].seen.other
      <4>1. version \in Nat /\ new \in Nat /\ other \in Nat
        BY <3>1, <2>1
      <4>2. secret' = [secret EXCEPT !.token = new, !.other = other, !.version = version]
        BY <3>2
      <4> HIDE DEF version, new, other
      <4> QED
        BY <4>1, <4>2, <3>1
    <3> QED
      BY <3>3, <3>4, <2>4
  <2>6. TokensOK'
    <3>1. worker' \in [Goroutines -> Goroutine]
      BY <2>1, <2>2, <2>3
    <3> QED
      BY <3>1, <2>1, <2>5 DEF RotationInv, TokensOK
  <2>7. ASSUME NEW v \in Goroutines PROVE Informed(v)'
    <3>0. worker[v].token \in Nat
      BY <2>1 DEF Goroutine
    <3>1. CASE v = w
      BY <3>1, <2>1, <2>3, <2>4, <2>5 DEF RotationInv, Informed, Storing
    <3>2. CASE v # w
      BY <3>0, <3>2, <2>1, <2>2, <2>4, <2>5 DEF RotationInv, Informed, Storing
    <3> QED
      BY <3>1, <3>2
  <2>8. OneStores' /\ TokenIsLostOnlyByAFailure'
    BY <2>1, <2>2, <2>3, <2>4, <2>5 DEF RotationInv, OneStores, TokenIsLostOnlyByAFailure, Storing
  <2>9. UnwritableSecretKeepsItsToken' /\ OneRotationPerExpiry' /\ (secret.token <= gitlab.current)'
    BY <2>1, <2>5 DEF RotationInv, UnwritableSecretKeepsItsToken, OneRotationPerExpiry
  <2>10. NearTokenIsRenewed'
    <3>1. gitlab.current > worker[w].token
      BY <2>1, <2>4
    <3> QED
      BY <3>1, <2>1, <2>2, <2>3 DEF RotationInv, NearTokenIsRenewed
  <2> QED
    BY <2>6, <2>7, <2>8, <2>9, <2>10 DEF RotationInv
<1>3. CASE worker' = [worker EXCEPT ![w].pc = "read", ![w].tries = worker[w].tries + 1] /\ UNCHANGED <<secret, mishaps>>
  <2>1. /\ worker \in [Goroutines -> Goroutine] /\ gitlab' = gitlab /\ secret' = secret /\ mishaps' = mishaps
        /\ secret.token \in Nat /\ secret.version \in Nat /\ gitlab.current \in Nat \ {0} /\ worker[w].pc = "write"
    BY <1>3 DEF RotationInv, TokensOK, WriteSecret
  <2>2. /\ \A v \in Goroutines \ {w} : worker'[v] = worker[v]
        /\ DOMAIN worker = Goroutines /\ DOMAIN worker' = Goroutines
        /\ worker' = [worker EXCEPT ![w] = worker'[w]]
        /\ worker'[w] = [worker[w] EXCEPT !.pc = "read", !.tries = worker[w].tries + 1]
    BY <1>3, <2>1
  <2>3. /\ worker'[w].pc = "read" /\ worker'[w].token = worker[w].token /\ worker'[w].late = worker[w].late
        /\ worker'[w].new = worker[w].new /\ worker'[w] \in Goroutine
    <3>1. worker[w] \in Goroutine /\ worker[w].tries + 1 \in Nat
      BY <2>1 DEF Goroutine
    <3> QED
      BY <3>1, <2>2 DEF Goroutine, Stages
  <2>4. TokensOK'
    <3>1. worker' \in [Goroutines -> Goroutine]
      BY <2>1, <2>2, <2>3
    <3> QED
      BY <3>1, <2>1 DEF RotationInv, TokensOK
  <2>5. ASSUME NEW v \in Goroutines PROVE Informed(v)'
    <3>1. CASE v = w
      BY <3>1, <2>1, <2>3 DEF RotationInv, Informed, Storing
    <3>2. CASE v # w
      BY <3>2, <2>1, <2>2 DEF RotationInv, Informed, Storing
    <3> QED
      BY <3>1, <3>2
  <2>6. \A v \in Goroutines : (Storing(v)' <=> Storing(v)) /\ worker'[v].new = worker[v].new
    BY <2>1, <2>2, <2>3 DEF Storing
  <2>7. OneStores' /\ TokenIsLostOnlyByAFailure'
    BY <2>1, <2>2, <2>6 DEF RotationInv, OneStores, TokenIsLostOnlyByAFailure
  <2>8. UnwritableSecretKeepsItsToken' /\ OneRotationPerExpiry' /\ (secret.token <= gitlab.current)'
    BY <2>1 DEF RotationInv, UnwritableSecretKeepsItsToken, OneRotationPerExpiry
  <2>9. NearTokenIsRenewed'
    BY <2>1, <2>2, <2>3 DEF RotationInv, NearTokenIsRenewed
  <2> QED
    BY <2>4, <2>5, <2>7, <2>8, <2>9 DEF RotationInv
<1> QED
  BY <1>1, <1>2, <1>3 DEF WriteSecret

\* The steps of a goroutine that rotate and store nothing.
LEMMA OtherStepsRotationInv ==
    ASSUME RotationInv, NEW w \in Goroutines, Lock(w) \/ Cached(w) \/ Introspect(w) \/ VerifySecretWriteAccess(w)
    PROVE  RotationInv'
<1> USE DEF Stages, Leaves
<1>1. /\ worker[w].token \in Nat /\ gitlab.current \in Nat /\ secret.token \in Nat
      /\ worker[w].token <= secret.token /\ secret.token <= gitlab.current
      /\ worker[w].late => worker[w].token < gitlab.current \/ worker[w].token \in gitlab.nears
  BY DEF RotationInv, TokensOK, Goroutine, Informed
<1>2. CASE Lock(w)
  BY <1>2, MovesKeepRotationInv DEF Lock, Storing
<1>3. CASE Cached(w)
  <2>1. CASE CachedIntrospectionFresh(Key(w), worker[w].token)
    <3>1. worker[w].late => gitlab.current > worker[w].token
      BY <2>1, <1>1 DEF CachedIntrospectionFresh
    <3> QED
      BY <3>1, <2>1, <1>3, MovesKeepRotationInv DEF Cached, Storing
  <2>2. CASE ~CachedIntrospectionFresh(Key(w), worker[w].token)
    BY <2>2, <1>3, MovesKeepRotationInv DEF Cached, Storing
  <2> QED
    BY <2>1, <2>2
<1>4. CASE Introspect(w)
  <2>0. worker[w].pc = "introspect" /\ UNCHANGED <<gitlab, secret>>
    BY <1>4 DEF Introspect
  <2>1. CASE worker[w].token = gitlab.current /\ NeedsRotation /\ Becomes(w, "verify") /\ UNCHANGED mishaps
    BY <2>0, <2>1, MovesKeepRotationInv DEF NeedsRotation, Near, Storing
  <2>2. CASE worker[w].token = gitlab.current /\ ~NeedsRotation /\ Leaves(w, "ready") /\ UNCHANGED mishaps
    <3>1. ~worker[w].late
      BY <2>2, <1>1 DEF NeedsRotation, Near
    <3> QED
      BY <3>1, <2>0, <2>2, MovesKeepRotationInv DEF Storing
  <2>3. CASE worker[w].token # gitlab.current /\ Leaves(w, "ready") /\ UNCHANGED mishaps
    <3>1. gitlab.current > worker[w].token
      BY <2>3, <1>1
    <3> QED
      BY <3>1, <2>0, <2>3, MovesKeepRotationInv DEF Storing
  <2>4. CASE mishaps' = mishaps \cup {"introspection"} /\ Leaves(w, "ready")
    BY <2>0, <2>4, MovesKeepRotationInv DEF Storing
  <2> QED
    BY <1>4, <2>1, <2>2, <2>3, <2>4 DEF Introspect
<1>5. CASE VerifySecretWriteAccess(w)
  <2>0. worker[w].pc = "verify" /\ UNCHANGED <<gitlab, secret>> /\ worker[w].token \in gitlab.nears
    BY <1>5 DEF VerifySecretWriteAccess, RotationInv, Informed
  <2>1. CASE secret.writable /\ Becomes(w, "rotate") /\ UNCHANGED mishaps
    BY <2>0, <2>1, MovesKeepRotationInv DEF Storing
  <2>2. CASE mishaps' = mishaps \cup {"dryRun"} /\ Leaves(w, "ready")
    BY <2>0, <2>2, MovesKeepRotationInv DEF Storing
  <2> QED
    BY <1>5, <2>1, <2>2 DEF VerifySecretWriteAccess
<1> QED
  BY <1>2, <1>3, <1>4, <1>5

\* A refusal: of a token that was rotated meanwhile, or for its scope.
LEMMA RefusedRotationInv ==
    ASSUME RotationInv, NEW w \in Goroutines, worker[w].pc \in {"rotate", "rotateProject"}, Refused(w), UNCHANGED <<gitlab, secret>>
    PROVE  RotationInv'
<1>1. /\ worker[w].token \in Nat /\ gitlab.current \in Nat /\ secret.token \in Nat
      /\ worker[w].token <= secret.token /\ secret.token <= gitlab.current
  BY DEF RotationInv, TokensOK, Goroutine, Informed
<1>2. mishaps' = {} => gitlab.current > worker[w].token
  BY <1>1 DEF Refused
<1>3. Becomes(w, "ready") /\ "ready" \in Stages /\ mishaps \subseteq mishaps' /\ ~Storing(w)
  BY DEF Refused, Leaves, Stages, Storing
<1> QED
  BY <1>2, <1>3, MovesKeepRotationInv

LEMMA RotateRotationInv ==
    ASSUME RotationInv, NEW w \in Goroutines, RotateToken(w) \/ RotateProjectToken(w)
    PROVE  RotationInv'
<1>0. secret' = secret /\ worker[w].pc \in {"rotate", "rotateProject"}
  BY DEF RotateToken, RotateProjectToken
<1>1. CASE Rotated(w, "read") /\ UNCHANGED mishaps
  BY <1>0, <1>1, RotatedKeepsRotationInv
<1>2. CASE Rotated(w, "ready") /\ mishaps' = mishaps \cup {"lostAnswer"}
  BY <1>0, <1>2, RotatedKeepsRotationInv
<1>3. CASE Refused(w) /\ UNCHANGED gitlab
  BY <1>0, <1>3, RefusedRotationInv
<1>4. CASE Becomes(w, "rotateProject") /\ UNCHANGED <<gitlab, mishaps>>
  <2>1. worker[w].token \in gitlab.nears /\ secret.writable /\ ~Storing(w) /\ "rotateProject" \in Stages
    BY <1>0 DEF RotationInv, Informed, Storing, Stages
  <2> QED
    BY <2>1, <1>0, <1>4, MovesKeepRotationInv
<1> QED
  BY <1>1, <1>2, <1>3, <1>4 DEF RotateToken, RotateProjectToken

LEMMA RestartRotationInv == ASSUME RotationInv, NEW p, RestartProcess(p) PROVE RotationInv'
<1> DEFINE Dies(w) == worker[w].process = p /\ worker[w].pc \notin {"start", "ready", "rejected"}
<1>1. /\ worker \in [Goroutines -> Goroutine] /\ gitlab' = gitlab /\ secret' = secret /\ "restart" \in mishaps'
      /\ worker' = [w \in Goroutines |-> IF Dies(w) THEN [worker[w] EXCEPT !.pc = "gone"] ELSE worker[w]]
  BY DEF RotationInv, TokensOK, RestartProcess
<1>2. ASSUME NEW w \in Goroutines
      PROVE  /\ worker'[w] \in Goroutine /\ worker'[w].pc \in {worker[w].pc, "gone"}
             /\ worker'[w].token = worker[w].token /\ worker'[w].late = worker[w].late /\ worker'[w].new = worker[w].new
             /\ worker'[w].seen = worker[w].seen /\ worker'[w].rotate = worker[w].rotate
  BY <1>1 DEF Goroutine, Stages
<1>3. TokensOK'
  <2>1. worker' \in [Goroutines -> Goroutine]
    BY <1>1, <1>2
  <2> QED
    BY <2>1, <1>1 DEF RotationInv, TokensOK
<1>4. \A w \in Goroutines : Informed(w)' /\ (Storing(w)' => Storing(w))
  BY <1>1, <1>2 DEF RotationInv, Informed, Storing
<1>5. OneStores' /\ TokenIsLostOnlyByAFailure'
  BY <1>1, <1>4 DEF RotationInv, OneStores, TokenIsLostOnlyByAFailure
<1>6. UnwritableSecretKeepsItsToken' /\ OneRotationPerExpiry' /\ (secret.token <= gitlab.current)'
  BY <1>1 DEF RotationInv, UnwritableSecretKeepsItsToken, OneRotationPerExpiry
<1>7. NearTokenIsRenewed'
  BY <1>1 DEF NearTokenIsRenewed
<1> QED
  BY <1>3, <1>4, <1>5, <1>6, <1>7 DEF RotationInv

\* What happens beside the goroutines: time, the cache, and the other key.
LEMMA OutsideRotationInv ==
    ASSUME RotationInv, TokenNears \/ (\E k \in DOMAIN caches : EntryExpires(k)) \/ OtherKeyChanges \/ UNCHANGED tokenVars
    PROVE  RotationInv'
<1>1. worker' = worker /\ mishaps' = mishaps
  BY DEF TokenNears, EntryExpires, OtherKeyChanges, tokenVars
<1>2. /\ gitlab'.current = gitlab.current /\ gitlab.nears \subseteq gitlab'.nears
      /\ gitlab' \in [current : Nat \ {0}, nears : SUBSET Nat]
  BY DEF RotationInv, TokensOK, TokenNears, EntryExpires, OtherKeyChanges, tokenVars
<1>3. secret' = secret \/ secret' = [secret EXCEPT !.other = secret.other + 1, !.version = secret.version + 1]
  BY DEF TokenNears, EntryExpires, OtherKeyChanges, tokenVars
<1>4. /\ secret \in [token : Nat, other : Nat, version : Nat, writable : BOOLEAN]
      /\ worker \in [Goroutines -> Goroutine] /\ DOMAIN worker = Goroutines
  BY DEF RotationInv, TokensOK
<1>5. /\ secret'.token = secret.token /\ secret'.writable = secret.writable
      /\ secret' = secret \/ secret'.version = secret.version + 1
      /\ secret' \in [token : Nat, other : Nat, version : Nat, writable : BOOLEAN]
  <2>1. CASE secret' = secret
    BY <2>1, <1>4
  <2>2. CASE secret' = [secret EXCEPT !.other = secret.other + 1, !.version = secret.version + 1]
    <3> DEFINE other == secret.other + 1
               version == secret.version + 1
    <3>1. other \in Nat /\ version \in Nat /\ secret' = [secret EXCEPT !.other = other, !.version = version]
      BY <2>2, <1>4
    <3>2. version = secret.version + 1
      OBVIOUS
    <3> HIDE DEF other, version
    <3> QED
      BY <3>1, <3>2, <1>4
  <2> QED
    BY <1>3, <2>1, <2>2
<1>6. TokensOK'
  BY <1>1, <1>2, <1>4, <1>5 DEF TokensOK
<1>7. ASSUME NEW w \in Goroutines PROVE Informed(w)'
  <2>1. worker[w].seen.version \in Nat /\ secret.version \in Nat
    BY <1>4 DEF Goroutine
  <2> QED
    BY <2>1, <1>1, <1>2, <1>5 DEF RotationInv, Informed, Storing
<1>8. OneStores' /\ TokenIsLostOnlyByAFailure' /\ UnwritableSecretKeepsItsToken' /\ (secret.token <= gitlab.current)'
  BY <1>1, <1>2, <1>5 DEF RotationInv, OneStores, TokenIsLostOnlyByAFailure, UnwritableSecretKeepsItsToken, Storing
<1>9. OneRotationPerExpiry' /\ NearTokenIsRenewed'
  BY <1>1, <1>2 DEF RotationInv, OneRotationPerExpiry, NearTokenIsRenewed
<1> QED
  BY <1>5, <1>6, <1>7, <1>8, <1>9 DEF RotationInv

LEMMA NextRotationInv == RotationInv /\ [TokenNext]_tokenVars => RotationInv'
<1> SUFFICES ASSUME RotationInv, [TokenNext]_tokenVars PROVE RotationInv'
  OBVIOUS
<1>0. DOMAIN worker = Goroutines
  BY DEF RotationInv, TokensOK
<1>1. ASSUME NEW w \in Goroutines,
             \/ GetSecret(w) \/ Lock(w) \/ Cached(w) \/ Introspect(w) \/ VerifySecretWriteAccess(w)
             \/ RotateToken(w) \/ RotateProjectToken(w) \/ ReadSecret(w) \/ WriteSecret(w)
      PROVE  RotationInv'
  BY <1>1, GetSecretRotationInv, OtherStepsRotationInv, RotateRotationInv, ReadSecretRotationInv, WriteSecretRotationInv
<1>2. ASSUME NEW k \in DOMAIN caches, RestartProcess(k[1]) \/ EntryExpires(k) PROVE RotationInv'
  BY <1>2, RestartRotationInv, OutsideRotationInv
<1>3. CASE TokenNears \/ OtherKeyChanges \/ UNCHANGED tokenVars
  BY <1>3, OutsideRotationInv
<1> QED
  BY <1>0, <1>1, <1>2, <1>3 DEF TokenNext

\* Only a write of the secret and whoever changes the other key touch it.
LEMMA OtherKeyStays == RotationInv /\ [TokenNext]_tokenVars => secret'.other >= secret.other
<1> SUFFICES ASSUME RotationInv, [TokenNext]_tokenVars PROVE secret'.other >= secret.other
  OBVIOUS
<1>0. secret \in [token : Nat, other : Nat, version : Nat, writable : BOOLEAN] /\ DOMAIN worker = Goroutines
  BY DEF RotationInv, TokensOK
<1>1. CASE secret' = secret
  BY <1>0, <1>1
<1>2. ASSUME NEW w \in Goroutines, WriteSecret(w), secret' # secret PROVE secret'.other >= secret.other
  <2>1. secret' = Stored(w) /\ ~Conflicts(w) /\ worker[w].pc = "write"
    BY <1>2 DEF WriteSecret
  <2>2. worker[w].seen.other = secret.other
    BY <2>1 DEF Conflicts, RotationInv, Informed
  <2> QED
    BY <2>1, <2>2, <1>0 DEF Stored
<1>3. CASE OtherKeyChanges
  BY <1>0, <1>3 DEF OtherKeyChanges
<1>4. ASSUME NEW w \in Goroutines,
             \/ GetSecret(w) \/ Lock(w) \/ Cached(w) \/ Introspect(w) \/ VerifySecretWriteAccess(w)
             \/ RotateToken(w) \/ RotateProjectToken(w) \/ ReadSecret(w)
      PROVE  secret' = secret
  BY <1>4 DEF GetSecret, Lock, Cached, Introspect, VerifySecretWriteAccess, RotateToken, RotateProjectToken, ReadSecret
<1>5. TokenNears \/ (\E k \in DOMAIN caches : RestartProcess(k[1]) \/ EntryExpires(k)) \/ UNCHANGED tokenVars => secret' = secret
  BY DEF TokenNears, RestartProcess, EntryExpires, tokenVars
<1> QED
  BY <1>0, <1>1, <1>2, <1>3, <1>4, <1>5 DEF TokenNext

\* For any goroutines, processes and Repositories that share a secret, and whatever
\* fails: a token is rotated only when it nears its expiry and once, the new one is lost only
\* by a lost answer, a failed update or a restart, whoever found the token near leaves a
\* renewed one unless something failed, and a rotation undoes no change of the other key.
THEOREM RotationAlwaysSafe == TokenSpec => RotationIsSafe
<1>1. RotationInv => /\ TokenIsLostOnlyByAFailure /\ UnwritableSecretKeepsItsToken
                     /\ OneRotationPerExpiry /\ NearTokenIsRenewed
  BY DEF RotationInv
<1>2. RotationInv /\ [TokenNext]_tokenVars => [secret'.other >= secret.other]_tokenVars
  BY OtherKeyStays
<1> QED
  BY <1>1, <1>2, InitRotationInv, NextRotationInv, PTL DEF TokenSpec, RotationIsSafe, OtherKeyIsKept
-----------------------------------------------------------------------------
(***************************************************************************)
(* Settings: whatever is written to the ConfigMap, however often and when. *)
(***************************************************************************)
CONSTANTS ConfigMaps, Dashboards

SettingsInit == \E data \in ConfigMaps, env \in Dashboards : InitSettings(data, env)
SettingsNext == SyncNext \/ \E data \in ConfigMaps : Edit(data)
SettingsSpec == SettingsInit /\ [][SettingsNext]_settingsVars

AllFields == {"dashboard", "snippet", "lines", "console"}
LeftOver == {<<>>, <<"console">>, <<"lines", "console">>, <<"snippet", "lines", "console">>, Fields}

SyncingOK(s) ==
    /\ DOMAIN s = {"env", "pc", "watching", "told", "locked", "read", "todo", "rejected", "unseen", "whole"}
    /\ s.pc \in {"get", "list", "wait", "lock", "assign", "console"}
    /\ s.todo \in LeftOver
    /\ s.locked <=> s.pc = "assign"
    /\ s.watching => s.pc # "list"
    /\ s.pc = "wait" => s.watching
SettingsOK ==
    /\ SyncingOK(syncing)
    /\ DOMAIN settings = {"options", "catalogs", "console"}
    /\ DOMAIN reader = {"options", "taken", "lines"}
    /\ DOMAIN settings.options = AllFields /\ "default" \in DOMAIN settings.catalogs

\* Outside the lock the settings are one of the whole configurations.
ReadersSeeTheWhole ==
    /\ ~syncing.locked => settings.options \in syncing.whole
    /\ reader.options \in syncing.whole

\* The lines that are in force, and those an event read, are of a reading, done or not.
LinesOf(value) ==
    \/ \E options \in syncing.whole : value = options["lines"]
    \/ syncing.pc = "assign" /\ value = syncing.read.fields["lines"]
LinesAreKnown ==
    /\ settings.options["lines"] # Invalid /\ LinesOf(settings.options["lines"])
    /\ reader.lines # Invalid /\ (reader.lines = Unread \/ LinesOf(reader.lines))

\* The goroutine will not be told of a change it has not read, or has read the last one.
UpToDate(data) == syncing.told \/ syncing.unseen \/ data = configMap.data

\* The fields and catalogs of some data are in force, the fields left to assign excepted.
InForceOf(data, left) ==
    /\ \A f \in AllFields : f \in left \/ data.fields[f] = Invalid \/ settings.options[f] = data.fields[f]
    /\ settings.catalogs["default"] = IF data.hub = Unset THEN DefaultHub ELSE data.hub
    /\ \A c \in DOMAIN data.catalogs : c # "default" => settings.catalogs[c] = data.catalogs[c]
AllValid(data) == \A f \in AllFields : data.fields[f] # Invalid
ConsoleOf(data) ==
    IF data.fields["console"] # Unset THEN data.fields["console"]
    ELSE IF syncing.env # Unset THEN syncing.env
    ELSE IF data.fields["dashboard"] # Unset THEN data.fields["dashboard"] ELSE "platform"

LeftFields == IF syncing.pc = "assign" THEN {syncing.todo[i] : i \in DOMAIN syncing.todo} ELSE {}
Assigning ==
    /\ syncing.pc \in {"lock", "assign", "console"} => UpToDate(syncing.read)
    /\ syncing.pc \in {"assign", "console"} => InForceOf(syncing.read, LeftFields)
    /\ syncing.pc = "assign" => (syncing.rejected => ~AllValid(syncing.read))
    /\ syncing.pc = "assign" /\ ~syncing.rejected => \A f \in AllFields : f \in LeftFields \/ syncing.read.fields[f] # Invalid
    /\ syncing.pc = "lock" => ~syncing.rejected
    /\ syncing.pc = "console" => AllValid(syncing.read)
Waiting ==
    syncing.pc \in {"list", "wait"} /\ ~syncing.told /\ ~syncing.unseen =>
        /\ InForceOf(configMap.data, {})
        /\ AllValid(configMap.data) => settings.console = ConsoleOf(configMap.data)

SettingsInv == SettingsOK /\ ReadersSeeTheWhole /\ LinesAreKnown /\ Assigning /\ Waiting

LEMMA TheFields == ToSet(Fields) = AllFields
BY DEF ToSet, Fields, AllFields

LEMMA TheLeftOver ==
    ASSUME NEW s \in LeftOver, s # <<>>
    PROVE  /\ Head(s) \in AllFields /\ Tail(s) \in LeftOver
           /\ {s[i] : i \in DOMAIN s} = {Tail(s)[i] : i \in DOMAIN Tail(s)} \cup {Head(s)}
<1>1. CASE s = <<"console">>
  BY <1>1 DEF LeftOver, Fields, AllFields
<1>2. CASE s = <<"lines", "console">>
  BY <1>2 DEF LeftOver, Fields, AllFields
<1>4. CASE s = <<"snippet", "lines", "console">>
  BY <1>4 DEF LeftOver, Fields, AllFields
<1>3. CASE s = Fields
  BY <1>3 DEF LeftOver, Fields, AllFields
<1> QED
  BY <1>1, <1>2, <1>3, <1>4 DEF LeftOver

LEMMA NothingLeft == {(<<>>)[i] : i \in DOMAIN <<>>} = {} /\ {Fields[i] : i \in DOMAIN Fields} = AllFields
BY DEF Fields, AllFields

LEMMA InitSettingsInv == SettingsInit => SettingsInv
<1> SUFFICES ASSUME NEW data \in ConfigMaps, NEW env \in Dashboards, InitSettings(data, env) PROVE SettingsInv
  BY DEF SettingsInit
<1>1. /\ syncing = Starting(env) /\ settings = DefaultSettings
      /\ reader = [options |-> DefaultSettings.options, taken |-> 0, lines |-> Unread]
  BY DEF InitSettings
<1>2. /\ DefaultSettings.options = [f \in AllFields |-> Unset] /\ DOMAIN DefaultSettings = {"options", "catalogs", "console"}
      /\ "default" \in DOMAIN DefaultSettings.catalogs
  BY TheFields DEF DefaultSettings
<1>3. syncing.pc = "get" /\ syncing.todo = <<>> /\ ~syncing.locked /\ ~syncing.watching /\ syncing.whole = {DefaultSettings.options}
  BY <1>1 DEF Starting
<1>4. SettingsOK
  BY <1>1, <1>2, <1>3 DEF SettingsOK, SyncingOK, Starting, LeftOver
<1>5. ReadersSeeTheWhole /\ Assigning /\ Waiting
  BY <1>1, <1>3 DEF ReadersSeeTheWhole, Assigning, Waiting
<1>6. LinesAreKnown
  BY <1>1, <1>2, <1>3 DEF LinesAreKnown, LinesOf, AllFields, Unset, Unread, Invalid
<1> QED
  BY <1>4, <1>5, <1>6 DEF SettingsInv

\* A change is told or remembered as not seen, unless it comes before it is read.
LEMMA EditSettingsInv == ASSUME SettingsInv, NEW data, Edit(data) PROVE SettingsInv'
<1>1. /\ settings' = settings /\ reader' = reader
      /\ syncing' = [syncing EXCEPT !.told = @ \/ syncing.watching, !.unseen = @ \/ (~syncing.watching /\ syncing.pc # "get")]
  BY DEF Edit
<1>2. /\ DOMAIN syncing' = DOMAIN syncing /\ syncing'.pc = syncing.pc /\ syncing'.watching = syncing.watching
      /\ syncing'.locked = syncing.locked /\ syncing'.read = syncing.read /\ syncing'.todo = syncing.todo
      /\ syncing'.env = syncing.env /\ syncing'.rejected = syncing.rejected /\ syncing'.whole = syncing.whole
      /\ syncing'.told <=> syncing.told \/ syncing.watching
      /\ syncing'.unseen <=> syncing.unseen \/ (~syncing.watching /\ syncing.pc # "get")
  BY <1>1 DEF SettingsInv, SettingsOK, SyncingOK
<1>3. SettingsOK' /\ ReadersSeeTheWhole' /\ LinesAreKnown'
  BY <1>1, <1>2 DEF SettingsInv, SettingsOK, SyncingOK, ReadersSeeTheWhole, LinesAreKnown, LinesOf
<1>4. syncing.pc # "get" => syncing'.told \/ syncing'.unseen
  BY <1>2
<1>5. Assigning'
  BY <1>1, <1>2, <1>4 DEF SettingsInv, Assigning, UpToDate, InForceOf, AllValid, LeftFields
<1>6. Waiting'
  BY <1>2, <1>4 DEF Waiting
<1> QED
  BY <1>3, <1>5, <1>6 DEF SettingsInv

\* The goroutine waits again, for the informer or for a change.
LEMMA WaitFields ==
    ASSUME SettingsInv
    PROVE  /\ DOMAIN Wait = DOMAIN syncing /\ Wait.watching = syncing.watching /\ Wait.told = syncing.told
           /\ Wait.env = syncing.env /\ Wait.unseen = syncing.unseen /\ Wait.whole = syncing.whole /\ Wait.todo = <<>> /\ ~Wait.locked
           /\ Wait.pc = IF syncing.watching THEN "wait" ELSE "list"
BY DEF Wait, SettingsInv, SettingsOK, SyncingOK

LEMMA InformerSettingsInv == SettingsInv /\ (StartInformer \/ OnUpdate) => SettingsInv'
<1> SUFFICES ASSUME SettingsInv, StartInformer \/ OnUpdate PROVE SettingsInv'
  OBVIOUS
<1> USE DEF SettingsInv, SettingsOK, SyncingOK
<1>1. CASE StartInformer
  <2>1. /\ configMap' = configMap /\ settings' = settings /\ reader' = reader /\ DOMAIN syncing' = DOMAIN syncing
        /\ syncing.pc = "list" /\ syncing'.pc = "wait" /\ syncing'.watching = TRUE /\ syncing'.told = syncing.told
        /\ syncing'.unseen = syncing.unseen /\ syncing'.whole = syncing.whole /\ syncing'.todo = syncing.todo
        /\ syncing'.locked = syncing.locked /\ syncing'.env = syncing.env
    BY <1>1 DEF StartInformer
  <2> QED
    BY <2>1 DEF ReadersSeeTheWhole, LinesAreKnown, LinesOf, Assigning, Waiting, InForceOf, AllValid, ConsoleOf
<1>2. CASE OnUpdate
  <2>1. /\ configMap' = configMap /\ settings' = settings /\ reader' = reader /\ DOMAIN syncing' = DOMAIN syncing
        /\ syncing.pc = "wait" /\ syncing'.pc = "get" /\ syncing'.watching = syncing.watching
        /\ syncing'.whole = syncing.whole /\ syncing'.todo = syncing.todo /\ syncing'.locked = syncing.locked
    BY <1>2 DEF OnUpdate
  <2> QED
    BY <2>1 DEF ReadersSeeTheWhole, LinesAreKnown, LinesOf, Assigning, Waiting
<1> QED
  BY <1>1, <1>2

LEMMA ReadSettingsInv == SettingsInv /\ ReadConfigMap => SettingsInv'
<1> SUFFICES ASSUME SettingsInv, ReadConfigMap PROVE SettingsInv'
  OBVIOUS
<1>0. syncing.pc = "get" /\ configMap' = configMap /\ settings' = settings /\ reader' = reader
  BY DEF ReadConfigMap
<1>1. CASE syncing' = [syncing EXCEPT !.pc = "lock", !.read = configMap.data, !.rejected = FALSE, !.unseen = FALSE]
  <2>1. /\ DOMAIN syncing' = DOMAIN syncing /\ syncing'.pc = "lock" /\ syncing'.read = configMap.data /\ ~syncing'.rejected
        /\ syncing'.watching = syncing.watching /\ syncing'.locked = syncing.locked
        /\ syncing'.whole = syncing.whole /\ syncing'.todo = syncing.todo
    BY <1>1 DEF SettingsInv, SettingsOK, SyncingOK
  <2> QED
    BY <1>0, <2>1 DEF SettingsInv, SettingsOK, SyncingOK, ReadersSeeTheWhole, LinesAreKnown, LinesOf, Assigning, Waiting, UpToDate
<1>2. CASE syncing' = [Wait EXCEPT !.unseen = TRUE]
  <2>1. /\ DOMAIN syncing' = DOMAIN syncing /\ syncing'.pc = Wait.pc /\ syncing'.unseen
        /\ syncing'.watching = syncing.watching /\ ~syncing'.locked
        /\ syncing'.whole = syncing.whole /\ syncing'.todo = <<>>
    BY <1>2, WaitFields DEF SettingsInv, SettingsOK, SyncingOK
  <2> QED
    BY <1>0, <2>1, WaitFields DEF SettingsInv, SettingsOK, SyncingOK, LeftOver, ReadersSeeTheWhole, LinesAreKnown, LinesOf, Assigning, Waiting
<1> QED
  BY <1>1, <1>2 DEF ReadConfigMap

LEMMA SyncConfigSettingsInv == SettingsInv /\ SyncConfig => SettingsInv'
<1> SUFFICES ASSUME SettingsInv, SyncConfig PROVE SettingsInv'
  OBVIOUS
<1>1. /\ syncing.pc = "lock" /\ ~syncing.locked /\ configMap' = configMap /\ reader' = reader
      /\ settings' = [settings EXCEPT !.catalogs = getHubCatalogs(settings.catalogs, syncing.read)]
      /\ syncing' = [syncing EXCEPT !.pc = "assign", !.locked = TRUE, !.todo = Fields]
  BY DEF SyncConfig
<1>2. /\ DOMAIN syncing' = DOMAIN syncing /\ syncing'.pc = "assign" /\ syncing'.locked /\ syncing'.todo = Fields
      /\ syncing'.watching = syncing.watching /\ syncing'.read = syncing.read /\ syncing'.told = syncing.told
      /\ syncing'.unseen = syncing.unseen /\ syncing'.rejected = syncing.rejected /\ syncing'.whole = syncing.whole
  BY <1>1 DEF SettingsInv, SettingsOK, SyncingOK
<1>3. /\ DOMAIN settings' = DOMAIN settings /\ settings'.options = settings.options
      /\ settings'.catalogs = getHubCatalogs(settings.catalogs, syncing.read)
  BY <1>1 DEF SettingsInv, SettingsOK
<1>4. SettingsOK'
  <2>1. "default" \in DOMAIN settings'.catalogs
    BY <1>3 DEF getHubCatalogs, SettingsInv, SettingsOK
  <2> QED
    BY <2>1, <1>1, <1>2, <1>3 DEF SettingsInv, SettingsOK, SyncingOK, LeftOver
<1>5. ReadersSeeTheWhole' /\ LinesAreKnown'
  BY <1>1, <1>2, <1>3 DEF SettingsInv, ReadersSeeTheWhole, LinesAreKnown, LinesOf
<1>6. LeftFields' = AllFields
  BY <1>2, NothingLeft DEF LeftFields
<1>7. InForceOf(syncing.read, LeftFields)'
  <2>1. settings'.catalogs["default"] = IF syncing.read.hub = Unset THEN DefaultHub ELSE syncing.read.hub
    BY <1>3 DEF getHubCatalogs, SettingsInv, SettingsOK
  <2>2. \A c \in DOMAIN syncing.read.catalogs : c # "default" => settings'.catalogs[c] = syncing.read.catalogs[c]
    BY <1>3 DEF getHubCatalogs
  <2> QED
    BY <1>2, <1>6, <2>1, <2>2 DEF InForceOf
<1>8. Assigning'
  BY <1>1, <1>2, <1>6, <1>7 DEF SettingsInv, Assigning, UpToDate
<1>9. Waiting'
  BY <1>2 DEF Waiting
<1> QED
  BY <1>4, <1>5, <1>8, <1>9 DEF SettingsInv

LEMMA AssignSettingsInv == SettingsInv /\ ValidateAndAssignValue => SettingsInv'
<1> SUFFICES ASSUME SettingsInv, ValidateAndAssignValue PROVE SettingsInv'
  OBVIOUS
<1> DEFINE f == Head(syncing.todo)
           value == syncing.read.fields[f]
<1>1. /\ syncing.pc = "assign" /\ syncing.todo # <<>> /\ configMap' = configMap /\ reader' = reader
      /\ settings' = IF value = Invalid THEN settings ELSE [settings EXCEPT !.options[f] = value]
      /\ syncing' = [syncing EXCEPT !.todo = Tail(syncing.todo), !.rejected = syncing.rejected \/ value = Invalid]
  BY DEF ValidateAndAssignValue
<1>2. /\ DOMAIN syncing' = DOMAIN syncing /\ syncing'.pc = "assign" /\ syncing'.locked = syncing.locked
      /\ syncing'.todo = Tail(syncing.todo) /\ syncing'.watching = syncing.watching /\ syncing'.read = syncing.read
      /\ syncing'.told = syncing.told /\ syncing'.unseen = syncing.unseen /\ syncing'.whole = syncing.whole
      /\ syncing'.rejected <=> syncing.rejected \/ value = Invalid
  BY <1>1 DEF SettingsInv, SettingsOK, SyncingOK
<1>3. /\ f \in AllFields /\ Tail(syncing.todo) \in LeftOver
      /\ LeftFields = LeftFields' \cup {f}
  <2>1. syncing.todo \in LeftOver /\ syncing.todo # <<>>
    BY <1>1 DEF SettingsInv, SettingsOK, SyncingOK
  <2>2. /\ LeftFields = {syncing.todo[i] : i \in DOMAIN syncing.todo}
        /\ LeftFields' = {Tail(syncing.todo)[i] : i \in DOMAIN Tail(syncing.todo)}
    BY <1>1, <1>2 DEF LeftFields
  <2> QED
    BY <2>1, <2>2, TheLeftOver
<1> HIDE DEF f, value
<1>4. /\ DOMAIN settings' = DOMAIN settings /\ settings'.catalogs = settings.catalogs /\ settings'.console = settings.console
      /\ DOMAIN settings'.options = AllFields
      /\ \A g \in AllFields : g # f => settings'.options[g] = settings.options[g]
      /\ value = Invalid \/ settings'.options[f] = value
  BY <1>1, <1>3 DEF SettingsInv, SettingsOK
<1>5. SettingsOK'
  BY <1>1, <1>2, <1>3, <1>4 DEF SettingsInv, SettingsOK, SyncingOK
<1>7. value = syncing.read.fields[f]
  BY DEF value, f
<1>6. ReadersSeeTheWhole' /\ LinesAreKnown'
  <2>1. ReadersSeeTheWhole'
    BY <1>1, <1>2 DEF SettingsInv, SettingsOK, SyncingOK, ReadersSeeTheWhole
  <2>2. LinesOf(reader.lines)' <=> LinesOf(reader.lines)
    BY <1>1, <1>2 DEF LinesOf
  <2>3. CASE f # "lines" \/ value = Invalid
    <3>1. settings'.options["lines"] = settings.options["lines"]
      BY <1>1, <1>4, <2>3 DEF AllFields
    <3> QED
      BY <1>1, <1>2, <2>1, <2>2, <3>1 DEF SettingsInv, LinesAreKnown, LinesOf
  <2>4. CASE f = "lines" /\ value # Invalid
    <3>1. settings'.options["lines"] = value /\ value = syncing.read.fields["lines"]
      BY <1>4, <1>7, <2>4
    <3> QED
      BY <1>1, <1>2, <2>1, <2>2, <2>4, <3>1 DEF SettingsInv, LinesAreKnown, LinesOf
  <2> QED
    BY <2>3, <2>4
<1>8. InForceOf(syncing.read, LeftFields)'
  BY <1>1, <1>2, <1>3, <1>4, <1>7 DEF SettingsInv, Assigning, InForceOf
<1>9. /\ syncing'.rejected => ~AllValid(syncing.read)
      /\ ~syncing'.rejected => \A g \in AllFields : g \in LeftFields' \/ syncing.read.fields[g] # Invalid
  BY <1>1, <1>2, <1>3, <1>7 DEF SettingsInv, Assigning, AllValid
<1>10. Assigning'
  BY <1>1, <1>2, <1>8, <1>9 DEF SettingsInv, Assigning, UpToDate, AllValid
<1>11. Waiting'
  BY <1>2 DEF Waiting
<1> QED
  BY <1>5, <1>6, <1>10, <1>11 DEF SettingsInv

LEMMA AssignedSettingsInv == SettingsInv /\ Assigned => SettingsInv'
<1> SUFFICES ASSUME SettingsInv, Assigned PROVE SettingsInv'
  OBVIOUS
<1> DEFINE whole == syncing.whole \cup {settings.options}
<1>1. /\ syncing.pc = "assign" /\ syncing.todo = <<>> /\ configMap' = configMap /\ reader' = reader /\ settings' = settings
      /\ syncing' = IF syncing.rejected THEN [Wait EXCEPT !.whole = whole]
                    ELSE [syncing EXCEPT !.pc = "console", !.locked = FALSE, !.whole = whole]
  BY DEF Assigned
<1>2. LeftFields = {}
  BY <1>1, NothingLeft DEF LeftFields
<1>3. UpToDate(syncing.read) /\ InForceOf(syncing.read, {})
  BY <1>1, <1>2 DEF SettingsInv, Assigning
<1>6. \A value : LinesOf(value) /\ value # Invalid => \E options \in whole : value = options["lines"]
  BY <1>1, <1>3 DEF LinesOf, InForceOf, AllFields
<1>4. CASE syncing.rejected
  <2>1. /\ DOMAIN syncing' = DOMAIN syncing /\ syncing'.pc = Wait.pc /\ syncing'.unseen = syncing.unseen
        /\ syncing'.told = syncing.told /\ syncing'.watching = syncing.watching /\ ~syncing'.locked
        /\ syncing'.whole = whole /\ syncing'.todo = <<>>
    BY <1>1, <1>4, WaitFields DEF SettingsInv, SettingsOK, SyncingOK
  <2>2. SettingsOK'
    BY <1>1, <2>1, WaitFields DEF SettingsInv, SettingsOK, SyncingOK, LeftOver
  <2>3. ReadersSeeTheWhole' /\ Assigning'
    BY <1>1, <2>1, WaitFields DEF SettingsInv, ReadersSeeTheWhole, Assigning
  <2>6. LinesAreKnown'
    BY <1>1, <1>6, <2>1 DEF SettingsInv, LinesAreKnown, LinesOf
  <2>4. ~AllValid(syncing.read)
    BY <1>1, <1>4 DEF SettingsInv, Assigning
  <2>5. Waiting'
    BY <1>1, <1>3, <2>1, <2>4 DEF Waiting, UpToDate, InForceOf, AllValid
  <2> QED
    BY <2>2, <2>3, <2>5, <2>6 DEF SettingsInv
<1>5. CASE ~syncing.rejected
  <2>1. /\ DOMAIN syncing' = DOMAIN syncing /\ syncing'.pc = "console" /\ syncing'.unseen = syncing.unseen
        /\ syncing'.told = syncing.told /\ syncing'.watching = syncing.watching /\ ~syncing'.locked
        /\ syncing'.whole = whole /\ syncing'.todo = syncing.todo /\ syncing'.read = syncing.read
    BY <1>1, <1>5 DEF SettingsInv, SettingsOK, SyncingOK
  <2>2. SettingsOK'
    BY <1>1, <2>1 DEF SettingsInv, SettingsOK, SyncingOK
  <2>3. ReadersSeeTheWhole'
    BY <1>1, <2>1 DEF SettingsInv, ReadersSeeTheWhole
  <2>8. LinesAreKnown'
    <3>1. \A value : LinesOf(value) /\ value # Invalid => LinesOf(value)'
      BY <1>6, <2>1 DEF LinesOf
    <3>2. reader' = reader /\ settings' = settings
      BY <1>1
    <3> QED
      BY <3>1, <3>2 DEF SettingsInv, LinesAreKnown
  <2>4. AllValid(syncing.read)
    BY <1>1, <1>2, <1>5 DEF SettingsInv, Assigning, AllValid
  <2>5. LeftFields' = {}
    BY <2>1 DEF LeftFields
  <2>6. Assigning'
    BY <1>1, <1>3, <2>1, <2>4, <2>5 DEF Assigning, UpToDate, InForceOf, AllValid
  <2>7. Waiting'
    BY <2>1 DEF Waiting
  <2> QED
    BY <2>2, <2>3, <2>6, <2>7, <2>8 DEF SettingsInv
<1> QED
  BY <1>4, <1>5

LEMMA ConsoleSettingsInv == SettingsInv /\ SetConsoleUI => SettingsInv'
<1> SUFFICES ASSUME SettingsInv, SetConsoleUI PROVE SettingsInv'
  OBVIOUS
<1>1. /\ syncing.pc = "console" /\ configMap' = configMap /\ reader' = reader /\ syncing' = Wait
      /\ settings' = [settings EXCEPT !.console = Console(settings.options, settings.console, syncing.env)]
  BY DEF SetConsoleUI
<1>2. /\ DOMAIN settings' = DOMAIN settings /\ settings'.options = settings.options /\ settings'.catalogs = settings.catalogs
      /\ settings'.console = Console(settings.options, settings.console, syncing.env)
  BY <1>1 DEF SettingsInv, SettingsOK
<1>3. LeftFields = {}
  BY <1>1 DEF LeftFields
<1>4. UpToDate(syncing.read) /\ InForceOf(syncing.read, {}) /\ AllValid(syncing.read)
  BY <1>1, <1>3 DEF SettingsInv, Assigning
<1>5. settings'.console = ConsoleOf(syncing.read)
  <2>1. settings.options["console"] = syncing.read.fields["console"] /\ settings.options["dashboard"] = syncing.read.fields["dashboard"]
    BY <1>4 DEF InForceOf, AllValid, AllFields
  <2>2. CASE syncing.read.fields["console"] # Unset
    BY <1>2, <2>1, <2>2 DEF Console, ConsoleOf
  <2>3. CASE syncing.read.fields["console"] = Unset /\ syncing.env = Unset /\ syncing.read.fields["dashboard"] = Unset
    BY <1>2, <2>1, <2>3 DEF Console, ConsoleOf
  <2>4. CASE syncing.read.fields["console"] = Unset /\ syncing.env = Unset /\ syncing.read.fields["dashboard"] # Unset
    BY <1>2, <2>1, <2>4 DEF Console, ConsoleOf, Dashboard
  <2>5. CASE syncing.read.fields["console"] = Unset /\ syncing.env # Unset
    BY <1>2, <2>1, <2>5 DEF Console, ConsoleOf
  <2> QED
    BY <2>2, <2>3, <2>4, <2>5
<1>6. SettingsOK' /\ ReadersSeeTheWhole' /\ LinesAreKnown' /\ Assigning'
  BY <1>1, <1>2, WaitFields
  DEF SettingsInv, SettingsOK, SyncingOK, LeftOver, ReadersSeeTheWhole, LinesAreKnown, LinesOf, Assigning
<1>7. Waiting'
  BY <1>1, <1>2, <1>4, <1>5, WaitFields DEF Waiting, UpToDate, InForceOf, AllValid, ConsoleOf
<1> QED
  BY <1>6, <1>7 DEF SettingsInv

LEMMA NextSettingsInv == SettingsInv /\ [SettingsNext]_settingsVars => SettingsInv'
<1> SUFFICES ASSUME SettingsInv, [SettingsNext]_settingsVars PROVE SettingsInv'
  OBVIOUS
<1>1. ASSUME NEW data \in ConfigMaps, Edit(data) PROVE SettingsInv'
  BY <1>1, EditSettingsInv
<1>2. CASE GetPacOpts
  <2>1. /\ configMap' = configMap /\ settings' = settings /\ syncing' = syncing /\ ~syncing.locked
        /\ reader' = [options |-> settings.options, taken |-> reader.taken + 1, lines |-> Unread]
    BY <1>2 DEF GetPacOpts, Readable
  <2> QED
    BY <2>1 DEF SettingsInv, SettingsOK, ReadersSeeTheWhole, LinesAreKnown, LinesOf, Unread, Invalid, Assigning, Waiting, UpToDate,
       InForceOf, AllValid, ConsoleOf, LeftFields
<1>3. CASE GetFailureSnippet
  <2>1. /\ configMap' = configMap /\ settings' = settings /\ syncing' = syncing
        /\ reader' = [reader EXCEPT !.lines = settings.options["lines"]]
    BY <1>3 DEF GetFailureSnippet
  <2>2. DOMAIN reader' = DOMAIN reader /\ reader'.options = reader.options /\ reader'.lines = settings.options["lines"]
    BY <2>1 DEF SettingsInv, SettingsOK
  <2> QED
    BY <2>1, <2>2 DEF SettingsInv, SettingsOK, ReadersSeeTheWhole, LinesAreKnown, LinesOf, Assigning, Waiting, UpToDate,
       InForceOf, AllValid, ConsoleOf, LeftFields
<1>4. CASE UNCHANGED settingsVars
  BY <1>4 DEF settingsVars, SettingsInv, SettingsOK, ReadersSeeTheWhole, LinesAreKnown, LinesOf, Assigning, Waiting, UpToDate,
     InForceOf, AllValid, ConsoleOf, LeftFields
<1> QED
  BY <1>1, <1>2, <1>3, <1>4, InformerSettingsInv, ReadSettingsInv, SyncConfigSettingsInv, AssignSettingsInv, AssignedSettingsInv,
     ConsoleSettingsInv DEF SettingsNext, SyncNext

\* Whatever the administrator writes and when, and whatever dashboard the environment
\* names: the copy an event takes is of one reading and never half of a change, the lines it
\* reads beside the copy are of some reading, and when the goroutine has nothing left to do
\* the valid fields, the catalogs and the console are those of the ConfigMap and the
\* environment, but for a change it was not told of or could not read.
THEOREM SettingsAlwaysFollow == SettingsSpec => []SettingsFollowTheConfigMap
<1>1. SettingsInv => CopiesAreWhole
  BY DEF SettingsInv, ReadersSeeTheWhole, CopiesAreWhole
<1>2. SettingsInv => ReportedLinesWereInForce
  BY DEF SettingsInv, LinesAreKnown, LinesOf, ReportedLinesWereInForce
<1>3. SettingsInv => ConfigMapIsFollowed
  BY TheFields DEF SettingsInv, Waiting, InForceOf, AllValid, ConsoleOf, ConfigMapIsFollowed, AllFields
<1>4. SettingsInv => SettingsFollowTheConfigMap
  BY <1>1, <1>2, <1>3 DEF SettingsFollowTheConfigMap
<1> QED
  BY <1>4, InitSettingsInv, NextSettingsInv, PTL DEF SettingsSpec
-----------------------------------------------------------------------------
(***************************************************************************)
(* Analysis: for any roles of different names, however often the workers   *)
(* have to begin again.                                                    *)
(***************************************************************************)
CONSTANTS RoleNames, ContextItems

RoleRecord == [name : RoleNames, onCEL : {"none", "true", "false", "error"}, items : SUBSET ContextItems]
ContextRecord == [items : SUBSET ContextItems, version : Nat]
ResultRecord == [role : RoleNames, answered : BOOLEAN, context : ContextRecord]
CommentRecord == [words : {{<<"heading", n>>} : n \in RoleNames}, pass : Nat, role : RoleNames]

NamedApart(roles) == \A i, j \in 1 .. Len(roles) : roles[i].name = roles[j].name => i = j
AnalysisInit ==
    \E valid, pullRequest \in BOOLEAN, roles \in Seq(RoleRecord), passes \in Nat :
        /\ NamedApart(roles) /\ (valid => roles # <<>>)
        /\ InitAnalysis(valid, roles, pullRequest, passes)
AnalysisSpec == AnalysisInit /\ [][AnalysisNext]_analysisVars

ConfigOK ==
    /\ config.roles \in Seq(RoleRecord) /\ NamedApart(config.roles)
    /\ config.valid => config.roles # <<>>
    /\ config.passes \in Nat
AnalysisOK(a) ==
    /\ DOMAIN a = {"pc", "pass", "role", "attempt", "context", "cache", "results", "posted"}
    /\ a.pc \in {"start", "trigger", "context", "client", "ask", "post", "done"}
    /\ a.pass \in Nat /\ a.role \in Nat \ {0} /\ a.context \in ContextRecord
    /\ a.results \in Seq(ResultRecord) /\ a.posted \in Nat
DiscussionOK ==
    /\ DOMAIN discussion = {"version", "comments", "refused"}
    /\ discussion.version \in Nat /\ discussion.comments \in Seq(CommentRecord)

InARole == {"trigger", "context", "client", "ask"}
Asks(m) == config.roles[m].onCEL \in {"none", "true"}

\* How many roles are done with.
RolesDone == IF analysis.pc = "start" THEN 0 ELSE IF analysis.pc \in InARole THEN analysis.role - 1 ELSE Len(config.roles)

\* A result is of one of these roles, in its own context, the one of the cache if it was asked.
ResultOf(a, x, m) ==
    /\ x.role = config.roles[m].name
    /\ x.context.items \subseteq config.roles[m].items
    /\ Asks(m) => config.roles[m].items \in DOMAIN a.cache /\ x.context = a.cache[config.roles[m].items]
ResultsOf(a, k) ==
    /\ \A i \in 1 .. Len(a.results) : \E m \in 1 .. k : m <= Len(config.roles) /\ ResultOf(a, a.results[i], m)
    /\ \A i, j \in 1 .. Len(a.results) : a.results[i].role = a.results[j].role => i = j
    /\ config.valid => \A m \in 1 .. k : Asks(m) => \E i \in 1 .. Len(a.results) : a.results[i].role = config.roles[m].name

CacheOK(a) == \A key \in DOMAIN a.cache : a.cache[key] \in ContextRecord /\ a.cache[key].items \subseteq key
Progress(a) ==
    /\ a.pc \in {"start"} \cup InARole => a.posted = 0
    /\ a.pc = "start" => a.results = <<>> /\ a.role = 1
    /\ a.pc \in InARole => a.role <= Len(config.roles) /\ config.valid
    /\ a.pc \in {"context", "client", "ask"} => Asks(a.role)
    /\ a.pc \in {"client", "ask"} => config.roles[a.role].items \in DOMAIN a.cache /\ a.context = a.cache[config.roles[a.role].items]
    /\ a.pc = "post" => a.posted < Len(a.results)
    /\ a.pc = "done" => a.posted = Len(a.results)
    /\ ~config.valid => a.results = <<>>

Commented(i) == \E c \in 1 .. Len(discussion.comments) :
    discussion.comments[c].role = analysis.results[i].role /\ discussion.comments[c].pass = analysis.pass
PostedAreComments ==
    \A i \in 1 .. Len(analysis.results) :
        i <= analysis.posted /\ Postable(analysis.results[i]) /\ analysis.results[i].role \notin discussion.refused => Commented(i)

AnalysisInv ==
    /\ ConfigOK /\ AnalysisOK(analysis) /\ DiscussionOK
    /\ ResultsOf(analysis, RolesDone) /\ CacheOK(analysis) /\ Progress(analysis)
    /\ PostedAreComments

\* A worker begins, for the first time or again.
LEMMA PassFields ==
    ASSUME NEW n \in Nat
    PROVE  AnalysisOK(Pass(n)) /\ Pass(n).pc = "start" /\ Pass(n).results = <<>> /\ Pass(n).role = 1 /\ Pass(n).posted = 0 /\ CacheOK(Pass(n))
BY DEF Pass, NoContext, AnalysisOK, ContextRecord, CacheOK

LEMMA BeginsAnew ==
    ASSUME ConfigOK, NEW n \in Nat, analysis' = Pass(n), DiscussionOK', config' = config
    PROVE  AnalysisInv'
<1>1. AnalysisOK(analysis)' /\ CacheOK(analysis)' /\ analysis'.pc = "start" /\ analysis'.results = <<>> /\ analysis'.role = 1 /\ analysis'.posted = 0
  BY PassFields
<1>2. Len(analysis'.results) = 0 /\ RolesDone' = 0
  BY <1>1 DEF RolesDone
<1>3. ConfigOK'
  BY DEF ConfigOK
<1>4. ResultsOf(analysis, RolesDone)'
  BY <1>1, <1>2 DEF ResultsOf
<1>5. Progress(analysis)' /\ PostedAreComments'
  BY <1>1, <1>2 DEF Progress, InARole, PostedAreComments
<1> QED
  BY <1>1, <1>3, <1>4, <1>5 DEF AnalysisInv

LEMMA InitAnalysisInv == AnalysisInit => AnalysisInv
<1> SUFFICES ASSUME NEW valid \in BOOLEAN, NEW pullRequest \in BOOLEAN, NEW roles \in Seq(RoleRecord), NEW passes \in Nat,
                    NamedApart(roles), valid => roles # <<>>, InitAnalysis(valid, roles, pullRequest, passes)
             PROVE  AnalysisInv
  BY DEF AnalysisInit
<1>1. ConfigOK /\ DiscussionOK /\ analysis = Pass(1)
  BY DEF InitAnalysis, ConfigOK, DiscussionOK
<1>2. AnalysisOK(analysis) /\ CacheOK(analysis) /\ analysis.pc = "start" /\ analysis.results = <<>> /\ analysis.role = 1 /\ analysis.posted = 0
  BY <1>1, PassFields
<1>3. Len(analysis.results) = 0 /\ RolesDone = 0
  BY <1>2 DEF RolesDone
<1>4. ResultsOf(analysis, RolesDone)
  BY <1>2, <1>3 DEF ResultsOf
<1>5. Progress(analysis) /\ PostedAreComments
  BY <1>2, <1>3 DEF Progress, InARole, PostedAreComments
<1> QED
  BY <1>1, <1>2, <1>4, <1>5 DEF AnalysisInv

\* A role is done with: with a result of its own, or none when it is not asked.
LEMMA RoleIsDone ==
    ASSUME AnalysisInv, analysis.pc \in InARole, NEW rs \in Seq(ResultRecord), Then(rs), UNCHANGED <<config, discussion>>,
           \/ rs = analysis.results /\ ~Asks(analysis.role)
           \/ \E x \in ResultRecord : rs = Append(analysis.results, x) /\ ResultOf(analysis, x, analysis.role)
    PROVE  AnalysisInv'
<1>1. /\ DOMAIN analysis = {"pc", "pass", "role", "attempt", "context", "cache", "results", "posted"}
      /\ analysis.role \in Nat \ {0} /\ analysis.posted = 0 /\ config.valid
      /\ Len(config.roles) \in Nat /\ analysis.role <= Len(config.roles) /\ Len(analysis.results) \in Nat
      /\ analysis.results \in Seq(ResultRecord) /\ config.roles \in Seq(RoleRecord)
  BY DEF AnalysisInv, AnalysisOK, Progress, ConfigOK
<1>2. /\ DOMAIN analysis' = DOMAIN analysis /\ analysis'.results = rs /\ analysis'.pass = analysis.pass
      /\ analysis'.role = (IF analysis.role = Len(config.roles) THEN 1 ELSE analysis.role + 1)
      /\ analysis'.pc = (IF analysis.role < Len(config.roles) THEN "trigger" ELSE IF rs = <<>> THEN "done" ELSE "post")
      /\ analysis'.cache = analysis.cache /\ analysis'.context = analysis.context /\ analysis'.posted = 0
      /\ config' = config /\ discussion' = discussion
  BY <1>1 DEF Then
<1>3. AnalysisOK(analysis)' /\ ConfigOK' /\ DiscussionOK' /\ CacheOK(analysis)'
  BY <1>1, <1>2 DEF AnalysisInv, AnalysisOK, ConfigOK, DiscussionOK, CacheOK
<1>4. RolesDone = analysis.role - 1 /\ RolesDone' = analysis.role
  BY <1>1, <1>2 DEF RolesDone, InARole
<1>5. Progress(analysis)'
  <2>1. Len(rs) \in Nat /\ (rs # <<>> => 0 < Len(rs)) /\ (rs = <<>> => Len(rs) = 0)
    OBVIOUS
  <2> QED
    BY <1>1, <1>2, <2>1 DEF Progress, InARole
<1>6. PostedAreComments'
  BY <1>1, <1>2 DEF PostedAreComments
<1>7. ResultsOf(analysis, RolesDone)'
  <2>1. /\ \A i \in 1 .. Len(analysis.results) : \E m \in 1 .. analysis.role - 1 : m <= Len(config.roles) /\ ResultOf(analysis, analysis.results[i], m)
        /\ \A i, j \in 1 .. Len(analysis.results) : analysis.results[i].role = analysis.results[j].role => i = j
        /\ \A m \in 1 .. analysis.role - 1 : Asks(m) => \E i \in 1 .. Len(analysis.results) : analysis.results[i].role = config.roles[m].name
    BY <1>1, <1>4 DEF AnalysisInv, ResultsOf
  <2>2. \A x, m : ResultOf(analysis, x, m)' <=> ResultOf(analysis, x, m)
    BY <1>2 DEF ResultOf, Asks
  <2>3. \A m : Asks(m)' <=> Asks(m)
    BY <1>2 DEF Asks
  <2>4. CASE rs = analysis.results /\ ~Asks(analysis.role)
    <3>1. \A i \in 1 .. Len(rs) : \E m \in 1 .. analysis.role : m <= Len(config.roles) /\ ResultOf(analysis, rs[i], m)
      <4> SUFFICES ASSUME NEW i \in 1 .. Len(rs)
                   PROVE  \E m \in 1 .. analysis.role : m <= Len(config.roles) /\ ResultOf(analysis, rs[i], m)
        OBVIOUS
      <4>1. PICK m \in 1 .. analysis.role - 1 : m <= Len(config.roles) /\ ResultOf(analysis, analysis.results[i], m)
        BY <2>1, <2>4
      <4>2. m \in 1 .. analysis.role
        <5>1. analysis.role \in Nat
          BY <1>1
        <5> QED
          BY <5>1
      <4>3. ResultOf(analysis, rs[i], m)
        BY <2>4, <4>1
      <4> QED
        BY <4>1, <4>2, <4>3, Zenon
    <3>2. \A m \in 1 .. analysis.role : Asks(m) => m \in 1 .. analysis.role - 1
      BY <1>1, <2>4
    <3> QED
      BY <1>1, <1>2, <1>4, <2>1, <2>2, <2>3, <2>4, <3>1, <3>2 DEF ResultsOf
  <2>5. ASSUME NEW x \in ResultRecord, rs = Append(analysis.results, x), ResultOf(analysis, x, analysis.role)
        PROVE  ResultsOf(analysis, RolesDone)'
    <3> DEFINE n == Len(analysis.results)
    <3>1. /\ n \in Nat /\ Len(rs) = n + 1 /\ rs[n + 1] = x
          /\ \A i \in 1 .. n : rs[i] = analysis.results[i]
      BY <1>1, <2>5
    <3> HIDE DEF n
    <3>2. \A i \in 1 .. Len(rs) : i \in 1 .. n \/ i = n + 1
      BY <3>1
    <3>3. \A i \in 1 .. n : \E m \in 1 .. analysis.role - 1 : m <= Len(config.roles) /\ ResultOf(analysis, rs[i], m)
      BY <2>1, <3>1 DEF n
    <3>4. \A i \in 1 .. Len(rs) : \E m \in 1 .. analysis.role : m <= Len(config.roles) /\ ResultOf(analysis, rs[i], m)
      <4> SUFFICES ASSUME NEW i \in 1 .. Len(rs)
                   PROVE  \E m \in 1 .. analysis.role : m <= Len(config.roles) /\ ResultOf(analysis, rs[i], m)
        OBVIOUS
      <4>1. CASE i \in 1 .. n
        <5>1. PICK m \in 1 .. analysis.role - 1 : m <= Len(config.roles) /\ ResultOf(analysis, rs[i], m)
          BY <3>3, <4>1
        <5>2. m \in 1 .. analysis.role
          BY <1>1
        <5> QED
          BY <5>1, <5>2
      <4>2. CASE i = n + 1
        <5>1. analysis.role \in 1 .. analysis.role /\ rs[i] = x
          BY <1>1, <3>1, <4>2
        <5> QED
          BY <5>1, <1>1, <2>5
      <4> QED
        BY <3>2, <4>1, <4>2
    <3>5. \A i \in 1 .. n : rs[i].role # x.role
      <4> SUFFICES ASSUME NEW i \in 1 .. n, rs[i].role = x.role PROVE FALSE
        OBVIOUS
      <4>1. PICK m \in 1 .. analysis.role - 1 : m <= Len(config.roles) /\ ResultOf(analysis, rs[i], m)
        BY <3>3
      <4>2. config.roles[m].name = config.roles[analysis.role].name
        BY <4>1, <2>5 DEF ResultOf
      <4>3. m \in 1 .. Len(config.roles) /\ analysis.role \in 1 .. Len(config.roles) /\ m # analysis.role
        BY <1>1, <4>1
      <4> QED
        BY <4>2, <4>3 DEF AnalysisInv, ConfigOK, NamedApart
    <3>6. \A i, j \in 1 .. Len(rs) : rs[i].role = rs[j].role => i = j
      <4> SUFFICES ASSUME NEW i \in 1 .. Len(rs), NEW j \in 1 .. Len(rs), rs[i].role = rs[j].role PROVE i = j
        OBVIOUS
      <4>1. CASE i \in 1 .. n /\ j \in 1 .. n
        BY <2>1, <3>1, <4>1 DEF n
      <4>2. CASE i = n + 1 \/ j = n + 1
        BY <3>1, <3>2, <3>5, <4>2
      <4> QED
        BY <3>2, <4>1, <4>2
    <3>7. \A m \in 1 .. analysis.role : Asks(m) => \E i \in 1 .. Len(rs) : rs[i].role = config.roles[m].name
      <4> SUFFICES ASSUME NEW m \in 1 .. analysis.role, Asks(m) PROVE \E i \in 1 .. Len(rs) : rs[i].role = config.roles[m].name
        OBVIOUS
      <4>1. CASE m = analysis.role
        <5>1. n + 1 \in 1 .. Len(rs) /\ rs[n + 1].role = config.roles[m].name
          BY <2>5, <3>1, <4>1 DEF ResultOf
        <5> QED
          BY <5>1
      <4>2. CASE m # analysis.role
        <5>1. PICK i \in 1 .. n : analysis.results[i].role = config.roles[m].name
          BY <1>1, <2>1, <4>2 DEF n
        <5>2. i \in 1 .. Len(rs) /\ rs[i].role = config.roles[m].name
          BY <3>1, <5>1
        <5> QED
          BY <5>2
      <4> QED
        BY <4>1, <4>2
    <3> QED
      BY <1>2, <1>4, <2>2, <2>3, <3>4, <3>6, <3>7 DEF ResultsOf
  <2> QED
    BY <2>4, <2>5
<1> QED
  BY <1>3, <1>5, <1>6, <1>7 DEF AnalysisInv

\* A step within a role keeps the results; the cache may get another context.
LEMMA RoleGoesOn ==
    ASSUME AnalysisInv, analysis.pc \in InARole, UNCHANGED <<config, discussion>>,
           AnalysisOK(analysis)', CacheOK(analysis)', Progress(analysis)', analysis'.pc \in InARole,
           analysis'.role = analysis.role, analysis'.results = analysis.results, analysis'.pass = analysis.pass,
           \A key \in DOMAIN analysis.cache : key \in DOMAIN analysis'.cache /\ analysis'.cache[key] = analysis.cache[key]
    PROVE  AnalysisInv'
<1>1. ConfigOK' /\ DiscussionOK' /\ RolesDone' = RolesDone
  BY DEF AnalysisInv, ConfigOK, DiscussionOK, RolesDone, InARole
<1>2. \A x, m : ResultOf(analysis, x, m) => ResultOf(analysis, x, m)'
  BY DEF ResultOf, Asks
<1>3. ResultsOf(analysis, RolesDone)'
  BY <1>1, <1>2 DEF AnalysisInv, ResultsOf, Asks
<1>4. analysis'.posted = 0 /\ Len(analysis'.results) \in Nat
  BY DEF Progress, AnalysisOK
<1>5. PostedAreComments'
  BY <1>4 DEF PostedAreComments
<1> QED
  BY <1>1, <1>3, <1>5 DEF AnalysisInv

\* What a role has asked, or could not ask, is its result.
LEMMA AnsweredAnalysisInv ==
    ASSUME AnalysisInv, analysis.pc \in {"client", "ask"}, NEW answered \in BOOLEAN, Answered(answered), UNCHANGED <<config, discussion>>
    PROVE  AnalysisInv'
<1> DEFINE x == [role |-> CurrentRole.name, answered |-> answered, context |-> analysis.context]
           items == config.roles[analysis.role].items
<1>1. /\ analysis.role \in 1 .. Len(config.roles) /\ config.roles \in Seq(RoleRecord) /\ analysis.context \in ContextRecord
      /\ analysis.results \in Seq(ResultRecord) /\ analysis.pc \in InARole
      /\ items \in DOMAIN analysis.cache /\ analysis.context = analysis.cache[items]
      /\ analysis.context.items \subseteq items
  BY DEF AnalysisInv, AnalysisOK, ConfigOK, Progress, CacheOK, InARole
<1>2. CurrentRole = config.roles[analysis.role] /\ CurrentRole \in RoleRecord
  BY <1>1 DEF CurrentRole
<1>3. x \in ResultRecord /\ x.role = CurrentRole.name /\ x.context = analysis.context
  BY <1>1, <1>2 DEF ResultRecord, RoleRecord
<1>4. Then(Append(analysis.results, x))
  BY SMTT(30) DEF Answered
<1> HIDE DEF x
<1>5. ResultOf(analysis, x, analysis.role)
  BY <1>1, <1>2, <1>3 DEF ResultOf
<1>6. Append(analysis.results, x) \in Seq(ResultRecord)
  BY <1>1, <1>3
<1> QED
  BY <1>1, <1>3, <1>4, <1>5, <1>6, RoleIsDone

LEMMA StartAnalysisInv == AnalysisInv /\ validateAnalysisConfig => AnalysisInv'
<1> SUFFICES ASSUME AnalysisInv, validateAnalysisConfig PROVE AnalysisInv'
  OBVIOUS
<1> DEFINE pc == IF config.valid THEN "trigger" ELSE "done"
<1>1. /\ analysis.pc = "start" /\ analysis' = [analysis EXCEPT !.pc = pc] /\ config' = config /\ discussion' = discussion
  BY DEF validateAnalysisConfig, Unchanged
<1>2. /\ DOMAIN analysis' = DOMAIN analysis /\ analysis'.pc = pc /\ analysis'.role = 1 /\ analysis'.results = <<>>
      /\ analysis'.pass = analysis.pass /\ analysis'.posted = 0 /\ analysis'.cache = analysis.cache
      /\ analysis'.context = analysis.context
  BY <1>1 DEF AnalysisInv, AnalysisOK, Progress
<1>3. AnalysisOK(analysis)' /\ ConfigOK' /\ DiscussionOK' /\ CacheOK(analysis)'
  BY <1>1, <1>2 DEF AnalysisInv, AnalysisOK, ConfigOK, DiscussionOK, CacheOK
<1>4. Len(analysis'.results) = 0 /\ Len(config.roles) \in Nat /\ (config.valid => 1 <= Len(config.roles))
  <2>1. config.roles \in Seq(RoleRecord) /\ (config.valid => config.roles # <<>>)
    BY DEF AnalysisInv, ConfigOK
  <2> QED
    BY <1>2, <2>1
<1>5. Progress(analysis)' /\ PostedAreComments'
  BY <1>1, <1>2, <1>4 DEF Progress, InARole, PostedAreComments
<1>6. config.valid => RolesDone' = 0
  BY <1>2 DEF RolesDone, InARole
<1>7. ResultsOf(analysis, RolesDone)'
  BY <1>1, <1>2, <1>4, <1>6 DEF ResultsOf
<1> QED
  BY <1>3, <1>5, <1>7 DEF AnalysisInv

LEMMA TriggerAnalysisInv == AnalysisInv /\ shouldTriggerRole => AnalysisInv'
<1> SUFFICES ASSUME AnalysisInv, shouldTriggerRole PROVE AnalysisInv'
  OBVIOUS
<1>0. /\ analysis.pc = "trigger" /\ analysis.pc \in InARole /\ UNCHANGED <<config, discussion>>
      /\ analysis.role \in 1 .. Len(config.roles) /\ config.roles \in Seq(RoleRecord) /\ analysis.results \in Seq(ResultRecord)
      /\ CurrentRole = config.roles[analysis.role]
  BY DEF shouldTriggerRole, Unchanged, InARole, AnalysisInv, AnalysisOK, Progress, ConfigOK, CurrentRole
<1>1. CurrentRole \in RoleRecord
  BY <1>0
<1>2. CASE CurrentRole.onCEL = "error" /\ Then(Append(analysis.results, [role |-> CurrentRole.name, answered |-> FALSE, context |-> NoContext]))
  <2> DEFINE x == [role |-> CurrentRole.name, answered |-> FALSE, context |-> NoContext]
  <2>1. x \in ResultRecord /\ x.role = CurrentRole.name /\ x.context.items = {}
    BY <1>1 DEF ResultRecord, RoleRecord, NoContext, ContextRecord
  <2> HIDE DEF x
  <2>2. ~Asks(analysis.role)
    BY <1>0, <1>2 DEF Asks
  <2>3. ResultOf(analysis, x, analysis.role)
    BY <1>0, <2>1, <2>2 DEF ResultOf
  <2>4. Then(Append(analysis.results, x)) /\ Append(analysis.results, x) \in Seq(ResultRecord)
    BY <1>0, <1>2, <2>1 DEF x
  <2> QED
    BY <1>0, <2>1, <2>3, <2>4, RoleIsDone
<1>3. CASE CurrentRole.onCEL = "false" /\ Then(analysis.results)
  BY <1>0, <1>3, RoleIsDone DEF Asks
<1>4. CASE CurrentRole.onCEL \in {"none", "true"} /\ analysis' = [analysis EXCEPT !.pc = "context"]
  <2>1. /\ DOMAIN analysis' = DOMAIN analysis /\ analysis'.pc = "context" /\ analysis'.role = analysis.role
        /\ analysis'.results = analysis.results /\ analysis'.pass = analysis.pass /\ analysis'.posted = analysis.posted
        /\ analysis'.cache = analysis.cache /\ analysis'.context = analysis.context
    BY <1>4 DEF AnalysisInv, AnalysisOK
  <2>2. AnalysisOK(analysis)' /\ CacheOK(analysis)'
    BY <2>1 DEF AnalysisInv, AnalysisOK, CacheOK
  <2>3. Progress(analysis)'
    BY <1>0, <1>4, <2>1 DEF AnalysisInv, Progress, InARole, Asks
  <2> QED
    BY <1>0, <2>1, <2>2, <2>3, RoleGoesOn DEF InARole
<1> QED
  BY <1>2, <1>3, <1>4 DEF shouldTriggerRole

LEMMA ContextAnalysisInv == AnalysisInv /\ RoleContext => AnalysisInv'
<1> SUFFICES ASSUME AnalysisInv, RoleContext PROVE AnalysisInv'
  OBVIOUS
<1> DEFINE key == config.roles[analysis.role].items
<1>0. /\ analysis.pc = "context" /\ analysis.pc \in InARole /\ UNCHANGED <<config, discussion>>
      /\ analysis.role \in 1 .. Len(config.roles) /\ config.roles \in Seq(RoleRecord)
  <2>1. analysis.pc = "context" /\ UNCHANGED <<config, discussion>>
    BY Zenon DEF RoleContext, Unchanged
  <2>2. analysis.pc \in InARole
    BY <2>1 DEF InARole
  <2> QED
    BY <2>1, <2>2 DEF AnalysisInv, AnalysisOK, Progress, ConfigOK
<1>role. config.roles[analysis.role] \in RoleRecord
  BY <1>0
<1>1. key \subseteq ContextItems
  BY <1>role DEF RoleRecord
<1>key. CurrentRole.items = key /\ getContextCacheKey(CurrentRole.items) = key
  BY DEF CurrentRole, getContextCacheKey
<1>step. IF key \in DOMAIN analysis.cache
      THEN analysis' = [analysis EXCEPT !.context = analysis.cache[key], !.pc = "client"]
      ELSE \E c \in BuildContext(key) :
              analysis' = [analysis EXCEPT !.context = c, !.pc = "client",
                              !.cache = [k \in DOMAIN analysis.cache \cup {key} |-> IF k = key THEN c ELSE analysis.cache[k]]]
  BY Zenon DEF RoleContext, CurrentRole, getContextCacheKey
<1> HIDE DEF key
<1>2. CASE key \in DOMAIN analysis.cache
  <2>0. analysis' = [analysis EXCEPT !.context = analysis.cache[key], !.pc = "client"]
    BY <1>2, <1>step
  <2>1. /\ DOMAIN analysis' = DOMAIN analysis /\ analysis'.pc = "client" /\ analysis'.role = analysis.role
        /\ analysis'.results = analysis.results /\ analysis'.pass = analysis.pass /\ analysis'.posted = analysis.posted
        /\ analysis'.cache = analysis.cache /\ analysis'.context = analysis.cache[key]
    BY <2>0 DEF AnalysisInv, AnalysisOK
  <2>2. AnalysisOK(analysis)' /\ CacheOK(analysis)'
    BY <1>2, <2>1 DEF AnalysisInv, AnalysisOK, CacheOK
  <2>3. Progress(analysis)'
    BY <1>0, <1>2, <2>1 DEF AnalysisInv, Progress, InARole, Asks, key
  <2> QED
    BY <1>0, <2>1, <2>2, <2>3, RoleGoesOn DEF InARole
<1>3. CASE key \notin DOMAIN analysis.cache
  <2>0. PICK c \in BuildContext(key) :
            analysis' = [analysis EXCEPT !.context = c, !.pc = "client",
                            !.cache = [k \in DOMAIN analysis.cache \cup {key} |-> IF k = key THEN c ELSE analysis.cache[k]]]
    BY <1>3, <1>step
  <2>1. c \in ContextRecord /\ c.items \subseteq key
    BY <1>1 DEF BuildContext, ContextRecord, AnalysisInv, DiscussionOK
  <2> DEFINE cache == [k \in DOMAIN analysis.cache \cup {key} |-> IF k = key THEN c ELSE analysis.cache[k]]
  <2>2. /\ DOMAIN cache = DOMAIN analysis.cache \cup {key} /\ cache[key] = c
        /\ \A k \in DOMAIN analysis.cache : cache[k] = analysis.cache[k]
    BY <1>3
  <2>3. analysis' = [analysis EXCEPT !.context = c, !.pc = "client", !.cache = cache]
    BY <2>0
  <2> HIDE DEF cache
  <2>4. /\ DOMAIN analysis' = DOMAIN analysis /\ analysis'.pc = "client" /\ analysis'.role = analysis.role
        /\ analysis'.results = analysis.results /\ analysis'.pass = analysis.pass /\ analysis'.posted = analysis.posted
        /\ analysis'.cache = cache /\ analysis'.context = c
    BY <2>3 DEF AnalysisInv, AnalysisOK
  <2>5. AnalysisOK(analysis)' /\ CacheOK(analysis)'
    BY <2>1, <2>2, <2>4 DEF AnalysisInv, AnalysisOK, CacheOK
  <2>6. Progress(analysis)'
    BY <1>0, <2>2, <2>4 DEF AnalysisInv, Progress, InARole, Asks, key
  <2> QED
    BY <1>0, <2>2, <2>4, <2>5, <2>6, RoleGoesOn DEF InARole
<1> QED
  BY <1>2, <1>3

LEMMA AskAnalysisInv == AnalysisInv /\ (NewClient \/ Analyze) => AnalysisInv'
<1> SUFFICES ASSUME AnalysisInv, NewClient \/ Analyze PROVE AnalysisInv'
  OBVIOUS
<1>0. analysis.pc \in {"client", "ask"} /\ analysis.pc \in InARole /\ UNCHANGED <<config, discussion>>
  BY DEF NewClient, Analyze, Unchanged, InARole
<1>1. CASE Answered(TRUE) \/ Answered(FALSE)
  BY <1>0, <1>1, AnsweredAnalysisInv
<1>2. CASE \E n : analysis' \in {[analysis EXCEPT !.pc = "ask", !.attempt = n], [analysis EXCEPT !.attempt = n]}
  <2>1. /\ DOMAIN analysis' = DOMAIN analysis /\ analysis'.pc \in {"ask", analysis.pc} /\ analysis'.role = analysis.role
        /\ analysis'.results = analysis.results /\ analysis'.pass = analysis.pass /\ analysis'.posted = analysis.posted
        /\ analysis'.cache = analysis.cache /\ analysis'.context = analysis.context
    BY <1>2 DEF AnalysisInv, AnalysisOK
  <2>2. AnalysisOK(analysis)' /\ CacheOK(analysis)'
    BY <2>1 DEF AnalysisInv, AnalysisOK, CacheOK
  <2>3. Progress(analysis)' /\ analysis'.pc \in InARole
    BY <1>0, <2>1 DEF AnalysisInv, Progress, InARole, Asks
  <2> QED
    BY <1>0, <2>1, <2>2, <2>3, RoleGoesOn
<1> QED
  BY <1>1, <1>2 DEF NewClient, Analyze

\* The heading a comment is posted under never is the marker it is looked for by.
LEMMA NothingIsMarked == ASSUME DiscussionOK, NEW role PROVE Marked(Marker(role)) = {}
<1> SUFFICES ASSUME NEW i \in DOMAIN discussion.comments, Marker(role) \in discussion.comments[i].words PROVE FALSE
  BY DEF Marked
<1>1. discussion.comments[i] \in CommentRecord
  BY DEF DiscussionOK
<1>2. PICK n \in RoleNames : discussion.comments[i].words = {<<"heading", n>>}
  BY <1>1 DEF CommentRecord
<1> QED
  BY <1>2 DEF Marker

LEMMA PostAnalysisInv == AnalysisInv /\ postPRComment => AnalysisInv'
<1> SUFFICES ASSUME AnalysisInv, postPRComment PROVE AnalysisInv'
  OBVIOUS
<1> DEFINE n == analysis.posted + 1
           result == analysis.results[n]
           pc == IF n = Len(analysis.results) THEN "done" ELSE "post"
<1>1. /\ analysis.pc = "post" /\ config' = config /\ analysis' = [analysis EXCEPT !.posted = n, !.pc = pc]
      /\ analysis.posted \in Nat /\ analysis.posted < Len(analysis.results) /\ analysis.results \in Seq(ResultRecord)
      /\ Len(analysis.results) \in Nat
  BY DEF postPRComment, AnalysisInv, AnalysisOK, Progress
<1>2. n \in 1 .. Len(analysis.results) /\ result \in ResultRecord /\ n \in Nat
  BY <1>1
<1> HIDE DEF n
<1>3. /\ DOMAIN analysis' = DOMAIN analysis /\ analysis'.pc = pc /\ analysis'.role = analysis.role
      /\ analysis'.results = analysis.results /\ analysis'.pass = analysis.pass /\ analysis'.posted = n
      /\ analysis'.cache = analysis.cache /\ analysis'.context = analysis.context
  BY <1>1 DEF AnalysisInv, AnalysisOK
<1>4. AnalysisOK(analysis)' /\ CacheOK(analysis)' /\ ConfigOK'
  BY <1>1, <1>2, <1>3 DEF AnalysisInv, AnalysisOK, CacheOK, ConfigOK
<1>5. Progress(analysis)'
  BY <1>1, <1>2, <1>3 DEF AnalysisInv, Progress, InARole
<1>6. RolesDone' = RolesDone
  BY <1>1, <1>3 DEF RolesDone, InARole
<1>7. ResultsOf(analysis, RolesDone)'
  BY <1>1, <1>3, <1>6 DEF AnalysisInv, ResultsOf, ResultOf, Asks
<1>8. /\ DiscussionOK' /\ discussion.refused \subseteq discussion'.refused
      /\ \A c \in 1 .. Len(discussion.comments) : c \in 1 .. Len(discussion'.comments) /\ discussion'.comments[c] = discussion.comments[c]
      /\ \/ ~Postable(result) \/ result.role \in discussion'.refused
         \/ \E c \in 1 .. Len(discussion'.comments) : discussion'.comments[c].role = result.role /\ discussion'.comments[c].pass = analysis.pass
  <2>0. discussion.comments \in Seq(CommentRecord) /\ DOMAIN discussion = {"version", "comments", "refused"} /\ DiscussionOK
    BY DEF AnalysisInv, DiscussionOK
  <2>1. CASE discussion' = [discussion EXCEPT !.comments = CreateComment(Body(result), Marker(result.role))]
    <3>1. Body(result) \in CommentRecord /\ Body(result).role = result.role /\ Body(result).pass = analysis.pass
      BY <1>2 DEF Body, CommentRecord, ResultRecord, AnalysisInv, AnalysisOK
    <3>2. CreateComment(Body(result), Marker(result.role)) = Append(discussion.comments, Body(result))
      BY <2>0, NothingIsMarked DEF CreateComment
    <3>3. /\ discussion'.comments = Append(discussion.comments, Body(result)) /\ DOMAIN discussion' = DOMAIN discussion
          /\ discussion'.version = discussion.version /\ discussion'.refused = discussion.refused
      BY <2>0, <2>1, <3>2
    <3> DEFINE b == Body(result)
    <3> HIDE DEF b
    <3>4. /\ b \in CommentRecord /\ b.role = result.role /\ b.pass = analysis.pass
          /\ discussion'.comments = Append(discussion.comments, b)
      BY <3>1, <3>3 DEF b
    <3>5. /\ discussion'.comments \in Seq(CommentRecord)
          /\ Len(discussion'.comments) = Len(discussion.comments) + 1 /\ Len(discussion.comments) \in Nat
          /\ discussion'.comments[Len(discussion.comments) + 1] = b
          /\ \A c \in 1 .. Len(discussion.comments) : discussion'.comments[c] = discussion.comments[c]
      BY <2>0, <3>4
    <3>6. Len(discussion.comments) + 1 \in 1 .. Len(discussion'.comments)
      BY <3>5
    <3>7. DiscussionOK'
      BY <2>0, <3>3, <3>5 DEF DiscussionOK
    <3> QED
      BY <3>3, <3>4, <3>5, <3>6, <3>7
  <2>2. CASE discussion' = [discussion EXCEPT !.refused = discussion.refused \cup {result.role}]
    <3>1. /\ discussion'.comments = discussion.comments /\ DOMAIN discussion' = DOMAIN discussion
          /\ discussion'.version = discussion.version /\ discussion'.refused = discussion.refused \cup {result.role}
      BY <2>0, <2>2
    <3> QED
      BY <2>0, <3>1 DEF DiscussionOK
  <2>3. CASE ~Postable(result) /\ UNCHANGED discussion
    BY <2>0, <2>3 DEF DiscussionOK
  <2> QED
    BY <2>1, <2>2, <2>3 DEF postPRComment, n
<1>9. ASSUME NEW i \in 1 .. Len(analysis.results), i <= n, Postable(analysis.results[i]), analysis.results[i].role \notin discussion'.refused
      PROVE  \E c \in 1 .. Len(discussion'.comments) : discussion'.comments[c].role = analysis.results[i].role /\ discussion'.comments[c].pass = analysis.pass
  <2>1. CASE i = n
    BY <1>8, <1>9, <2>1
  <2>2. CASE i # n
    <3>1. i <= analysis.posted /\ analysis.results[i].role \notin discussion.refused
      BY <1>1, <1>8, <1>9, <2>2 DEF n
    <3>2. Commented(i)
      BY <1>9, <3>1 DEF AnalysisInv, PostedAreComments
    <3> QED
      BY <1>8, <3>2 DEF Commented
  <2> QED
    BY <2>1, <2>2
<1>10. PostedAreComments'
  BY <1>1, <1>3, <1>9 DEF PostedAreComments, Postable, Commented
<1> QED
  BY <1>4, <1>5, <1>7, <1>8, <1>10 DEF AnalysisInv

LEMMA NextAnalysisInv == AnalysisInv /\ [AnalysisNext]_analysisVars => AnalysisInv'
<1> SUFFICES ASSUME AnalysisInv, [AnalysisNext]_analysisVars PROVE AnalysisInv'
  OBVIOUS
<1>1. CASE PassAgain
  <2>1. /\ analysis' = Pass(analysis.pass + 1) /\ config' = config /\ discussion' = [discussion EXCEPT !.refused = {}]
        /\ analysis.pass + 1 \in Nat /\ ConfigOK
    BY <1>1 DEF PassAgain, AnalysisInv, AnalysisOK
  <2>2. DiscussionOK'
    BY <2>1 DEF AnalysisInv, DiscussionOK
  <2> QED
    BY <2>1, <2>2, BeginsAnew
<1>2. CASE CommitInfoChanges \/ UNCHANGED analysisVars
  <2>1. /\ analysis' = analysis /\ config' = config /\ discussion'.comments = discussion.comments
        /\ discussion'.refused = discussion.refused /\ DiscussionOK'
    BY <1>2 DEF CommitInfoChanges, analysisVars, AnalysisInv, DiscussionOK
  <2>2. ConfigOK' /\ AnalysisOK(analysis)' /\ CacheOK(analysis)' /\ Progress(analysis)'
    BY <2>1 DEF AnalysisInv, ConfigOK, AnalysisOK, CacheOK, Progress, Asks
  <2>3. ResultsOf(analysis, RolesDone)'
    <3>1. RolesDone' = RolesDone
      BY <2>1 DEF RolesDone
    <3>2. \A x, m : (ResultOf(analysis, x, m)' <=> ResultOf(analysis, x, m)) /\ (Asks(m)' <=> Asks(m))
      BY <2>1 DEF ResultOf, Asks
    <3> QED
      BY <2>1, <3>1, <3>2 DEF AnalysisInv, ResultsOf
  <2>4. PostedAreComments'
    BY <2>1 DEF AnalysisInv, PostedAreComments, Commented, Postable
  <2> QED
    BY <2>1, <2>2, <2>3, <2>4 DEF AnalysisInv
<1> QED
  BY <1>1, <1>2, StartAnalysisInv, TriggerAnalysisInv, ContextAnalysisInv, AskAnalysisInv, PostAnalysisInv DEF AnalysisNext

\* The role of a name is the one at its place.
LEMMA RoleIsNamed ==
    ASSUME ConfigOK, NEW m \in 1 .. Len(config.roles)
    PROVE  RoleNamed(config.roles[m].name) = config.roles[m]
<1>1. config.roles[m] \in ToSet(config.roles) /\ ToSet(config.roles) = {config.roles[i] : i \in 1 .. Len(config.roles)}
  BY DEF ToSet, ConfigOK
<1>2. \A r \in ToSet(config.roles) : r.name = config.roles[m].name => r = config.roles[m]
  BY <1>1 DEF ConfigOK, NamedApart
<1> QED
  BY <1>1, <1>2 DEF RoleNamed

LEMMA NamesToAsk ==
    ASSUME ConfigOK
    PROVE  ToAsk = {config.roles[m].name : m \in {k \in 1 .. Len(config.roles) : Asks(k)}}
<1>1. ToSet(config.roles) = {config.roles[i] : i \in 1 .. Len(config.roles)}
  BY DEF ToSet, ConfigOK
<1> QED
  BY <1>1 DEF ToAsk, Asks

\* Every role that was to be asked has one result.
LEMMA OneResultEach ==
    ASSUME AnalysisInv, config.valid, RolesDone = Len(config.roles), NEW name \in ToAsk
    PROVE  Cardinality(Results(name)) = 1
<1>1. PICK m \in 1 .. Len(config.roles) : Asks(m) /\ name = config.roles[m].name
  BY NamesToAsk DEF AnalysisInv
<1>2. PICK i \in 1 .. Len(analysis.results) : analysis.results[i].role = name
  BY <1>1 DEF AnalysisInv, ResultsOf
<1>3. DOMAIN analysis.results = 1 .. Len(analysis.results)
  BY DEF AnalysisInv, AnalysisOK
<1>4. Results(name) = {i}
  BY <1>2, <1>3 DEF AnalysisInv, ResultsOf, Results
<1> QED
  BY <1>4, FS_Singleton

\* For roles of different names, each is asked once and about its own context, whatever
\* fails for another, and every answer becomes a comment of its pass unless it is refused.
THEOREM RolesAlwaysAskedApart == AnalysisSpec => []RolesAreAskedApart
<1>1. AnalysisInv => ContextOfTheRole
  <2> SUFFICES ASSUME AnalysisInv, NEW i \in DOMAIN analysis.results, NEW j \in DOMAIN analysis.results
               PROVE  LET r == analysis.results[i]
                          q == analysis.results[j] IN
                          /\ r.context.items \subseteq RoleNamed(r.role).items
                          /\ {r.role, q.role} \subseteq ToAsk /\ RoleNamed(r.role).items = RoleNamed(q.role).items
                                 => r.context = q.context
    BY DEF ContextOfTheRole
  <2>1. i \in 1 .. Len(analysis.results) /\ j \in 1 .. Len(analysis.results) /\ ConfigOK /\ Len(config.roles) \in Nat
    BY DEF AnalysisInv, AnalysisOK, ConfigOK
  <2>2. PICK m \in Nat : m \in 1 .. Len(config.roles) /\ ResultOf(analysis, analysis.results[i], m)
    BY <2>1 DEF AnalysisInv, ResultsOf
  <2>3. PICK k \in Nat : k \in 1 .. Len(config.roles) /\ ResultOf(analysis, analysis.results[j], k)
    BY <2>1 DEF AnalysisInv, ResultsOf
  <2>4. /\ RoleNamed(analysis.results[i].role) = config.roles[m] /\ RoleNamed(analysis.results[j].role) = config.roles[k]
        /\ analysis.results[i].role = config.roles[m].name /\ analysis.results[j].role = config.roles[k].name
    BY <2>1, <2>2, <2>3, RoleIsNamed DEF ResultOf
  <2>5. \A l \in 1 .. Len(config.roles) : config.roles[l].name \in ToAsk => Asks(l)
    <3> SUFFICES ASSUME NEW l \in 1 .. Len(config.roles), config.roles[l].name \in ToAsk PROVE Asks(l)
      OBVIOUS
    <3>1. PICK n \in 1 .. Len(config.roles) : Asks(n) /\ config.roles[n].name = config.roles[l].name
      BY <2>1, NamesToAsk
    <3>2. n = l
      BY <2>1, <3>1 DEF ConfigOK, NamedApart
    <3> QED
      BY <3>1, <3>2
  <2> QED
    BY <2>2, <2>3, <2>4, <2>5 DEF ResultOf
<1>2. AnalysisInv => EveryRoleIsAsked
  <2> SUFFICES ASSUME AnalysisInv PROVE EveryRoleIsAsked
    OBVIOUS
  <2>1. analysis.pc \in {"post", "done"} => RolesDone = Len(config.roles)
    BY DEF RolesDone, InARole
  <2>2. analysis.pc = "post" => config.valid
    <3>1. Len(<<>>) = 0 /\ analysis.posted \in Nat
      BY DEF AnalysisInv, AnalysisOK
    <3> QED
      BY <3>1 DEF AnalysisInv, Progress
  <2>3. analysis.pc \in {"post", "done"} /\ config.valid => \A n \in ToAsk : Cardinality(Results(n)) = 1
    BY <2>1, OneResultEach
  <2>4. ASSUME analysis.pc = "done", NEW i \in DOMAIN analysis.results, Postable(analysis.results[i]),
               analysis.results[i].role \notin discussion.refused
        PROVE  \E c \in ToSet(discussion.comments) : c.role = analysis.results[i].role /\ c.pass = analysis.pass
    <3>1. i \in 1 .. Len(analysis.results) /\ i <= analysis.posted
      BY <2>4 DEF AnalysisInv, AnalysisOK, Progress
    <3>2. PICK c \in 1 .. Len(discussion.comments) :
              discussion.comments[c].role = analysis.results[i].role /\ discussion.comments[c].pass = analysis.pass
      BY <2>4, <3>1 DEF AnalysisInv, PostedAreComments, Commented
    <3>3. discussion.comments[c] \in ToSet(discussion.comments)
      BY DEF ToSet, AnalysisInv, DiscussionOK
    <3> QED
      BY <3>2, <3>3
  <2> QED
    BY <2>2, <2>3, <2>4 DEF EveryRoleIsAsked
<1>3. AnalysisInv => RolesAreAskedApart
  BY <1>1, <1>2 DEF RolesAreAskedApart
<1> QED
  BY <1>3, InitAnalysisInv, NextAnalysisInv, PTL DEF AnalysisSpec
-----------------------------------------------------------------------------
(***************************************************************************)
(* HostPolicy: for any hosts and any requests at once, whatever the        *)
(* administrator does to the ConfigMap meanwhile.                          *)
(***************************************************************************)
CONSTANTS Hosts, TrustRequests

AllHosts == Hosts \cup {GitHub}
URLRecord == [host : Hosts, scheme : {"bare", "https", "http"}, extra : {"none", "path", "credentials"}]
PolicyRecord == [list : SUBSET AllHosts, learnt : SUBSET AllHosts, listOK : BOOLEAN, learntOK : BOOLEAN]
RequestRecord ==
    [kind : {"event", "repository", "provider"}, url : URLRecord, from : Nat, seen : Nat, tries : Nat,
     pc : {"start", "read", "update", "approved", "refused"}]

TrustInit ==
    \E p \in PolicyRecord, rs \in [TrustRequests -> {Request(kind, u) : kind \in {"event", "repository", "provider"}, u \in URLRecord}] :
        InitTrust(p, rs)
TrustSteps == TrustNext \/ \E list \in SUBSET Hosts : ConfigurePolicy(list)
TrustSpec == TrustInit /\ [][TrustSteps]_trustVars

TrustOK ==
    /\ DOMAIN trust = {"policies", "edits"}
    /\ trust.policies \in Seq(PolicyRecord) /\ Len(trust.policies) > 0 /\ trust.edits \in Nat
    /\ asking \in [TrustRequests -> RequestRecord]

\* A request that was begun began under a policy there is; one that is about to learn its
\* host has read a policy that says so.
ReadBeforeLearning ==
    \A q \in TrustRequests :
        /\ asking[q].pc # "start" => asking[q].from \in 1 .. Now
        /\ asking[q].pc = "update" =>
              /\ asking[q].kind = "event" /\ asking[q].seen \in asking[q].from .. Now
              /\ trust.policies[asking[q].seen].listOK
              /\ ToBeLearnt(trust.policies[asking[q].seen], HostOf(q))

TrustInv == TrustOK /\ ReadBeforeLearning /\ ApprovedByAPolicyOfItsTime /\ LearntHostsStay

\* The names of hosts: the canonical name of a canonical name is that name, and only
\* a public host has another.
LEMMA CanonicalNames ==
    \A h : /\ Canonical(Canonical(h)) = Canonical(h)
           /\ Canonical(h) \in {h, GitHub}
           /\ IsPublic(h) => Canonical(h) = GitHub
           /\ ~IsPublic(h) => Canonical(h) = h
<1>1. IsPublic(GitHub)
  BY DEF IsPublic, PublicHosts
<1> QED
  BY <1>1 DEF Canonical

\* What a policy that trusts a host says of it, and what it keeps when it is learnt.
LEMMA TrustedBy ==
    ASSUME NEW p, NEW h, Check(p, h)
    PROVE  /\ Canonical(h) \in IF ParseAllowlist(p.list) # {} THEN ParseAllowlist(p.list)
                               ELSE {GitHub} \cup (IF p.learntOK THEN ParseAllowlist(p.learnt) ELSE {})
           /\ Canonical(h) \in p.learnt \cup {GitHub} \/ Canonical(h) \in ParseAllowlist(p.list)
<1>1. p.list # {} <=> ParseAllowlist(p.list) # {}
  BY DEF ParseAllowlist
<1>2. CASE p.list # {}
  BY <1>1, <1>2 DEF Check, AdministratorConfigured
<1>3. CASE p.list = {}
  <2>1. IsPublic(h) \/ (p.learntOK /\ Canonical(h) \in ParseAllowlist(p.learnt))
    BY <1>3 DEF Check, AdministratorConfigured, AutoTrusted
  <2>2. IsPublic(h) => Canonical(h) = GitHub
    BY CanonicalNames
  <2>3. Canonical(h) \in ParseAllowlist(p.learnt) => Canonical(h) \in p.learnt \cup {GitHub}
    BY CanonicalNames DEF ParseAllowlist
  <2> QED
    BY <1>1, <1>3, <2>1, <2>2, <2>3
<1> QED
  BY <1>2, <1>3

LEMMA InitTrustInv == TrustInit => TrustInv
<1> SUFFICES ASSUME NEW p \in PolicyRecord,
                    NEW rs \in [TrustRequests -> {Request(kind, u) : kind \in {"event", "repository", "provider"}, u \in URLRecord}],
                    InitTrust(p, rs)
             PROVE  TrustInv
  BY DEF TrustInit
<1>1. asking = rs /\ trust = [policies |-> <<p>>, edits |-> 0]
  BY DEF InitTrust
<1>2. \A q \in TrustRequests : asking[q] \in RequestRecord /\ asking[q].pc = "start"
  BY <1>1 DEF Request, RequestRecord
<1>3. DOMAIN asking = TrustRequests
  BY <1>1
<1>4. TrustOK
  BY <1>1, <1>2 DEF TrustOK
<1> QED
  BY <1>2, <1>3, <1>4 DEF TrustInv, ReadBeforeLearning, ApprovedByAPolicyOfItsTime, LearntHostsStay, Approved

\* Another policy may come into force, and a request go on, under the one in force then.
Onward(o) ==
    /\ asking'[o].kind = asking[o].kind /\ asking'[o].url = asking[o].url
    /\ asking'[o].pc # "start" /\ asking'[o].from \in 1 .. Now'
    /\ asking'[o].pc = "update" =>
          /\ asking'[o].kind = "event" /\ asking'[o].seen \in asking'[o].from .. Now'
          /\ trust'.policies[asking'[o].seen].listOK
          /\ ToBeLearnt(trust'.policies[asking'[o].seen], HostOf(o))
    /\ asking'[o].pc = "approved" => InForce'.listOK /\ Check(InForce', HostOf(o))

\* Nothing that was approved is lost by that, provided that no learnt host is, unless
\* the annotation was damaged.
LEMMA TrustIsKept ==
    ASSUME TrustInv, TrustOK', Now' \in {Now, Now + 1}, \A v \in 1 .. Now : trust'.policies[v] = trust.policies[v],
           InForce.learntOK => \A h \in InForce.learnt : Canonical(h) \in InForce'.learnt \cup {GitHub},
           ~InForce.learntOK /\ Now' = Now => InForce' = InForce,
           \A o \in TrustRequests : asking'[o] = asking[o] \/ Onward(o)
    PROVE  TrustInv'
<1>1. /\ Now \in Nat /\ Now > 0 /\ Now' >= Now /\ Now' \in Nat
      /\ DOMAIN asking = TrustRequests /\ DOMAIN asking' = TrustRequests
      /\ InForce = trust.policies[Now] /\ InForce' = trust'.policies[Now']
  BY DEF TrustInv, TrustOK, Now, InForce
<1>2. \A o \in TrustRequests : HostOf(o)' = HostOf(o) /\ asking'[o].kind = asking[o].kind
  BY DEF HostOf, Onward
<1>3. \A o \in TrustRequests : asking[o].pc # "start" => asking[o].from \in 1 .. Now
  BY DEF TrustInv, ReadBeforeLearning
<1>4. ReadBeforeLearning'
  <2> SUFFICES ASSUME NEW o \in TrustRequests
               PROVE  /\ asking'[o].pc # "start" => asking'[o].from \in 1 .. Now'
                      /\ asking'[o].pc = "update" =>
                            /\ asking'[o].kind = "event" /\ asking'[o].seen \in asking'[o].from .. Now'
                            /\ trust'.policies[asking'[o].seen].listOK
                            /\ ToBeLearnt(trust'.policies[asking'[o].seen], HostOf(o))
    BY <1>2 DEF ReadBeforeLearning
  <2>1. CASE Onward(o)
    BY <2>1 DEF Onward
  <2>2. CASE asking'[o] = asking[o]
    <3>1. asking[o].pc = "update" =>
              /\ asking[o].kind = "event" /\ asking[o].seen \in asking[o].from .. Now
              /\ trust.policies[asking[o].seen].listOK
              /\ ToBeLearnt(trust.policies[asking[o].seen], HostOf(o))
      BY DEF TrustInv, ReadBeforeLearning
    <3> QED
      BY <1>1, <1>3, <2>2, <3>1
  <2> QED
    BY <2>1, <2>2
<1>5. ApprovedByAPolicyOfItsTime'
  <2> SUFFICES ASSUME NEW o \in TrustRequests, asking'[o].pc = "approved"
               PROVE  \E v \in asking'[o].from .. Now' :
                          LET p == trust'.policies[v]
                              listed == ParseAllowlist(p.list) IN
                              /\ p.listOK
                              /\ Canonical(HostOf(o)) \in IF listed # {} THEN listed
                                                          ELSE {GitHub} \cup (IF p.learntOK THEN ParseAllowlist(p.learnt) ELSE {})
    BY <1>1, <1>2 DEF ApprovedByAPolicyOfItsTime, Approved
  <2>1. CASE Onward(o)
    <3>1. Now' \in asking'[o].from .. Now' /\ InForce'.listOK /\ Check(InForce', HostOf(o))
      BY <1>1, <2>1 DEF Onward
    <3> QED
      BY <1>1, <3>1, TrustedBy
  <2>2. CASE asking'[o] = asking[o]
    <3>1. PICK v \in asking[o].from .. Now :
              LET p == trust.policies[v]
                  listed == ParseAllowlist(p.list) IN
                  /\ p.listOK
                  /\ Canonical(HostOf(o)) \in IF listed # {} THEN listed
                                              ELSE {GitHub} \cup (IF p.learntOK THEN ParseAllowlist(p.learnt) ELSE {})
      BY <1>1, <2>2 DEF TrustInv, ApprovedByAPolicyOfItsTime, Approved
    <3>2. v \in 1 .. Now /\ v \in asking'[o].from .. Now' /\ trust'.policies[v] = trust.policies[v]
      BY <1>1, <1>3, <2>2
    <3> QED
      BY <3>1, <3>2
  <2> QED
    BY <2>1, <2>2
<1>6. LearntHostsStay'
  <2> SUFFICES ASSUME NEW o \in TrustRequests, asking'[o].pc = "approved", asking'[o].kind = "event"
               PROVE  \/ Canonical(HostOf(o)) \in InForce'.learnt \cup {GitHub}
                      \/ \E v \in asking'[o].from .. Now' :
                            ~trust'.policies[v].learntOK \/ Canonical(HostOf(o)) \in ParseAllowlist(trust'.policies[v].list)
    BY <1>1, <1>2 DEF LearntHostsStay, Approved
  <2>1. CASE Onward(o)
    <3>1. Now' \in asking'[o].from .. Now' /\ Check(InForce', HostOf(o))
      BY <1>1, <2>1 DEF Onward
    <3> QED
      BY <1>1, <3>1, TrustedBy
  <2>2. CASE asking'[o] = asking[o]
    <3>1. asking[o].from \in 1 .. Now
      BY <1>3, <2>2
    <3>2. \/ Canonical(HostOf(o)) \in InForce.learnt \cup {GitHub}
          \/ \E v \in asking[o].from .. Now :
                ~trust.policies[v].learntOK \/ Canonical(HostOf(o)) \in ParseAllowlist(trust.policies[v].list)
      BY <1>1, <2>2 DEF TrustInv, LearntHostsStay, Approved
    <3>3. CASE \E v \in asking[o].from .. Now :
                  ~trust.policies[v].learntOK \/ Canonical(HostOf(o)) \in ParseAllowlist(trust.policies[v].list)
      <4>1. PICK v \in asking[o].from .. Now :
                ~trust.policies[v].learntOK \/ Canonical(HostOf(o)) \in ParseAllowlist(trust.policies[v].list)
        BY <3>3
      <4>2. v \in 1 .. Now /\ v \in asking'[o].from .. Now' /\ trust'.policies[v] = trust.policies[v]
        BY <1>1, <2>2, <3>1
      <4> QED
        BY <4>1, <4>2
    <3>4. CASE ~InForce.learntOK
      <4>1. Now \in 1 .. Now /\ Now \in asking'[o].from .. Now' /\ trust'.policies[Now] = InForce
        BY <1>1, <2>2, <3>1
      <4> QED
        BY <3>4, <4>1
    <3>5. CASE InForce.learntOK /\ Canonical(HostOf(o)) \in InForce.learnt \cup {GitHub}
      BY <3>5, CanonicalNames
    <3> QED
      BY <3>2, <3>3, <3>4, <3>5
  <2> QED
    BY <2>1, <2>2
<1> QED
  BY <1>4, <1>5, <1>6 DEF TrustInv

\* A request goes on; the policies stay.
LEMMA RequestGoesOn ==
    ASSUME TrustInv, NEW q \in TrustRequests, NEW r \in RequestRecord, asking' = [asking EXCEPT ![q] = r], trust' = trust,
           r.kind = asking[q].kind, r.url = asking[q].url, r.pc # "start", r.from \in 1 .. Now,
           r.pc = "update" =>
              /\ r.kind = "event" /\ r.seen \in r.from .. Now
              /\ trust.policies[r.seen].listOK /\ ToBeLearnt(trust.policies[r.seen], HostOf(q)),
           r.pc = "approved" => InForce.listOK /\ Check(InForce, HostOf(q))
    PROVE  TrustInv'
<1>1. /\ asking \in [TrustRequests -> RequestRecord] /\ asking'[q] = r /\ \A o \in TrustRequests : o # q => asking'[o] = asking[o]
  BY DEF TrustInv, TrustOK
<1>2. TrustOK' /\ Now' = Now /\ InForce' = InForce
  BY <1>1 DEF TrustInv, TrustOK, Now, InForce
<1>3. Onward(q)
  BY <1>1, <1>2 DEF Onward
<1>4. \A h \in InForce.learnt : Canonical(h) \in InForce.learnt \cup {GitHub}
  BY CanonicalNames
<1> QED
  BY <1>1, <1>2, <1>3, <1>4, TrustIsKept

\* What every new policy has: the ones before stay, and no host that was learnt is lost.
LEMMA PolicyIsAppended ==
    ASSUME TrustInv, NEW n \in PolicyRecord, trust'.policies = Append(trust.policies, n)
    PROVE  /\ trust'.policies \in Seq(PolicyRecord) /\ Len(trust'.policies) > 0
           /\ Now' = Now + 1 /\ InForce' = n /\ Now \in Nat /\ Now > 0
           /\ \A v \in 1 .. Now : trust'.policies[v] = trust.policies[v]
<1>1. trust.policies \in Seq(PolicyRecord) /\ Now \in Nat /\ Now > 0
  BY DEF TrustInv, TrustOK, Now
<1> QED
  BY <1>1 DEF Now, InForce

\* What is done about one request; learning may also add to the policy.
LEMMA RequestTrustInv == TrustInv /\ (\E q \in TrustRequests : Ask(q) \/ Trusted(q) \/ FirstUse(q)) => TrustInv'
<1> SUFFICES ASSUME TrustInv, NEW q \in TrustRequests, Ask(q) \/ Trusted(q) \/ FirstUse(q) PROVE TrustInv'
  OBVIOUS
<1>0. asking \in [TrustRequests -> RequestRecord] /\ asking[q] \in RequestRecord /\ Now \in Nat /\ Now > 0
  BY DEF TrustInv, TrustOK, Now
<1>1. CASE Ask(q)
  <2> DEFINE pc == IF Accepts(asking[q].kind, asking[q].url) THEN "read" ELSE "refused"
             r == [asking[q] EXCEPT !.from = Now, !.pc = pc]
  <2>1. asking' = [asking EXCEPT ![q] = r] /\ trust' = trust
    BY <1>0, <1>1 DEF Ask
  <2>2. pc \in {"read", "refused"}
    OBVIOUS
  <2> HIDE DEF pc
  <2>3. r \in RequestRecord /\ r.kind = asking[q].kind /\ r.url = asking[q].url /\ r.from = Now /\ r.pc = pc
    BY <1>0, <2>2 DEF RequestRecord
  <2>4. r.pc # "start" /\ r.pc # "update" /\ r.pc # "approved" /\ r.from \in 1 .. Now
    BY <1>0, <2>2, <2>3
  <2> HIDE DEF r
  <2> QED
    BY <2>1, <2>3, <2>4, RequestGoesOn
<1>2. ASSUME NEW pc \in {"approved", "refused"}, asking[q].pc = "read", RequestGoes(q, pc), trust' = trust,
             pc = "approved" => InForce.listOK /\ Check(InForce, HostOf(q))
      PROVE  TrustInv'
  <2> DEFINE r == [asking[q] EXCEPT !.pc = pc]
  <2>1. asking' = [asking EXCEPT ![q] = r]
    BY <1>0, <1>2 DEF RequestGoes
  <2>2. r \in RequestRecord /\ r.kind = asking[q].kind /\ r.url = asking[q].url /\ r.from = asking[q].from /\ r.pc = pc
    BY <1>0, <1>2 DEF RequestRecord
  <2>3. asking[q].from \in 1 .. Now
    BY <1>2 DEF TrustInv, ReadBeforeLearning
  <2> HIDE DEF r
  <2> QED
    BY <1>2, <2>1, <2>2, <2>3, RequestGoesOn
<1>3. CASE Trusted(q)
  <2>1. asking[q].pc = "read" /\ trust' = trust
    BY <1>3 DEF Trusted
  <2>2. \/ InForce.listOK /\ Check(InForce, HostOf(q)) /\ RequestGoes(q, "approved")
        \/ RequestGoes(q, "refused")
    BY <1>3 DEF Trusted
  <2> QED
    BY <1>2, <2>1, <2>2
<1>4. CASE FirstUse(q)
  <2> DEFINE pc == IF ~InForce.listOK THEN "refused"
                   ELSE IF ToBeLearnt(InForce, HostOf(q)) THEN "update"
                   ELSE IF Check(InForce, HostOf(q)) THEN "approved" ELSE "refused"
             r == [asking[q] EXCEPT !.seen = Now, !.pc = pc]
  <2>1. asking[q].pc = "read" /\ asking[q].kind = "event" /\ trust' = trust
    BY <1>4 DEF FirstUse
  <2>2. asking' = [asking EXCEPT ![q] = r] \/ RequestGoes(q, "refused")
    BY <1>0, <1>4 DEF FirstUse
  <2>3. /\ pc \in {"refused", "update", "approved"}
        /\ pc = "update" => InForce.listOK /\ ToBeLearnt(InForce, HostOf(q))
        /\ pc = "approved" => InForce.listOK /\ Check(InForce, HostOf(q))
    OBVIOUS
  <2> HIDE DEF pc
  <2>4. r \in RequestRecord /\ r.kind = asking[q].kind /\ r.url = asking[q].url /\ r.from = asking[q].from /\ r.pc = pc /\ r.seen = Now
    BY <1>0, <2>3 DEF RequestRecord
  <2> HIDE DEF r
  <2>5. asking[q].from \in 1 .. Now
    BY <2>1 DEF TrustInv, ReadBeforeLearning
  <2>6. Now \in asking[q].from .. Now /\ trust.policies[Now] = InForce
    BY <1>0, <2>5 DEF Now, InForce
  <2>7. CASE asking' = [asking EXCEPT ![q] = r]
    BY <2>1, <2>3, <2>4, <2>5, <2>6, <2>7, RequestGoesOn
  <2> QED
    BY <1>2, <2>1, <2>2, <2>7
<1> QED
  BY <1>1, <1>3, <1>4

\* What learning writes over the policy it read, when nobody has written since.
LEMMA LearntPolicy ==
    ASSUME NEW p \in PolicyRecord, NEW h \in AllHosts, p.listOK, ToBeLearnt(p, h)
    PROVE  /\ With(h, p) \in PolicyRecord /\ With(h, p).list = {} /\ p.list = {} /\ With(h, p).listOK
           /\ With(h, p).learnt = AutoTrusted(p) \cup {Canonical(h)} /\ With(h, p).learntOK
           /\ Canonical(h) = h /\ ~IsPrivate(h) /\ Check(With(h, p), h)
           /\ p.learntOK => \A l \in p.learnt : Canonical(l) \in With(h, p).learnt
           /\ [p EXCEPT !.learnt = With(h, p).learnt, !.learntOK = With(h, p).learntOK] = With(h, p)
<1>1. p.list = {} /\ ~IsPublic(h) /\ ~IsPrivate(h)
  BY DEF ToBeLearnt, AdministratorConfigured, Check
<1>2. Canonical(h) = h
  BY <1>1, CanonicalNames
<1>3. AutoTrusted(p) \subseteq AllHosts
  BY CanonicalNames DEF AutoTrusted, ParseAllowlist, PolicyRecord, AllHosts
<1> DEFINE learnt == AutoTrusted(p) \cup {Canonical(h)}
<1>4. learnt \in SUBSET AllHosts
  BY <1>2, <1>3
<1>5. p.learntOK => \A l \in p.learnt : Canonical(l) \in learnt
  BY DEF AutoTrusted, ParseAllowlist
<1>6. With(h, p) = [p EXCEPT !.learnt = learnt, !.learntOK = TRUE] /\ Canonical(h) \in learnt
  BY DEF With
<1> HIDE DEF learnt
<1>7. /\ With(h, p) \in PolicyRecord /\ With(h, p).list = {} /\ With(h, p).listOK
      /\ With(h, p).learnt = learnt /\ With(h, p).learntOK
      /\ [p EXCEPT !.learnt = With(h, p).learnt, !.learntOK = With(h, p).learntOK] = With(h, p)
  BY <1>1, <1>4, <1>6 DEF PolicyRecord
<1>8. Canonical(h) \in ParseAllowlist(With(h, p).learnt)
  BY <1>2, <1>6, <1>7 DEF ParseAllowlist
<1>9. Check(With(h, p), h)
  BY <1>7, <1>8 DEF Check, AdministratorConfigured, AutoTrusted
<1> QED
  BY <1>1, <1>2, <1>5, <1>7, <1>9 DEF learnt

\* The request and the policy of a learnt host: what it read is what it writes over.
LEMMA LearnsFromInForce ==
    ASSUME TrustInv, NEW q \in TrustRequests, asking[q].pc = "update", ~LearnConflicts(q)
    PROVE  /\ trust.policies[asking[q].seen] = InForce /\ InForce \in PolicyRecord /\ InForce.listOK
           /\ ToBeLearnt(InForce, HostOf(q)) /\ HostOf(q) \in AllHosts /\ asking[q].kind = "event"
           /\ asking[q].from \in 1 .. Now /\ asking[q].seen = Now
<1>1. asking[q] \in RequestRecord /\ trust.policies \in Seq(PolicyRecord) /\ Len(trust.policies) > 0
  BY DEF TrustInv, TrustOK
<1>2. asking[q].seen = Now /\ trust.policies[asking[q].seen] = InForce
  BY DEF LearnConflicts, Now, InForce
<1>3. InForce \in PolicyRecord
  BY <1>1 DEF InForce
<1>4. HostOf(q) \in AllHosts
  <2>1. asking[q].url.host \in Hosts
    BY <1>1 DEF RequestRecord, URLRecord
  <2> QED
    BY <2>1 DEF HostOf, AllHosts
<1> QED
  BY <1>2, <1>3, <1>4 DEF TrustInv, ReadBeforeLearning

LEMMA LearnTrustInv ==
    ASSUME TrustInv, NEW q \in TrustRequests, Learn(q)
    PROVE  TrustInv'
<1>0. /\ asking \in [TrustRequests -> RequestRecord] /\ asking[q] \in RequestRecord /\ asking[q].pc = "update"
      /\ asking[q].from \in 1 .. Now /\ DOMAIN trust = {"policies", "edits"} /\ trust.edits \in Nat
  BY DEF TrustInv, TrustOK, ReadBeforeLearning, Learn
<1>1. ASSUME NEW pc \in {"read", "refused"}, NEW tries \in Nat, trust' = trust,
             asking' = [asking EXCEPT ![q] = [asking[q] EXCEPT !.pc = pc, !.tries = tries]]
      PROVE  TrustInv'
  <2> DEFINE r == [asking[q] EXCEPT !.pc = pc, !.tries = tries]
  <2>1. r \in RequestRecord /\ r.kind = asking[q].kind /\ r.url = asking[q].url /\ r.from = asking[q].from /\ r.pc = pc
    BY <1>0, <1>1 DEF RequestRecord
  <2>2. asking' = [asking EXCEPT ![q] = r]
    BY <1>1
  <2> HIDE DEF r
  <2> QED
    BY <1>0, <1>1, <2>1, <2>2, RequestGoesOn
<1>2. CASE RequestGoes(q, "refused") /\ UNCHANGED trust
  <2>1. asking' = [asking EXCEPT ![q] = [asking[q] EXCEPT !.pc = "refused", !.tries = asking[q].tries]]
    BY <1>0, <1>2 DEF RequestGoes, RequestRecord
  <2>2. asking[q].tries \in Nat
    BY <1>0 DEF RequestRecord
  <2> QED
    BY <1>1, <1>2, <2>1, <2>2
<1>3. CASE /\ LearnConflicts(q)
           /\ asking' = IF asking[q].tries < MaxAttemptsToLearn
                        THEN [asking EXCEPT ![q].pc = "read", ![q].tries = @ + 1] ELSE [asking EXCEPT ![q].pc = "refused"]
           /\ UNCHANGED trust
  <2>1. asking[q].tries \in Nat /\ asking[q].tries + 1 \in Nat
    BY <1>0 DEF RequestRecord
  <2>2. CASE asking[q].tries < MaxAttemptsToLearn
    <3>1. asking' = [asking EXCEPT ![q] = [asking[q] EXCEPT !.pc = "read", !.tries = asking[q].tries + 1]]
      BY <1>0, <1>3, <2>2
    <3> QED
      BY <1>1, <1>3, <2>1, <3>1
  <2>3. CASE ~(asking[q].tries < MaxAttemptsToLearn)
    BY <1>2, <1>3, <2>3 DEF RequestGoes
  <2> QED
    BY <2>2, <2>3
<1>4. CASE /\ ~LearnConflicts(q)
           /\ trust' = [trust EXCEPT !.policies = Append(@, With(HostOf(q), trust.policies[asking[q].seen]))]
           /\ RequestGoes(q, "approved") \/ RequestGoes(q, "refused")
  <2> DEFINE n == With(HostOf(q), InForce)
             r == [asking[q] EXCEPT !.pc = "approved"]
             s == [asking[q] EXCEPT !.pc = "refused"]
  <2>1. /\ trust'.policies = Append(trust.policies, n) /\ trust'.edits = trust.edits /\ DOMAIN trust' = DOMAIN trust
        /\ n \in PolicyRecord /\ n.listOK /\ Check(n, HostOf(q))
        /\ InForce.learntOK => \A l \in InForce.learnt : Canonical(l) \in n.learnt
    BY <1>0, <1>4, LearnsFromInForce, LearntPolicy
  <2>2. asking' = [asking EXCEPT ![q] = r] \/ asking' = [asking EXCEPT ![q] = s]
    BY <1>0, <1>4 DEF RequestGoes
  <2>3. /\ r \in RequestRecord /\ r.kind = asking[q].kind /\ r.url = asking[q].url /\ r.from = asking[q].from /\ r.pc = "approved"
        /\ s \in RequestRecord /\ s.kind = asking[q].kind /\ s.url = asking[q].url /\ s.from = asking[q].from /\ s.pc = "refused"
    BY <1>0 DEF RequestRecord
  <2> HIDE DEF n, r, s
  <2>4. PICK x \in {r, s} : asking' = [asking EXCEPT ![q] = x]
    BY <2>2
  <2>5. /\ asking' \in [TrustRequests -> RequestRecord] /\ asking'[q] = x
        /\ \A o \in TrustRequests : o # q => asking'[o] = asking[o]
    BY <1>0, <2>3, <2>4
  <2>6. /\ trust'.policies \in Seq(PolicyRecord) /\ Len(trust'.policies) > 0
        /\ Now' = Now + 1 /\ InForce' = n /\ Now \in Nat
        /\ \A v \in 1 .. Now : trust'.policies[v] = trust.policies[v]
    BY <2>1, PolicyIsAppended
  <2>7. TrustOK'
    BY <1>0, <2>1, <2>5, <2>6 DEF TrustOK
  <2>8. Onward(q)
    BY <1>0, <2>1, <2>3, <2>5, <2>6 DEF Onward
  <2>9. InForce.learntOK => \A h \in InForce.learnt : Canonical(h) \in InForce'.learnt \cup {GitHub}
    BY <2>1, <2>6
  <2>10. Now' # Now
    BY <2>6
  <2> QED
    BY <2>5, <2>6, <2>7, <2>8, <2>9, <2>10, TrustIsKept
<1> QED
  BY <1>2, <1>3, <1>4 DEF Learn

LEMMA ConfigureTrustInv ==
    ASSUME TrustInv, NEW list \in SUBSET Hosts, ConfigurePolicy(list)
    PROVE  TrustInv'
<1>0. trust.policies \in Seq(PolicyRecord) /\ Len(trust.policies) > 0 /\ InForce \in PolicyRecord /\ trust.edits \in Nat
  BY DEF TrustInv, TrustOK, InForce
<1>1. PICK p \in {[InForce EXCEPT !.list = list, !.listOK = TRUE], [InForce EXCEPT !.listOK = FALSE], [InForce EXCEPT !.learntOK = FALSE]} :
          trust' = [policies |-> Append(trust.policies, p), edits |-> trust.edits + 1] /\ asking' = asking
  BY DEF ConfigurePolicy
<1>2. p \in PolicyRecord /\ p.learnt = InForce.learnt
  BY <1>0, <1>1 DEF PolicyRecord, AllHosts
<1>3. /\ trust'.policies = Append(trust.policies, p) /\ DOMAIN trust' = {"policies", "edits"} /\ trust'.edits \in Nat
  BY <1>0, <1>1
<1>4. /\ trust'.policies \in Seq(PolicyRecord) /\ Len(trust'.policies) > 0
      /\ Now' = Now + 1 /\ InForce' = p /\ Now \in Nat
      /\ \A v \in 1 .. Now : trust'.policies[v] = trust.policies[v]
  BY <1>2, <1>3, PolicyIsAppended
<1>5. TrustOK'
  BY <1>1, <1>3, <1>4 DEF TrustInv, TrustOK
<1>6. \A h \in InForce.learnt : Canonical(h) \in InForce'.learnt \cup {GitHub}
  BY <1>2, <1>4, CanonicalNames
<1>7. Now' # Now
  BY <1>4
<1> QED
  BY <1>1, <1>4, <1>5, <1>6, <1>7, TrustIsKept

LEMMA NextTrustInv == TrustInv /\ [TrustSteps]_trustVars => TrustInv'
<1> SUFFICES ASSUME TrustInv, [TrustSteps]_trustVars PROVE TrustInv'
  OBVIOUS
<1>1. CASE UNCHANGED trustVars
  BY <1>1 DEF trustVars, TrustInv, TrustOK, ReadBeforeLearning, ApprovedByAPolicyOfItsTime, LearntHostsStay, Approved, Now, InForce, HostOf
<1>2. CASE TrustNext
  <2>1. DOMAIN asking = TrustRequests
    BY DEF TrustInv, TrustOK
  <2> QED
    BY <1>2, <2>1, RequestTrustInv, LearnTrustInv DEF TrustNext
<1>3. CASE \E list \in SUBSET Hosts : ConfigurePolicy(list)
  BY <1>3, ConfigureTrustInv
<1> QED
  BY <1>1, <1>2, <1>3 DEF TrustSteps

\* Only learning writes a policy without the administrator.
LEMMA OnlyLearningWrites ==
    ASSUME TrustInv, [TrustSteps]_trustVars, Now' > Now, trust'.edits = trust.edits
    PROVE  \E q \in TrustRequests : Learn(q)
<1>1. trust' # trust /\ DOMAIN asking = TrustRequests /\ trust.edits \in Nat
  BY DEF Now, TrustInv, TrustOK
<1>2. ~UNCHANGED trustVars
  BY <1>1 DEF trustVars
<1>3. \A q \in TrustRequests : ~(Ask(q) \/ Trusted(q) \/ FirstUse(q))
  BY <1>1 DEF Ask, Trusted, FirstUse
<1>4. ASSUME NEW list \in SUBSET Hosts PROVE ~ConfigurePolicy(list)
  <2> SUFFICES ASSUME ConfigurePolicy(list) PROVE FALSE
    OBVIOUS
  <2>1. trust'.edits = trust.edits + 1
    BY DEF ConfigurePolicy
  <2> QED
    BY <1>1, <2>1
<1> QED
  BY <1>1, <1>2, <1>3, <1>4 DEF TrustSteps, TrustNext

\* For any hosts, requests and policies: credentials go to a host only when a policy in
\* force while the request was handled trusted it, no host that was learnt is lost to
\* another that is learnt at the same time, and the controller writes nothing but the
\* annotation, while the administrator has no list.
THEOREM HostsAlwaysTrustedByPolicy == TrustSpec => HostsAreTrustedByPolicy
<1>1. TrustInv => ApprovedByAPolicyOfItsTime /\ LearntHostsStay
  BY DEF TrustInv
<1>2. TrustInv /\ [TrustSteps]_trustVars =>
          [Now' > Now /\ trust'.edits = trust.edits =>
              LET p == InForce
                  n == InForce' IN
                  /\ p.list = {} /\ p.listOK /\ [p EXCEPT !.learnt = n.learnt, !.learntOK = n.learntOK] = n
                  /\ AutoTrusted(p) \subseteq n.learnt
                  /\ \A h \in n.learnt \ AutoTrusted(p) :
                        ~IsPrivate(h) /\ \E q \in DOMAIN asking : asking[q].kind = "event" /\ HostOf(q) = h]_trustVars
  <2> SUFFICES ASSUME TrustInv, [TrustSteps]_trustVars, Now' > Now, trust'.edits = trust.edits
               PROVE  /\ InForce.list = {} /\ InForce.listOK
                      /\ [InForce EXCEPT !.learnt = InForce'.learnt, !.learntOK = InForce'.learntOK] = InForce'
                      /\ AutoTrusted(InForce) \subseteq InForce'.learnt
                      /\ \A h \in InForce'.learnt \ AutoTrusted(InForce) :
                            ~IsPrivate(h) /\ \E q \in DOMAIN asking : asking[q].kind = "event" /\ HostOf(q) = h
    BY Zenon
  <2>1. PICK q \in TrustRequests : Learn(q)
    BY OnlyLearningWrites
  <2>2. trust' # trust /\ q \in DOMAIN asking
    BY DEF Now, TrustInv, TrustOK
  <2>3. /\ asking[q].pc = "update" /\ ~LearnConflicts(q)
        /\ trust' = [trust EXCEPT !.policies = Append(@, With(HostOf(q), trust.policies[asking[q].seen]))]
    BY <2>1, <2>2 DEF Learn
  <2>4. /\ trust.policies[asking[q].seen] = InForce /\ InForce \in PolicyRecord /\ InForce.listOK
        /\ ToBeLearnt(InForce, HostOf(q)) /\ HostOf(q) \in AllHosts /\ asking[q].kind = "event"
    BY <2>3, LearnsFromInForce
  <2> DEFINE n == With(HostOf(q), InForce)
  <2>5. trust'.policies = Append(trust.policies, n)
    BY <2>3, <2>4 DEF TrustInv, TrustOK
  <2>6. /\ n \in PolicyRecord /\ InForce.list = {} /\ n.learnt = AutoTrusted(InForce) \cup {Canonical(HostOf(q))}
        /\ Canonical(HostOf(q)) = HostOf(q) /\ ~IsPrivate(HostOf(q))
        /\ [InForce EXCEPT !.learnt = n.learnt, !.learntOK = n.learntOK] = n
    BY <2>4, LearntPolicy
  <2> HIDE DEF n
  <2>7. InForce' = n
    BY <2>5, <2>6, PolicyIsAppended
  <2> QED
    BY <2>2, <2>4, <2>6, <2>7
<1> QED
  BY <1>1, <1>2, InitTrustInv, NextTrustInv, PTL DEF TrustSpec, HostsAreTrustedByPolicy, TheListIsTheAdministrators
-----------------------------------------------------------------------------
(***************************************************************************)
(* Cleanup: for any runs of any definitions, as long as every definition   *)
(* has a run that has yet to end.                                          *)
(***************************************************************************)
CONSTANT DefinitionNames

RunRecord ==
    [def : DefinitionNames, keep : Nat \cup {NoAnnotation}, at : Nat, completed : BOOLEAN, exists : BOOLEAN, secret : BOOLEAN]
LimitsRecord == [default : Nat, upper : Nat]

\* Runs that have yet to end, and runs that nobody cleans up after any more.
FirstRuns == {r \in RunRecord : r.exists /\ r.secret /\ (r.completed <=> r.at # NotEnded)}
CleanupInit ==
    \E rs \in Seq(FirstRuns), limits \in LimitsRecord :
        /\ InitCleanup(rs, limits)
        /\ \A r \in DOMAIN rs : \E q \in DOMAIN rs : rs[q].def = rs[r].def /\ rs[q].at = NotEnded
CleanupSpec == CleanupInit /\ [][CleanupNext]_cleanupVars

CleanupOK ==
    /\ ended \in Seq(RunRecord)
    /\ cleaner \in [DOMAIN ended -> [pc : {"idle", "limit", "list", "delete", "secret", "done"}, todo : Seq(DOMAIN ended), keep : Nat]]
    /\ deletion \in [failed : BOOLEAN, beaten : BOOLEAN, clock : Nat \ {0}, limits : LimitsRecord]

\* How far a run and its worker have come.
StagesOK ==
    \A r \in DOMAIN ended :
        /\ ended[r].completed => ended[r].at # NotEnded
        /\ cleaner[r].pc = "idle" <=> ~ended[r].completed
        /\ ~ended[r].exists => ended[r].completed
        /\ ended[r].exists => ended[r].secret
        /\ cleaner[r].pc \in {"list", "delete", "secret"} => cleaner[r].keep = MaxKeep(r)
        /\ cleaner[r].pc \in {"idle", "limit", "list"} => cleaner[r].todo = <<>>
        /\ cleaner[r].pc \in {"delete", "secret"} => cleaner[r].todo # <<>>
        /\ cleaner[r].pc = "secret" => ~ended[Head(cleaner[r].todo)].exists
        /\ cleaner[r].pc = "done" /\ ~deletion.failed /\ ~deletion.beaten => cleaner[r].todo = <<>>

\* The runs of a definition are enough without this one.
NewerThan(q) == {r \in Runs(ended[q].def) \ {q} : ended[r].completed /\ ended[r].at >= ended[q].at}
TooOld(c, q) ==
    ended[q].completed /\ ended[q].def = ended[c].def /\ Cardinality(NewerThan(q)) >= cleaner[c].keep
TodoIsOld ==
    \A c \in DOMAIN ended : cleaner[c].pc \in {"delete", "secret"} =>
        \A i \in 1 .. Len(cleaner[c].todo) : TooOld(c, cleaner[c].todo[i])

\* The secret of a deleted run is about to be deleted, or a call failed.
SecretsFollow ==
    \A q \in DOMAIN ended : ~ended[q].exists /\ ended[q].secret /\ ~deletion.failed =>
        \E c \in DOMAIN ended : cleaner[c].pc = "secret" /\ Head(cleaner[c].todo) = q

\* A run has yet to be completed or listed, or a worker has listed all but the runs to keep.
Left(c) == {q \in Listed(c) : \A i \in 1 .. Len(cleaner[c].todo) : cleaner[c].todo[i] # q}
Yet(c) == ~ended[c].completed \/ cleaner[c].pc \in {"limit", "list"}
Promised(d) == \E c \in DOMAIN ended : ended[c].def = d /\ (Yet(c) \/ Cardinality(Left(c)) <= MaxKeep(c))
PromisesOK ==
    ~deletion.failed /\ ~deletion.beaten =>
        \A r \in DOMAIN ended : (\A q \in Runs(ended[r].def) : Limited(q)) => Promised(ended[r].def)

CleanupInv == CleanupOK /\ StagesOK /\ TodoIsOld /\ SecretsFollow /\ PromisesOK

\* A set of numbers with a bound has a largest one.
LEMMA LargestOne ==
    ASSUME NEW S \in SUBSET Nat, S # {}, NEW b \in Nat, \A y \in S : y <= b
    PROVE  Max(S) \in S /\ \A y \in S : Max(S) >= y
<1> DEFINE U == {u \in Nat : \A y \in S : y <= u}
<1>1. PICK u \in U : \A v \in U : u <= v
  <2>1. b \in U /\ U \in SUBSET Nat
    OBVIOUS
  <2> QED
    BY <2>1, SmallestOne
<1>2. u \in S
  <2> SUFFICES ASSUME u \notin S PROVE FALSE
    OBVIOUS
  <2>1. u \in Nat /\ \A y \in S : y \in Nat /\ y < u
    BY <1>1
  <2>2. u - 1 \in Nat /\ \A y \in S : y <= u - 1
    <3>1. PICK z \in S : TRUE
      OBVIOUS
    <3>2. z \in Nat /\ z < u
      BY <2>1, <3>1
    <3> QED
      BY <2>1, <3>2
  <2>3. u - 1 \in U
    BY <2>2
  <2> QED
    BY <1>1, <2>1, <2>3
<1>3. \A y \in S : u >= y
  BY <1>1
<1> QED
  BY <1>2, <1>3 DEF Max

\* So have the values at the numbers up to one.
LEMMA ValuesAreBounded ==
    ASSUME NEW n \in Nat, NEW f \in [1 .. n -> Nat]
    PROVE  \E b \in Nat : \A i \in 1 .. n : f[i] <= b
<1> DEFINE B(k) == \E b \in Nat : \A i \in 1 .. k : f[i] <= b
           T == {k \in 0 .. n : ~B(k)}
<1>1. B(0)
  <2>1. 0 \in Nat /\ \A i \in 1 .. 0 : f[i] <= 0
    OBVIOUS
  <2> QED
    BY <2>1
<1>2. ASSUME NEW k \in 1 .. n, B(k - 1) PROVE B(k)
  <2>1. PICK b \in Nat : \A i \in 1 .. k - 1 : f[i] <= b
    BY <1>2
  <2>2. f[k] \in Nat /\ b + f[k] \in Nat
    OBVIOUS
  <2>3. ASSUME NEW i \in 1 .. k PROVE f[i] <= b + f[k]
    <3>1. i \in 1 .. n /\ (i = k \/ i \in 1 .. k - 1)
      OBVIOUS
    <3>2. f[i] \in Nat
      BY <3>1
    <3> QED
      BY <2>1, <2>2, <3>1, <3>2
  <2> QED
    BY <2>2, <2>3
<1> HIDE DEF B
<1>3. SUFFICES ASSUME ~B(n) PROVE FALSE
  BY DEF B
<1>4. T \in SUBSET Nat /\ n \in T
  BY <1>3
<1>5. PICK k \in T : \A j \in T : k <= j
  BY <1>4, SmallestOne
<1>6. k \in 0 .. n /\ ~B(k)
  BY <1>5
<1>7. k \in 1 .. n
  BY <1>1, <1>6
<1>8. k - 1 \in 0 .. n /\ k - 1 \notin T
  BY <1>5, <1>6, <1>7
<1>9. B(k - 1)
  BY <1>8
<1> QED
  BY <1>2, <1>6, <1>7, <1>9

\* The largest number of runs one of them asks to keep.
LEMMA KeepIsANumber ==
    ASSUME CleanupOK, NEW r \in DOMAIN ended
    PROVE  MaxKeep(r) \in Nat
<1>1. ended[r] \in RunRecord /\ deletion.limits \in LimitsRecord
  BY DEF CleanupOK
<1> QED
  BY <1>1 DEF MaxKeep, RunRecord, LimitsRecord, NoAnnotation

LEMMA LargestKeep ==
    ASSUME CleanupOK, NEW d, NEW c \in Runs(d)
    PROVE  MaxKeep(c) <= Max({MaxKeep(q) : q \in Runs(d)}) /\ Max({MaxKeep(q) : q \in Runs(d)}) \in Nat
<1> DEFINE n == Len(ended)
           f == [i \in 1 .. n |-> MaxKeep(i)]
           S == {MaxKeep(q) : q \in Runs(d)}
<1>1. n \in Nat /\ DOMAIN ended = 1 .. n /\ Runs(d) \subseteq 1 .. n
  BY DEF CleanupOK, Runs
<1>2. f \in [1 .. n -> Nat]
  BY <1>1, KeepIsANumber
<1>3. PICK b \in Nat : \A i \in 1 .. n : f[i] <= b
  BY <1>1, <1>2, ValuesAreBounded
<1>4. S \in SUBSET Nat /\ MaxKeep(c) \in S /\ \A y \in S : y <= b
  BY <1>1, <1>3, KeepIsANumber
<1> HIDE DEF S
<1>5. Max(S) \in S /\ \A y \in S : Max(S) >= y
  BY <1>4, LargestOne
<1> QED
  BY <1>4, <1>5 DEF S

LEMMA InitCleanupInv == CleanupInit => CleanupInv
<1> SUFFICES ASSUME NEW rs \in Seq(FirstRuns), NEW limits \in LimitsRecord, InitCleanup(rs, limits),
                    \A r \in DOMAIN rs : \E q \in DOMAIN rs : rs[q].def = rs[r].def /\ rs[q].at = NotEnded
             PROVE  CleanupInv
  BY DEF CleanupInit
<1>1. DOMAIN rs = 1 .. Len(rs) /\ Len(rs) \in Nat /\ \A r \in 1 .. Len(rs) : rs[r] \in FirstRuns
  OBVIOUS
<1>2. /\ ended = rs /\ DOMAIN rs = 1 .. Len(rs) /\ Len(rs) \in Nat
      /\ \A r \in 1 .. Len(rs) : rs[r] \in RunRecord /\ rs[r].exists /\ rs[r].secret /\ (rs[r].completed <=> rs[r].at # NotEnded)
  BY <1>1 DEF InitCleanup, FirstRuns
<1>3. rs \in Seq(RunRecord)
  BY <1>2
<1>4. /\ DOMAIN cleaner = DOMAIN ended
      /\ \A r \in DOMAIN ended : cleaner[r] = [pc |-> IF rs[r].completed THEN "done" ELSE "idle", todo |-> <<>>, keep |-> 0]
      /\ cleaner = [r \in DOMAIN ended |-> cleaner[r]]
  BY <1>2 DEF InitCleanup
<1>5. \A r \in DOMAIN ended : cleaner[r] \in [pc : {"idle", "limit", "list", "delete", "secret", "done"}, todo : Seq(DOMAIN ended), keep : Nat]
  <2> SUFFICES ASSUME NEW r \in DOMAIN ended
               PROVE  cleaner[r] \in [pc : {"idle", "limit", "list", "delete", "secret", "done"}, todo : Seq(DOMAIN ended), keep : Nat]
    OBVIOUS
  <2> DEFINE pc == IF rs[r].completed THEN "done" ELSE "idle"
  <2>1. cleaner[r] = [pc |-> pc, todo |-> <<>>, keep |-> 0]
    BY <1>4
  <2>2. pc \in {"done", "idle"} /\ <<>> \in Seq(DOMAIN ended)
    OBVIOUS
  <2> HIDE DEF pc
  <2> QED
    BY <2>1, <2>2
<1>6. Max({1} \cup {rs[r].at : r \in DOMAIN rs}) \in Nat \ {0}
  <2> DEFINE S == {1} \cup {rs[r].at : r \in DOMAIN rs}
             f == [i \in 1 .. Len(rs) |-> rs[i].at]
  <2>1. f \in [1 .. Len(rs) -> Nat]
    BY <1>2 DEF RunRecord
  <2>2. PICK b \in Nat : \A i \in 1 .. Len(rs) : f[i] <= b
    BY <1>2, <2>1, ValuesAreBounded
  <2>3. S \in SUBSET Nat /\ 1 \in S /\ b + 1 \in Nat
    BY <1>2 DEF RunRecord
  <2>4. \A y \in S : y <= b + 1
    BY <1>2, <2>2 DEF RunRecord
  <2> HIDE DEF S
  <2>5. Max(S) \in S /\ Max(S) >= 1
    BY <2>3, <2>4, LargestOne
  <2> QED
    BY <2>3, <2>5 DEF S
<1>7. deletion \in [failed : BOOLEAN, beaten : BOOLEAN, clock : Nat \ {0}, limits : LimitsRecord]
  BY <1>6 DEF InitCleanup
<1>8. CleanupOK
  BY <1>2, <1>3, <1>4, <1>5, <1>7 DEF CleanupOK
<1>9. StagesOK /\ TodoIsOld /\ SecretsFollow
  BY <1>2, <1>4 DEF StagesOK, TodoIsOld, SecretsFollow
<1>10. PromisesOK
  BY <1>2 DEF PromisesOK, Promised, Yet, InitCleanup
<1> QED
  BY <1>8, <1>9, <1>10 DEF CleanupInv

\* What no step takes back of a run.
Grown ==
    /\ DOMAIN ended' = DOMAIN ended /\ deletion'.limits = deletion.limits
    /\ \A q \in DOMAIN ended :
          /\ ended'[q].def = ended[q].def /\ ended'[q].keep = ended[q].keep
          /\ ended[q].completed => ended'[q].completed
          /\ ended[q].at # NotEnded => ended'[q].at = ended[q].at
          /\ ended'[q].exists => ended[q].exists
    /\ deletion.failed => deletion'.failed
    /\ deletion.beaten => deletion'.beaten

LEMMA GrownKeeps ==
    ASSUME CleanupInv, Grown
    PROVE  /\ \A r \in DOMAIN ended : MaxKeep(r)' = MaxKeep(r) /\ Limited(r)' = Limited(r)
           /\ \A d : Runs(d) \subseteq Runs(d)'
           /\ \A q \in DOMAIN ended : ended[q].completed => NewerThan(q) \subseteq NewerThan(q)'
<1>1. \A d : Runs(d) \subseteq Runs(d)'
  BY DEF Grown, Runs
<1>2. \A q \in DOMAIN ended : ended[q].completed => ended[q].at # NotEnded
  BY DEF CleanupInv, StagesOK
<1>3. \A r \in DOMAIN ended : MaxKeep(r)' = MaxKeep(r) /\ Limited(r)' = Limited(r)
  BY DEF Grown, MaxKeep, Limited
<1>4. ASSUME NEW q \in DOMAIN ended, ended[q].completed, NEW r \in NewerThan(q) PROVE r \in NewerThan(q)'
  <2>1. r \in DOMAIN ended /\ r \in Runs(ended[q].def) /\ r # q /\ ended[r].completed /\ ended[r].at >= ended[q].at
    BY DEF NewerThan, Runs
  <2>2. ended'[r].at = ended[r].at /\ ended'[q].at = ended[q].at /\ ended'[r].completed /\ ended'[q].def = ended[q].def
    BY <1>2, <1>4, <2>1 DEF Grown
  <2> QED
    BY <1>1, <2>1, <2>2 DEF NewerThan
<1> QED
  BY <1>1, <1>3, <1>4

LEMMA FinitelyManyNewer ==
    ASSUME CleanupOK, NEW S, S \subseteq DOMAIN ended
    PROVE  IsFiniteSet(S) /\ Cardinality(S) \in Nat
<1>1. DOMAIN ended = 1 .. Len(ended) /\ Len(ended) \in Nat
  BY DEF CleanupOK
<1>2. IsFiniteSet(1 .. Len(ended))
  BY <1>1, FS_Interval
<1>3. IsFiniteSet(S)
  BY <1>1, <1>2, FS_Subset
<1> QED
  BY <1>3, FS_CardinalityType

\* A run that is too old stays so.
LEMMA TooOldStays ==
    ASSUME CleanupInv, CleanupOK', Grown, NEW c \in DOMAIN ended, NEW q \in DOMAIN ended, TooOld(c, q), cleaner'[c].keep = cleaner[c].keep
    PROVE  TooOld(c, q)'
<1>1. NewerThan(q) \subseteq NewerThan(q)'
  BY GrownKeeps DEF TooOld
<1>2. NewerThan(q)' \subseteq DOMAIN ended' /\ NewerThan(q) \subseteq DOMAIN ended
  BY DEF NewerThan, Runs
<1>3. IsFiniteSet(NewerThan(q)') /\ Cardinality(NewerThan(q)') \in Nat
  <2>1. DOMAIN ended' = 1 .. Len(ended') /\ Len(ended') \in Nat
    BY DEF CleanupOK
  <2>2. IsFiniteSet(1 .. Len(ended'))
    BY <2>1, FS_Interval
  <2>3. IsFiniteSet(NewerThan(q)')
    BY <1>2, <2>1, <2>2, FS_Subset
  <2> QED
    BY <2>3, FS_CardinalityType
<1>4. Cardinality(NewerThan(q)) \in Nat
  BY <1>2, FinitelyManyNewer DEF CleanupInv
<1>5. Cardinality(NewerThan(q)) <= Cardinality(NewerThan(q)')
  BY <1>1, <1>3, FS_Subset
<1>6. cleaner[c].keep \in Nat
  BY DEF CleanupInv, CleanupOK
<1> QED
  BY <1>3, <1>4, <1>5, <1>6 DEF TooOld, Grown

\* A promise is kept by a step that lists no more than it takes off, and does not
\* give up; a run that is completed is one more to list.
LEMMA PromiseStays ==
    ASSUME CleanupInv, CleanupOK', Grown, StagesOK',
           \/ \E r \in DOMAIN ended : ~ended[r].completed /\ ended'[r].completed /\ cleaner'[r].pc = "limit"
                                      /\ \A q \in DOMAIN ended : q # r => ended'[q] = ended[q] /\ cleaner'[q] = cleaner[q]
           \/ \A c \in DOMAIN ended : ended'[c].completed = ended[c].completed,
           ~deletion'.failed /\ ~deletion'.beaten => \A c \in DOMAIN ended : Limited(c) =>
               \/ Yet(c)'
               \/ ~Yet(c) /\ \A q \in Listed(c) : (\E i \in 1 .. Len(cleaner[c].todo) : cleaner[c].todo[i] = q) =>
                     ~ended'[q].exists \/ \E i \in 1 .. Len(cleaner'[c].todo) : cleaner'[c].todo[i] = q
               \/ Cardinality(Left(c)') <= MaxKeep(c)
    PROVE  PromisesOK'
<1> SUFFICES ASSUME ~deletion'.failed, ~deletion'.beaten, NEW r \in DOMAIN ended, \A q \in Runs(ended[r].def)' : Limited(q)'
             PROVE  Promised(ended[r].def)'
  BY DEF PromisesOK, Grown
<1> DEFINE d == ended[r].def
<1>0. /\ ~deletion.failed /\ ~deletion.beaten /\ \A q \in Runs(d) : q \in DOMAIN ended /\ Limited(q)
      /\ \A c \in DOMAIN ended : MaxKeep(c)' = MaxKeep(c) /\ ended'[c].def = ended[c].def /\ MaxKeep(c) \in Nat
      /\ DOMAIN ended' = DOMAIN ended
  BY GrownKeeps, KeepIsANumber DEF Grown, Runs, CleanupInv
<1>1. Promised(d)
  BY <1>0 DEF CleanupInv, PromisesOK
<1>2. PICK c \in DOMAIN ended : ended[c].def = d /\ (Yet(c) \/ Cardinality(Left(c)) <= MaxKeep(c))
  BY <1>1 DEF Promised
<1> HIDE DEF d
<1>3. CASE Yet(c)'
  BY <1>0, <1>2, <1>3 DEF Promised, d
<1>4. CASE Cardinality(Left(c)') <= MaxKeep(c)
  <2>1. MaxKeep(c)' = MaxKeep(c)
    BY <1>0
  <2> QED
    BY <1>0, <1>2, <1>4, <2>1 DEF Promised, d
<1>5. CASE ~Yet(c)'
  <2>1. Limited(c)
    <3>1. ended'[c].completed /\ ended'[c].at # NotEnded
      BY <1>0, <1>5 DEF Yet, StagesOK
    <3>2. c \in Runs(ended[r].def)'
      BY <1>0, <1>2, <3>1 DEF Runs, d
    <3> QED
      BY <3>2, GrownKeeps
  <2>2. CASE ~Yet(c) /\ \A q \in Listed(c) : (\E i \in 1 .. Len(cleaner[c].todo) : cleaner[c].todo[i] = q) =>
                     ~ended'[q].exists \/ \E i \in 1 .. Len(cleaner'[c].todo) : cleaner'[c].todo[i] = q
    <3>1. CASE \A q \in DOMAIN ended : ended'[q].completed = ended[q].completed
      <4>1. Left(c)' \subseteq Left(c)
        <5> SUFFICES ASSUME NEW q \in Left(c)' PROVE q \in Left(c)
          OBVIOUS
        <5>1. q \in DOMAIN ended /\ q \in Listed(c)' /\ ended'[q].exists /\ \A i \in 1 .. Len(cleaner'[c].todo) : cleaner'[c].todo[i] # q
          BY <1>0 DEF Left, Listed
        <5>2. q \in Listed(c)
          BY <1>0, <3>1, <5>1 DEF Listed, Grown
        <5> QED
          BY <2>2, <5>1, <5>2 DEF Left
      <4>2. Left(c) \subseteq DOMAIN ended /\ Left(c)' \subseteq DOMAIN ended
        BY <1>0 DEF Left, Listed
      <4>3. IsFiniteSet(Left(c)) /\ Cardinality(Left(c)) \in Nat /\ Cardinality(Left(c)') \in Nat
        BY <4>2, FinitelyManyNewer DEF CleanupInv
      <4>4. Cardinality(Left(c)') <= Cardinality(Left(c))
        BY <4>1, <4>3, FS_Subset
      <4>5. Cardinality(Left(c)) <= MaxKeep(c)
        BY <1>2, <2>2
      <4> QED
        BY <1>0, <1>4, <4>3, <4>4, <4>5
    <3>2. CASE \E x \in DOMAIN ended : ~ended[x].completed /\ ended'[x].completed /\ cleaner'[x].pc = "limit"
                                      /\ \A q \in DOMAIN ended : q # x => ended'[q] = ended[q] /\ cleaner'[q] = cleaner[q]
      <4>1. PICK x \in DOMAIN ended : /\ ~ended[x].completed /\ ended'[x].completed /\ cleaner'[x].pc = "limit"
                                      /\ \A q \in DOMAIN ended : q # x => ended'[q] = ended[q] /\ cleaner'[q] = cleaner[q]
        BY <3>2
      <4>2. CASE ended[x].def = d
        BY <1>0, <4>1, <4>2 DEF Promised, Yet, d
      <4>3. CASE ended[x].def # d
        <5>1. c # x /\ cleaner'[c] = cleaner[c]
          BY <1>2, <4>1, <4>3
        <5>2. Listed(c)' = Listed(c)
          BY <1>0, <1>2, <4>1, <4>3 DEF Listed
        <5>3. Left(c)' = Left(c)
          BY <5>1, <5>2 DEF Left
        <5> QED
          BY <1>2, <1>4, <2>2, <5>3
      <4> QED
        BY <4>2, <4>3
    <3> QED
      BY <3>1, <3>2
  <2> QED
    BY <1>4, <1>5, <2>1, <2>2
<1> QED
  BY <1>3, <1>5

\* The runs of a worker's list stay too old, whichever of them are left.
LEMMA TodoStaysOld ==
    ASSUME CleanupInv, CleanupOK', Grown,
           \A c \in DOMAIN ended : cleaner'[c].pc \in {"delete", "secret"} =>
               /\ cleaner[c].pc \in {"delete", "secret"} /\ cleaner'[c].keep = cleaner[c].keep
               /\ \A i \in 1 .. Len(cleaner'[c].todo) : \E j \in 1 .. Len(cleaner[c].todo) : cleaner[c].todo[j] = cleaner'[c].todo[i]
    PROVE  TodoIsOld'
<1>0. DOMAIN ended' = DOMAIN ended
  BY DEF Grown
<1>1. ASSUME NEW c \in DOMAIN ended, NEW x, cleaner'[c].pc \in {"delete", "secret"}, NEW i \in 1 .. Len(cleaner'[c].todo), x = cleaner'[c].todo[i]
      PROVE  TooOld(c, x)'
  <2>1. PICK j \in 1 .. Len(cleaner[c].todo) : cleaner[c].todo[j] = cleaner'[c].todo[i]
    BY <1>1
  <2>2. TooOld(c, x)
    BY <1>1, <2>1 DEF CleanupInv, TodoIsOld
  <2>3. cleaner[c].todo \in Seq(DOMAIN ended)
    BY DEF CleanupInv, CleanupOK
  <2>4. x \in DOMAIN ended /\ cleaner'[c].keep = cleaner[c].keep
    BY <1>1, <2>1, <2>3
  <2> QED
    BY <2>2, <2>4, TooOldStays
<1>2. \A c \in DOMAIN ended : cleaner'[c].pc \in {"delete", "secret"} =>
        \A i \in 1 .. Len(cleaner'[c].todo) : \A x : x = cleaner'[c].todo[i] => TooOld(c, x)'
  BY <1>1
<1>3. \A c \in DOMAIN ended : cleaner'[c].pc \in {"delete", "secret"} =>
        \A i \in 1 .. Len(cleaner'[c].todo) : TooOld(c, cleaner[c].todo[i])'
  BY <1>2 DEF TooOld, NewerThan
<1> QED
  BY <1>0, <1>3 DEF TodoIsOld

LEMMA RunEndsInv ==
    ASSUME CleanupInv, NEW r \in DOMAIN ended, RunEnds(r)
    PROVE  CleanupInv'
<1>0. ended \in Seq(RunRecord) /\ ended[r] \in RunRecord /\ deletion.clock \in Nat \ {0} /\ DOMAIN ended = 1 .. Len(ended)
  BY DEF CleanupInv, CleanupOK
<1>1. PICK t \in {deletion.clock, deletion.clock + 1} :
          ended' = [ended EXCEPT ![r].at = t] /\ deletion' = [deletion EXCEPT !.clock = t] /\ cleaner' = cleaner
  BY DEF RunEnds
<1>2. t \in Nat \ {0} /\ ended[r].at = NotEnded
  BY <1>0, <1>1 DEF RunEnds
<1>3. /\ DOMAIN ended' = DOMAIN ended /\ ended'[r] = [ended[r] EXCEPT !.at = t] /\ \A q \in DOMAIN ended : q # r => ended'[q] = ended[q]
  BY <1>0, <1>1
<1> DEFINE e == [ended[r] EXCEPT !.at = t]
<1>4. /\ e \in RunRecord /\ e.def = ended[r].def /\ e.keep = ended[r].keep /\ e.completed = ended[r].completed
      /\ e.exists = ended[r].exists /\ e.secret = ended[r].secret /\ e.at = t
  BY <1>0, <1>2 DEF RunRecord
<1>5. ended' = [ended EXCEPT ![r] = e]
  BY <1>0, <1>1
<1> HIDE DEF e
<1>6. ended' \in Seq(RunRecord)
  BY <1>0, <1>4, <1>5
<1>7. /\ deletion' \in [failed : BOOLEAN, beaten : BOOLEAN, clock : Nat \ {0}, limits : LimitsRecord]
      /\ deletion'.failed = deletion.failed /\ deletion'.beaten = deletion.beaten /\ deletion'.limits = deletion.limits
  BY <1>1, <1>2 DEF CleanupInv, CleanupOK
<1>8. CleanupOK'
  BY <1>1, <1>3, <1>6, <1>7 DEF CleanupInv, CleanupOK
<1>9. ended'[r] = e
  BY <1>0, <1>5
<1>10. /\ \A q \in DOMAIN ended : /\ ended'[q].def = ended[q].def /\ ended'[q].keep = ended[q].keep /\ ended'[q].completed = ended[q].completed
                                  /\ ended'[q].exists = ended[q].exists /\ ended'[q].secret = ended[q].secret
                                  /\ ended[q].at # NotEnded => ended'[q].at = ended[q].at
  BY <1>2, <1>3, <1>4, <1>9
<1>11. Grown
  BY <1>3, <1>7, <1>10 DEF Grown
<1>12. \A q \in DOMAIN ended : ended[q].completed => ended'[q].at # NotEnded
  BY <1>10 DEF CleanupInv, StagesOK
<1>13. \A q \in DOMAIN ended : cleaner[q].pc \in {"delete", "secret"} => Head(cleaner[q].todo) \in DOMAIN ended
  BY DEF CleanupInv, CleanupOK, StagesOK
<1>14. StagesOK'
  BY <1>1, <1>3, <1>7, <1>10, <1>11, <1>12, <1>13, GrownKeeps DEF CleanupInv, StagesOK
<1>15. TodoIsOld'
  BY <1>1, <1>8, <1>11, TodoStaysOld
<1>16. SecretsFollow'
  BY <1>1, <1>3, <1>7, <1>10 DEF CleanupInv, SecretsFollow
<1>17. PromisesOK'
  BY <1>1, <1>8, <1>10, <1>11, <1>14, PromiseStays DEF Yet
<1> QED
  BY <1>8, <1>14, <1>15, <1>16, <1>17 DEF CleanupInv

LEMMA MarkCompletedInv ==
    ASSUME CleanupInv, NEW r \in DOMAIN ended, MarkCompleted(r)
    PROVE  CleanupInv'
<1>0. /\ ended \in Seq(RunRecord) /\ ended[r] \in RunRecord /\ DOMAIN ended = 1 .. Len(ended) /\ DOMAIN cleaner = DOMAIN ended
      /\ ended[r].at # NotEnded /\ ~ended[r].completed /\ deletion' = deletion /\ cleaner[r].pc = "idle" /\ ended[r].exists
      /\ ended' = [ended EXCEPT ![r].completed = TRUE] /\ cleaner' = [cleaner EXCEPT ![r].pc = "limit"]
  <2>1. /\ ended[r].at # NotEnded /\ ~ended[r].completed /\ deletion' = deletion
        /\ ended' = [ended EXCEPT ![r].completed = TRUE] /\ cleaner' = [cleaner EXCEPT ![r].pc = "limit"]
    BY DEF MarkCompleted
  <2>2. ended \in Seq(RunRecord) /\ ended[r] \in RunRecord /\ DOMAIN ended = 1 .. Len(ended) /\ DOMAIN cleaner = DOMAIN ended
    BY DEF CleanupInv, CleanupOK
  <2>3. cleaner[r].pc = "idle" /\ ended[r].exists
    BY <2>1 DEF CleanupInv, StagesOK
  <2> QED
    BY <2>1, <2>2, <2>3
<1> DEFINE e == [ended[r] EXCEPT !.completed = TRUE]
           w == [cleaner[r] EXCEPT !.pc = "limit"]
<1>1. /\ e \in RunRecord /\ e.def = ended[r].def /\ e.keep = ended[r].keep /\ e.completed
      /\ e.exists = ended[r].exists /\ e.secret = ended[r].secret /\ e.at = ended[r].at
  BY <1>0 DEF RunRecord
<1>2. /\ w \in [pc : {"idle", "limit", "list", "delete", "secret", "done"}, todo : Seq(DOMAIN ended), keep : Nat] /\ w.pc = "limit"
  BY DEF CleanupInv, CleanupOK
<1>3. ended' = [ended EXCEPT ![r] = e] /\ cleaner' = [cleaner EXCEPT ![r] = w]
  BY <1>0
<1> HIDE DEF e, w
<1>4. /\ DOMAIN ended' = DOMAIN ended /\ ended'[r] = e /\ cleaner'[r] = w
      /\ \A q \in DOMAIN ended : q # r => ended'[q] = ended[q] /\ cleaner'[q] = cleaner[q]
  BY <1>0, <1>3
<1>5. CleanupOK'
  <2> DEFINE W == [pc : {"idle", "limit", "list", "delete", "secret", "done"}, todo : Seq(DOMAIN ended), keep : Nat]
  <2>1. ended' \in Seq(RunRecord)
    <3>1. e \in RunRecord
      BY <1>1
    <3>2. ended \in Seq(RunRecord) /\ DOMAIN ended = 1 .. Len(ended)
      BY <1>0
    <3>3. ended' = [ended EXCEPT ![r] = e]
      BY <1>3
    <3> QED
      BY <3>1, <3>2, <3>3
  <2>2. cleaner \in [DOMAIN ended -> W] /\ w \in W
    BY <1>2 DEF CleanupInv, CleanupOK
  <2> HIDE DEF W
  <2>3. cleaner' \in [DOMAIN ended -> W]
    BY <1>3, <2>2
  <2> QED
    BY <1>0, <1>4, <2>1, <2>3 DEF CleanupInv, CleanupOK, W
<1>6. \A q \in DOMAIN ended : /\ ended'[q].def = ended[q].def /\ ended'[q].keep = ended[q].keep /\ (ended[q].completed => ended'[q].completed)
                              /\ ended'[q].exists = ended[q].exists /\ ended'[q].secret = ended[q].secret /\ ended'[q].at = ended[q].at
  BY <1>1, <1>4
<1>7. Grown
  BY <1>0, <1>4, <1>6 DEF Grown
<1>8. \A q \in DOMAIN ended : cleaner[q].pc \in {"delete", "secret"} => Head(cleaner[q].todo) \in DOMAIN ended
  BY DEF CleanupInv, CleanupOK, StagesOK
<1>9. StagesOK'
  <2> SUFFICES ASSUME NEW q \in DOMAIN ended
               PROVE  (/\ ended[q].completed => ended[q].at # NotEnded
                       /\ cleaner[q].pc = "idle" <=> ~ended[q].completed
                       /\ ~ended[q].exists => ended[q].completed
                       /\ ended[q].exists => ended[q].secret
                       /\ cleaner[q].pc \in {"list", "delete", "secret"} => cleaner[q].keep = MaxKeep(q)
                       /\ cleaner[q].pc \in {"idle", "limit", "list"} => cleaner[q].todo = <<>>
                       /\ cleaner[q].pc \in {"delete", "secret"} => cleaner[q].todo # <<>>
                       /\ cleaner[q].pc = "secret" => ~ended[Head(cleaner[q].todo)].exists
                       /\ cleaner[q].pc = "done" /\ ~deletion.failed /\ ~deletion.beaten => cleaner[q].todo = <<>>)'
    BY <1>4 DEF StagesOK
  <2>1. CASE q = r
    BY <1>0, <1>1, <1>2, <1>4, <2>1 DEF CleanupInv, StagesOK
  <2>2. CASE q # r
    <3>1. cleaner'[q] = cleaner[q] /\ ended'[q] = ended[q] /\ MaxKeep(q)' = MaxKeep(q)
      BY <1>4, <1>7, <2>2, GrownKeeps
    <3>2. cleaner[q].pc = "secret" => ended'[Head(cleaner[q].todo)].exists = ended[Head(cleaner[q].todo)].exists
      BY <1>6, <1>8
    <3> QED
      BY <1>0, <3>1, <3>2 DEF CleanupInv, StagesOK
  <2> QED
    BY <2>1, <2>2
<1>10. TodoIsOld'
  <2>1. \A c \in DOMAIN ended : cleaner'[c].pc \in {"delete", "secret"} => cleaner'[c] = cleaner[c]
    BY <1>2, <1>4
  <2> QED
    BY <1>5, <1>7, <2>1, TodoStaysOld
<1>11. SecretsFollow'
  <2>1. \A c \in DOMAIN ended : cleaner[c].pc = "secret" => cleaner'[c] = cleaner[c]
    BY <1>0, <1>4
  <2> QED
    BY <1>0, <1>4, <1>6, <2>1 DEF CleanupInv, SecretsFollow
<1>12. PromisesOK'
  <2>1. \A c \in DOMAIN ended : Yet(c)' \/ (~Yet(c) /\ cleaner'[c] = cleaner[c])
    BY <1>2, <1>4 DEF Yet
  <2>2. ~ended[r].completed /\ ended'[r].completed /\ cleaner'[r].pc = "limit"
    BY <1>0, <1>1, <1>2, <1>4
  <2> QED
    BY <1>4, <1>5, <1>7, <1>9, <2>1, <2>2, PromiseStays
<1> QED
  BY <1>5, <1>9, <1>10, <1>11, <1>12 DEF CleanupInv

\* A step of the worker of one run, which takes no run back.
WorkerStep(r, p, s, k) ==
    /\ cleaner' = [cleaner EXCEPT ![r] = [pc |-> p, todo |-> s, keep |-> k]]
    /\ p \in {"idle", "limit", "list", "delete", "secret", "done"} /\ s \in Seq(DOMAIN ended) /\ k \in Nat
    /\ ended' \in Seq(RunRecord) /\ DOMAIN ended' = DOMAIN ended
    /\ \A q \in DOMAIN ended :
          /\ ended'[q].def = ended[q].def /\ ended'[q].keep = ended[q].keep
          /\ ended'[q].completed = ended[q].completed /\ ended'[q].at = ended[q].at
          /\ ended'[q].exists => ended[q].exists /\ ended'[q].secret
          /\ ~ended'[q].exists => ended[q].completed
    /\ deletion' \in [failed : BOOLEAN, beaten : BOOLEAN, clock : Nat \ {0}, limits : LimitsRecord]
    /\ deletion'.limits = deletion.limits
    /\ deletion.failed => deletion'.failed
    /\ deletion.beaten => deletion'.beaten
    /\ p # "idle" /\ ended[r].completed
    /\ p \in {"list", "delete", "secret"} => k = MaxKeep(r)
    /\ p \in {"idle", "limit", "list"} => s = <<>>
    /\ p \in {"delete", "secret"} => s # <<>>
    /\ p = "secret" => ~ended'[Head(s)].exists
    /\ p = "done" /\ ~deletion'.failed /\ ~deletion'.beaten => s = <<>>

LEMMA WorkerStepKeeps ==
    ASSUME CleanupInv, NEW r \in DOMAIN ended, NEW p, NEW s, NEW k, WorkerStep(r, p, s, k)
    PROVE  /\ CleanupOK' /\ Grown /\ StagesOK'
           /\ cleaner'[r].pc = p /\ cleaner'[r].todo = s /\ cleaner'[r].keep = k
           /\ \A q \in DOMAIN ended : q # r => cleaner'[q] = cleaner[q]
<1> DEFINE w == [pc |-> p, todo |-> s, keep |-> k]
           W == [pc : {"idle", "limit", "list", "delete", "secret", "done"}, todo : Seq(DOMAIN ended), keep : Nat]
<1>1. /\ cleaner \in [DOMAIN ended -> W] /\ w \in W /\ cleaner' = [cleaner EXCEPT ![r] = w]
      /\ w.pc = p /\ w.todo = s /\ w.keep = k
  BY DEF WorkerStep, CleanupInv, CleanupOK
<1> HIDE DEF w
<1>2. cleaner' \in [DOMAIN ended -> W] /\ cleaner'[r] = w /\ \A q \in DOMAIN ended : q # r => cleaner'[q] = cleaner[q]
  <2> HIDE DEF W
  <2> QED
    BY <1>1
<1>3. CleanupOK'
  <2> HIDE DEF W
  <2> SUFFICES cleaner' \in [DOMAIN ended -> W] /\ ended' \in Seq(RunRecord) /\ DOMAIN ended' = DOMAIN ended
               /\ deletion' \in [failed : BOOLEAN, beaten : BOOLEAN, clock : Nat \ {0}, limits : LimitsRecord]
    BY DEF CleanupOK, W
  <2> QED
    BY <1>2 DEF WorkerStep
<1>4. Grown
  BY DEF WorkerStep, Grown
<1>5. \A q \in DOMAIN ended : cleaner[q].pc \in {"delete", "secret"} => Head(cleaner[q].todo) \in DOMAIN ended
  BY DEF CleanupInv, CleanupOK, StagesOK
<1>6. StagesOK'
  <2> SUFFICES ASSUME NEW q \in DOMAIN ended
               PROVE  (/\ ended[q].completed => ended[q].at # NotEnded
                       /\ cleaner[q].pc = "idle" <=> ~ended[q].completed
                       /\ ~ended[q].exists => ended[q].completed
                       /\ ended[q].exists => ended[q].secret
                       /\ cleaner[q].pc \in {"list", "delete", "secret"} => cleaner[q].keep = MaxKeep(q)
                       /\ cleaner[q].pc \in {"idle", "limit", "list"} => cleaner[q].todo = <<>>
                       /\ cleaner[q].pc \in {"delete", "secret"} => cleaner[q].todo # <<>>
                       /\ cleaner[q].pc = "secret" => ~ended[Head(cleaner[q].todo)].exists
                       /\ cleaner[q].pc = "done" /\ ~deletion.failed /\ ~deletion.beaten => cleaner[q].todo = <<>>)'
    BY <1>4 DEF StagesOK, Grown
  <2>1. /\ ended'[q].completed => ended'[q].at # NotEnded
        /\ ~ended'[q].exists => ended'[q].completed
        /\ ended'[q].exists => ended'[q].secret
    BY DEF WorkerStep, CleanupInv, StagesOK
  <2>2. MaxKeep(q)' = MaxKeep(q) /\ MaxKeep(r)' = MaxKeep(r)
    BY <1>4, GrownKeeps
  <2>3. CASE q = r
    BY <1>1, <1>2, <2>1, <2>2, <2>3 DEF WorkerStep
  <2>4. CASE q # r
    <3>1. cleaner'[q] = cleaner[q]
      BY <1>2, <2>4
    <3>2. cleaner[q].pc = "secret" => ~ended'[Head(cleaner[q].todo)].exists
      BY <1>5 DEF WorkerStep, CleanupInv, StagesOK
    <3>3. /\ cleaner[q].pc = "idle" <=> ~ended[q].completed
          /\ cleaner[q].pc \in {"list", "delete", "secret"} => cleaner[q].keep = MaxKeep(q)
          /\ cleaner[q].pc \in {"idle", "limit", "list"} => cleaner[q].todo = <<>>
          /\ cleaner[q].pc \in {"delete", "secret"} => cleaner[q].todo # <<>>
          /\ cleaner[q].pc = "done" /\ ~deletion.failed /\ ~deletion.beaten => cleaner[q].todo = <<>>
      BY DEF CleanupInv, StagesOK
    <3>4. ended'[q].completed = ended[q].completed /\ (deletion.failed => deletion'.failed) /\ (deletion.beaten => deletion'.beaten)
      BY DEF WorkerStep
    <3> QED
      BY <2>1, <2>2, <3>1, <3>2, <3>3, <3>4
  <2> QED
    BY <2>3, <2>4
<1> QED
  BY <1>1, <1>2, <1>3, <1>4, <1>6

\* How the steps write the worker of a run.
LEMMA KeepAndStage ==
    ASSUME CleanupOK, NEW r \in DOMAIN ended, NEW p, NEW k
    PROVE  [cleaner EXCEPT ![r].keep = k, ![r].pc = p] = [cleaner EXCEPT ![r] = [pc |-> p, todo |-> cleaner[r].todo, keep |-> k]]
<1> DEFINE x == cleaner[r]
<1>1. /\ DOMAIN cleaner = DOMAIN ended /\ r \in DOMAIN cleaner
      /\ x \in [pc : {"idle", "limit", "list", "delete", "secret", "done"}, todo : Seq(DOMAIN ended), keep : Nat]
  BY DEF CleanupOK
<1>2. [cleaner EXCEPT ![r].keep = k, ![r].pc = p] = [cleaner EXCEPT ![r] = [[x EXCEPT !.keep = k] EXCEPT !.pc = p]]
  BY <1>1
<1> HIDE DEF x
<1>3. PICK a, b, c : x = [pc |-> a, todo |-> b, keep |-> c]
  BY <1>1
<1>4. [x EXCEPT !.keep = k] = [pc |-> a, todo |-> b, keep |-> k]
  BY <1>3
<1>5. [[pc |-> a, todo |-> b, keep |-> k] EXCEPT !.pc = p] = [pc |-> p, todo |-> x.todo, keep |-> k]
  BY <1>3
<1> QED
  BY <1>2, <1>4, <1>5 DEF x

\* A worker given other runs to delete and another stage, in one value.
Directed(r, s, p) == [cleaner EXCEPT ![r].todo = s, ![r].pc = p]

LEMMA TodoAndStage ==
    ASSUME CleanupOK, NEW r \in DOMAIN ended, NEW p, NEW s
    PROVE  Directed(r, s, p) = [cleaner EXCEPT ![r] = [pc |-> p, todo |-> s, keep |-> cleaner[r].keep]]
<1> DEFINE x == cleaner[r]
<1>1. /\ DOMAIN cleaner = DOMAIN ended /\ r \in DOMAIN cleaner
      /\ x \in [pc : {"idle", "limit", "list", "delete", "secret", "done"}, todo : Seq(DOMAIN ended), keep : Nat]
  BY DEF CleanupOK
<1>2. [cleaner EXCEPT ![r].todo = s, ![r].pc = p] = [cleaner EXCEPT ![r] = [[x EXCEPT !.todo = s] EXCEPT !.pc = p]]
  BY <1>1
<1> HIDE DEF x
<1>3. PICK a, b, c : x = [pc |-> a, todo |-> b, keep |-> c]
  BY <1>1
<1>4. [x EXCEPT !.todo = s] = [pc |-> a, todo |-> s, keep |-> c]
  BY <1>3
<1>5. [[pc |-> a, todo |-> s, keep |-> c] EXCEPT !.pc = p] = [pc |-> p, todo |-> s, keep |-> x.keep]
  BY <1>3
<1> QED
  BY <1>2, <1>4, <1>5 DEF x, Directed

LEMMA StageAlone ==
    ASSUME CleanupOK, NEW r \in DOMAIN ended, NEW p
    PROVE  [cleaner EXCEPT ![r].pc = p] = [cleaner EXCEPT ![r] = [pc |-> p, todo |-> cleaner[r].todo, keep |-> cleaner[r].keep]]
<1> DEFINE x == cleaner[r]
<1>1. /\ DOMAIN cleaner = DOMAIN ended /\ r \in DOMAIN cleaner
      /\ x \in [pc : {"idle", "limit", "list", "delete", "secret", "done"}, todo : Seq(DOMAIN ended), keep : Nat]
  BY DEF CleanupOK
<1>2. [cleaner EXCEPT ![r].pc = p] = [cleaner EXCEPT ![r] = [x EXCEPT !.pc = p]]
  BY <1>1
<1> HIDE DEF x
<1>3. PICK a, b, c : x = [pc |-> a, todo |-> b, keep |-> c]
  BY <1>1
<1>4. [x EXCEPT !.pc = p] = [pc |-> p, todo |-> x.todo, keep |-> x.keep]
  BY <1>3
<1> QED
  BY <1>2, <1>4 DEF x

\* What the worker of a run may do to its own promise.
LEMMA WorkerKeepsPromises ==
    ASSUME CleanupInv, NEW r \in DOMAIN ended, NEW p, NEW s, NEW k, WorkerStep(r, p, s, k),
           ~deletion'.failed /\ ~deletion'.beaten /\ Limited(r) =>
               \/ p \in {"limit", "list"}
               \/ ~Yet(r) /\ \A q \in Listed(r) : (\E i \in 1 .. Len(cleaner[r].todo) : cleaner[r].todo[i] = q) =>
                     ~ended'[q].exists \/ \E i \in 1 .. Len(s) : s[i] = q
               \/ Cardinality(Left(r)') <= MaxKeep(r)
    PROVE  PromisesOK'
<1>1. /\ CleanupOK' /\ Grown /\ StagesOK' /\ cleaner'[r].pc = p /\ cleaner'[r].todo = s
      /\ \A q \in DOMAIN ended : q # r => cleaner'[q] = cleaner[q]
      /\ \A q \in DOMAIN ended : ended'[q].completed = ended[q].completed
  <2>1. \A q \in DOMAIN ended : ended'[q].completed = ended[q].completed
    BY DEF WorkerStep
  <2> QED
    BY <2>1, WorkerStepKeeps
<1>2. ASSUME ~deletion'.failed, ~deletion'.beaten, NEW c \in DOMAIN ended, Limited(c)
      PROVE  \/ Yet(c)'
             \/ ~Yet(c) /\ \A q \in Listed(c) : (\E i \in 1 .. Len(cleaner[c].todo) : cleaner[c].todo[i] = q) =>
                   ~ended'[q].exists \/ \E i \in 1 .. Len(cleaner'[c].todo) : cleaner'[c].todo[i] = q
             \/ Cardinality(Left(c)') <= MaxKeep(c)
  <2>1. CASE c # r
    <3>1. cleaner'[c] = cleaner[c] /\ ended'[c].completed = ended[c].completed
      BY <1>1, <2>1
    <3>2. Yet(c)' <=> Yet(c)
      BY <3>1 DEF Yet
    <3> QED
      BY <3>1, <3>2
  <2>2. CASE c = r
    <3>1. CASE p \in {"limit", "list"}
      BY <1>1, <2>2, <3>1 DEF Yet
    <3>2. CASE ~Yet(r) /\ \A q \in Listed(r) : (\E i \in 1 .. Len(cleaner[r].todo) : cleaner[r].todo[i] = q) =>
                     ~ended'[q].exists \/ \E i \in 1 .. Len(s) : s[i] = q
      BY <1>1, <2>2, <3>2
    <3>3. CASE Cardinality(Left(r)') <= MaxKeep(r)
      BY <2>2, <3>3
    <3> QED
      BY <1>2, <2>2, <3>1, <3>2, <3>3
  <2> QED
    BY <2>1, <2>2
<1> HIDE DEF Yet, Left, Listed
<1> QED
  BY <1>1, <1>2, PromiseStays

LEMMA CleanupPipelineRunsInv ==
    ASSUME CleanupInv, NEW r \in DOMAIN ended, CleanupPipelineRuns(r)
    PROVE  CleanupInv'
<1> DEFINE p == IF Limited(r) THEN "list" ELSE "done"
           k == MaxKeep(r)
<1>1. /\ cleaner[r] \in [pc : {"idle", "limit", "list", "delete", "secret", "done"}, todo : Seq(DOMAIN ended), keep : Nat]
      /\ DOMAIN cleaner = DOMAIN ended /\ cleaner[r].pc = "limit" /\ cleaner[r].todo = <<>> /\ ended[r].completed
      /\ ended' = ended /\ deletion' = deletion /\ k \in Nat
  BY KeepIsANumber DEF CleanupInv, CleanupOK, StagesOK, CleanupPipelineRuns
<1>2. p \in {"list", "done"} /\ (p = "done" => ~Limited(r))
  OBVIOUS
<1>3. cleaner' = [cleaner EXCEPT ![r].keep = k, ![r].pc = p]
  BY DEF CleanupPipelineRuns
<1>4. WorkerStep(r, p, <<>>, k)
  <2> HIDE DEF p
  <2>1. k = MaxKeep(r)
    OBVIOUS
  <2> HIDE DEF k
  <2>2. cleaner' = [cleaner EXCEPT ![r] = [pc |-> p, todo |-> <<>>, keep |-> k]]
    <3>1. [cleaner EXCEPT ![r].keep = k, ![r].pc = p] = [cleaner EXCEPT ![r] = [pc |-> p, todo |-> cleaner[r].todo, keep |-> k]]
      BY KeepAndStage DEF CleanupInv
    <3> QED
      BY <1>1, <1>3, <3>1
  <2>3. \A q \in DOMAIN ended : (ended[q].exists => ended[q].secret) /\ (~ended[q].exists => ended[q].completed)
    BY DEF CleanupInv, StagesOK
  <2>4. /\ ended \in Seq(RunRecord) /\ <<>> \in Seq(DOMAIN ended)
        /\ deletion \in [failed : BOOLEAN, beaten : BOOLEAN, clock : Nat \ {0}, limits : LimitsRecord]
    BY DEF CleanupInv, CleanupOK
  <2> QED
    BY <1>1, <1>2, <2>1, <2>2, <2>3, <2>4 DEF WorkerStep
<1> HIDE DEF p, k
<1>5. /\ CleanupOK' /\ Grown /\ StagesOK' /\ cleaner'[r].pc = p
      /\ \A q \in DOMAIN ended : q # r => cleaner'[q] = cleaner[q]
  BY <1>4, WorkerStepKeeps
<1>6. TodoIsOld'
  <2>1. \A c \in DOMAIN ended : cleaner'[c].pc \in {"delete", "secret"} => cleaner'[c] = cleaner[c]
    BY <1>2, <1>5
  <2> QED
    BY <1>5, <2>1, TodoStaysOld
<1>7. SecretsFollow'
  <2>1. \A c \in DOMAIN ended : cleaner[c].pc = "secret" => cleaner'[c] = cleaner[c]
    BY <1>1, <1>5
  <2> QED
    BY <1>1, <2>1 DEF CleanupInv, SecretsFollow
<1>8. PromisesOK'
  BY <1>2, <1>4, WorkerKeepsPromises
<1> QED
  BY <1>5, <1>6, <1>7, <1>8 DEF CleanupInv

\* A list of all the listed runs, newest first: those after the first k have k
\* newer ones, and the others are no more than k.
LEMMA TheRestAreTooMany ==
    ASSUME CleanupInv, NEW r \in DOMAIN ended, ended[r].completed, NEW s \in SortedByCompletionTime(Listed(r)), NEW k \in Nat
    PROVE  /\ TooMany(s, k) \in Seq(DOMAIN ended)
           /\ \A i \in 1 .. Len(TooMany(s, k)) :
                 LET q == TooMany(s, k)[i] IN
                     ended[q].completed /\ ended[q].def = ended[r].def /\ Cardinality(NewerThan(q)) >= k
           /\ Cardinality({q \in Listed(r) : \A i \in 1 .. Len(TooMany(s, k)) : TooMany(s, k)[i] # q}) <= k
<1> DEFINE L == Listed(r)
           n == Cardinality(L)
           t == TooMany(s, k)
<1>1. /\ L \subseteq DOMAIN ended
      /\ \A q \in L : q \in DOMAIN ended /\ ended[q].completed /\ ended[q].def = ended[r].def /\ ended[q].at # NotEnded /\ ended[q].at \in Nat
  <2>1. \A q \in DOMAIN ended : ended[q] \in RunRecord
    BY DEF CleanupInv, CleanupOK
  <2>2. \A q \in DOMAIN ended : ended[q].at \in Nat /\ (ended[q].completed => ended[q].at # NotEnded)
    BY <2>1 DEF CleanupInv, StagesOK, RunRecord
  <2> QED
    BY <2>2 DEF Listed
<1>2. IsFiniteSet(L) /\ n \in Nat
  <2> HIDE DEF L
  <2> QED
    BY <1>1, FinitelyManyNewer DEF CleanupInv
<1>3. /\ s \in [1 .. n -> L] /\ \A i, j \in 1 .. n : i < j => s[i] # s[j] /\ ended[s[i]].at >= ended[s[j]].at
  BY DEF SortedByCompletionTime
<1> HIDE DEF L, n
<1>4. s \in Seq(L) /\ Len(s) = n
  BY <1>2, <1>3
<1>5. \A x \in L : \E i \in 1 .. n : s[i] = x
  <2>1. \A i, j \in 1 .. n : s[i] = s[j] => i = j
    <3> SUFFICES ASSUME NEW i \in 1 .. n, NEW j \in 1 .. n, s[i] = s[j], i # j PROVE FALSE
      OBVIOUS
    <3>1. i < j \/ j < i
      BY <1>2
    <3> QED
      BY <1>3, <3>1
  <2>2. s \in Injection(1 .. n, L)
    BY <1>3, <2>1 DEF Injection, IsInjective
  <2>3. Cardinality(1 .. n) = n
    BY <1>2, FS_Interval
  <2>4. s \in Surjection(1 .. n, L)
    BY <1>2, <2>2, <2>3, FS_Injection DEF n
  <2> QED
    BY <2>4 DEF Surjection
<1>6. \A i \in k + 1 .. Len(s) : s[i] \in DOMAIN ended
  BY <1>1, <1>3, <1>4
<1>7. /\ t \in Seq(DOMAIN ended) /\ Len(t) = IF k + 1 <= n THEN n - k ELSE 0
      /\ \A i \in 1 .. n - k : t[i] = s[k + i]
  <2>1. /\ t \in Seq(DOMAIN ended) /\ Len(t) = IF k + 1 <= Len(s) THEN Len(s) - (k + 1) + 1 ELSE 0
        /\ \A i \in 1 .. Len(s) - (k + 1) + 1 : t[i] = s[(k + 1) + i - 1]
    <3>1. k + 1 \in Int /\ Len(s) \in Int
      BY <1>2, <1>4
    <3> QED
      BY <1>6, <3>1, SubSeqProperties DEF TooMany
  <2>2. n - (k + 1) + 1 = n - k /\ \A i \in 1 .. n - k : (k + 1) + i - 1 = k + i
    BY <1>2
  <2> HIDE DEF t
  <2> QED
    BY <1>4, <2>1, <2>2
<1> HIDE DEF t
<1>8. ASSUME NEW i \in 1 .. Len(t)
      PROVE  ended[t[i]].completed /\ ended[t[i]].def = ended[r].def /\ Cardinality(NewerThan(t[i])) >= k
  <2> DEFINE q == t[i]
  <2>1. i \in 1 .. n - k /\ k + i \in 1 .. n /\ q = s[k + i]
    BY <1>2, <1>7
  <2>2. q \in L
    BY <1>3, <2>1
  <2>3. \A j \in 1 .. k : j \in 1 .. n /\ j < k + i
    BY <1>2, <2>1
  <2>4. \A j \in 1 .. k : s[j] \in L /\ s[j] # q /\ ended[s[j]].at >= ended[q].at
    BY <1>3, <2>1, <2>3
  <2> HIDE DEF q
  <2>5. \A j \in 1 .. k : s[j] \in NewerThan(q)
    BY <1>1, <2>2, <2>4 DEF NewerThan, Runs
  <2> DEFINE f == [j \in 1 .. k |-> s[j]]
  <2>6. f \in [1 .. k -> NewerThan(q)]
    BY <2>5
  <2>7. \A a, b \in 1 .. k : f[a] = f[b] => a = b
    <3> SUFFICES ASSUME NEW a \in 1 .. k, NEW b \in 1 .. k, s[a] = s[b], a # b PROVE FALSE
      OBVIOUS
    <3>1. (a < b \/ b < a) /\ a \in 1 .. n /\ b \in 1 .. n
      BY <2>3
    <3> QED
      BY <1>3, <3>1
  <2> HIDE DEF f
  <2>8. f \in Injection(1 .. k, NewerThan(q))
    BY <2>6, <2>7 DEF Injection, IsInjective
  <2>9. IsFiniteSet(NewerThan(q)) /\ Cardinality(NewerThan(q)) \in Nat
    <3>1. NewerThan(q) \subseteq DOMAIN ended
      BY DEF NewerThan, Runs
    <3> QED
      BY <3>1, FinitelyManyNewer DEF CleanupInv
  <2>10. Cardinality(1 .. k) = k
    BY FS_Interval
  <2>11. Cardinality(NewerThan(q)) >= k
    BY <2>8, <2>9, <2>10, FS_Injection
  <2> QED
    BY <1>1, <2>2, <2>11 DEF q
<1>9. Cardinality({q \in L : \A i \in 1 .. Len(t) : t[i] # q}) <= k
  <2> DEFINE R == {q \in L : \A i \in 1 .. Len(t) : t[i] # q}
  <2>1. \A q \in R : \E i \in 1 .. k : s[i] = q
    <3> SUFFICES ASSUME NEW q \in R PROVE \E i \in 1 .. k : s[i] = q
      OBVIOUS
    <3>1. PICK i \in 1 .. n : s[i] = q
      BY <1>5
    <3>2. ~(i > k)
      <4> SUFFICES ASSUME i > k PROVE FALSE
        OBVIOUS
      <4>1. i - k \in 1 .. n - k /\ k + (i - k) = i /\ Len(t) = n - k
        BY <1>2, <1>7
      <4> QED
        BY <1>7, <3>1, <4>1
    <3> QED
      BY <3>1, <3>2
  <2> HIDE DEF R
  <2> DEFINE f == [q \in R |-> CHOOSE i \in 1 .. k : s[i] = q]
  <2>2. \A q \in R : f[q] \in 1 .. k /\ s[f[q]] = q
    BY <2>1
  <2>3. f \in [R -> 1 .. k]
    BY <2>2
  <2> HIDE DEF f
  <2>4. f \in Injection(R, 1 .. k)
    BY <2>2, <2>3 DEF Injection, IsInjective
  <2>5. IsFiniteSet(1 .. k) /\ Cardinality(1 .. k) = k
    BY FS_Interval
  <2>6. Cardinality(R) <= k
    BY <2>4, <2>5, FS_Injection
  <2> QED
    BY <2>6 DEF R
<1> QED
  BY <1>7, <1>8, <1>9 DEF t, L

\* A worker that gives up: a call failed, or another one was there before it.
LEMMA GivingUpInv ==
    ASSUME CleanupInv, NEW r \in DOMAIN ended, cleaner[r].pc \in {"list", "delete"}, ended' = ended,
           cleaner' = [cleaner EXCEPT ![r].pc = "done"],
           \/ Fails
           \/ deletion' = [deletion EXCEPT !.beaten = TRUE] /\ cleaner[r].pc = "delete"
    PROVE  CleanupInv'
<1>1. /\ deletion' \in [failed : BOOLEAN, beaten : BOOLEAN, clock : Nat \ {0}, limits : LimitsRecord]
      /\ deletion'.limits = deletion.limits /\ (deletion.failed => deletion'.failed) /\ (deletion.beaten => deletion'.beaten)
      /\ deletion'.failed \/ deletion'.beaten
  BY DEF CleanupInv, CleanupOK, Fails
<1>2. /\ ended[r].completed /\ cleaner[r].todo \in Seq(DOMAIN ended) /\ cleaner[r].keep \in Nat /\ ended \in Seq(RunRecord)
      /\ \A q \in DOMAIN ended : (ended[q].exists => ended[q].secret) /\ (~ended[q].exists => ended[q].completed)
  BY DEF CleanupInv, CleanupOK, StagesOK
<1>3. WorkerStep(r, "done", cleaner[r].todo, cleaner[r].keep)
  <2>1. cleaner' = [cleaner EXCEPT ![r] = [pc |-> "done", todo |-> cleaner[r].todo, keep |-> cleaner[r].keep]]
    BY StageAlone DEF CleanupInv
  <2> QED
    BY <1>1, <1>2, <2>1 DEF WorkerStep
<1>4. /\ CleanupOK' /\ Grown /\ StagesOK' /\ cleaner'[r].pc = "done"
      /\ \A q \in DOMAIN ended : q # r => cleaner'[q] = cleaner[q]
  BY <1>3, WorkerStepKeeps
<1>5. TodoIsOld'
  <2>1. \A c \in DOMAIN ended : cleaner'[c].pc \in {"delete", "secret"} => cleaner'[c] = cleaner[c]
    BY <1>4
  <2> QED
    BY <1>4, <2>1, TodoStaysOld
<1>6. SecretsFollow'
  <2>1. \A c \in DOMAIN ended : cleaner[c].pc = "secret" => cleaner'[c] = cleaner[c]
    BY <1>4
  <2> QED
    BY <1>1, <2>1 DEF CleanupInv, SecretsFollow
<1>7. PromisesOK'
  BY <1>1 DEF PromisesOK
<1> QED
  BY <1>4, <1>5, <1>6, <1>7 DEF CleanupInv

LEMMA ListInv ==
    ASSUME CleanupInv, NEW r \in DOMAIN ended, List(r)
    PROVE  CleanupInv'
<1>0. cleaner[r].pc = "list" /\ ended' = ended
  BY DEF List
<1>1. CASE cleaner' = [cleaner EXCEPT ![r].pc = "done"] /\ Fails
  BY <1>0, <1>1, GivingUpInv
<1>2. ASSUME NEW s \in SortedByCompletionTime(Listed(r)), deletion' = deletion,
             LET todo == TooMany(s, cleaner[r].keep) IN
                 cleaner' = [cleaner EXCEPT ![r].todo = todo, ![r].pc = IF todo = <<>> THEN "done" ELSE "delete"]
      PROVE  CleanupInv'
  <2> DEFINE k == cleaner[r].keep
             t == TooMany(s, k)
             p == IF t = <<>> THEN "done" ELSE "delete"
  <2>1. /\ k \in Nat /\ k = MaxKeep(r) /\ ended[r].completed /\ ended \in Seq(RunRecord)
        /\ deletion \in [failed : BOOLEAN, beaten : BOOLEAN, clock : Nat \ {0}, limits : LimitsRecord]
        /\ \A q \in DOMAIN ended : (ended[q].exists => ended[q].secret) /\ (~ended[q].exists => ended[q].completed)
    BY <1>0 DEF CleanupInv, CleanupOK, StagesOK
  <2>2. /\ t \in Seq(DOMAIN ended)
        /\ \A i \in 1 .. Len(t) : ended[t[i]].completed /\ ended[t[i]].def = ended[r].def /\ Cardinality(NewerThan(t[i])) >= k
        /\ Cardinality({q \in Listed(r) : \A i \in 1 .. Len(t) : t[i] # q}) <= k
    <3> HIDE DEF k
    <3> QED
      BY <1>2, <2>1, TheRestAreTooMany
  <2>3. p \in {"done", "delete"} /\ (p = "done" <=> t = <<>>)
    OBVIOUS
  <2>4. cleaner' = [cleaner EXCEPT ![r].todo = t, ![r].pc = p]
    BY <1>2
  <2> HIDE DEF t, p
  <2>5. WorkerStep(r, p, t, k)
    <3>1. [cleaner EXCEPT ![r].todo = t, ![r].pc = p] = [cleaner EXCEPT ![r] = [pc |-> p, todo |-> t, keep |-> k]]
      <4>1. CleanupOK
        BY DEF CleanupInv
      <4>2. Directed(r, t, p) = [cleaner EXCEPT ![r] = [pc |-> p, todo |-> t, keep |-> k]]
        BY <4>1, TodoAndStage
      <4> QED
        BY <4>2 DEF Directed
    <3>2. cleaner' = [cleaner EXCEPT ![r] = [pc |-> p, todo |-> t, keep |-> k]]
      BY <2>4, <3>1
    <3> HIDE DEF k
    <3> QED
      BY <1>0, <1>2, <2>1, <2>2, <2>3, <3>2 DEF WorkerStep
  <2>6. /\ CleanupOK' /\ Grown /\ StagesOK' /\ cleaner'[r].pc = p /\ cleaner'[r].todo = t /\ cleaner'[r].keep = k
        /\ \A q \in DOMAIN ended : q # r => cleaner'[q] = cleaner[q]
    BY <2>5, WorkerStepKeeps
  <2> HIDE DEF k
  <2>7. TodoIsOld'
    <3>1. ASSUME NEW c \in DOMAIN ended, cleaner'[c].pc \in {"delete", "secret"}, NEW i \in 1 .. Len(cleaner'[c].todo)
          PROVE  TooOld(c, cleaner[c].todo[i])'
      <4>1. CASE c = r
        BY <1>0, <2>2, <2>6, <3>1, <4>1 DEF TooOld, NewerThan, Runs
      <4>2. CASE c # r
        <5>1. cleaner'[c] = cleaner[c]
          BY <2>6, <4>2
        <5>2. TooOld(c, cleaner[c].todo[i])
          BY <3>1, <5>1 DEF CleanupInv, TodoIsOld
        <5> QED
          BY <1>0, <5>1, <5>2 DEF TooOld, NewerThan, Runs
      <4> QED
        BY <4>1, <4>2
    <3> QED
      BY <1>0, <3>1 DEF TodoIsOld
  <2>8. SecretsFollow'
    <3>1. \A c \in DOMAIN ended : cleaner[c].pc = "secret" => cleaner'[c] = cleaner[c]
      BY <1>0, <2>6
    <3>2. deletion' = deletion
      BY <1>2
    <3> QED
      BY <1>0, <3>1, <3>2 DEF CleanupInv, SecretsFollow
  <2>9. PromisesOK'
    <3>1. Left(r)' = {q \in Listed(r) : \A i \in 1 .. Len(t) : t[i] # q}
      BY <1>0, <2>6 DEF Left, Listed
    <3>2. Cardinality(Left(r)') <= MaxKeep(r)
      BY <2>1, <2>2, <3>1
    <3> QED
      BY <2>5, <3>2, WorkerKeepsPromises
  <2> QED
    BY <2>6, <2>7, <2>8, <2>9 DEF CleanupInv
<1> QED
  BY <1>1, <1>2 DEF List

LEMMA DeleteInv ==
    ASSUME CleanupInv, NEW r \in DOMAIN ended, Delete(r)
    PROVE  CleanupInv'
<1> DEFINE h == Head(cleaner[r].todo)
           t == cleaner[r].todo
           k == cleaner[r].keep
<1>0. /\ cleaner[r].pc = "delete" /\ t \in Seq(DOMAIN ended) /\ t # <<>> /\ h \in DOMAIN ended /\ k \in Nat /\ k = MaxKeep(r)
      /\ ended \in Seq(RunRecord) /\ DOMAIN ended = 1 .. Len(ended) /\ ended[r].completed
      /\ deletion \in [failed : BOOLEAN, beaten : BOOLEAN, clock : Nat \ {0}, limits : LimitsRecord]
      /\ \A q \in DOMAIN ended : (ended[q].exists => ended[q].secret) /\ (~ended[q].exists => ended[q].completed)
  BY DEF CleanupInv, CleanupOK, StagesOK, Delete
<1>1. CASE cleaner' = [cleaner EXCEPT ![r].pc = "done"] /\ Fails /\ UNCHANGED ended
  BY <1>0, <1>1, GivingUpInv
<1>2. CASE cleaner' = [cleaner EXCEPT ![r].pc = "done"] /\ deletion' = [deletion EXCEPT !.beaten = TRUE] /\ UNCHANGED ended
  BY <1>0, <1>2, GivingUpInv
<1>3. CASE /\ ended' = [ended EXCEPT ![h].exists = FALSE]
           /\ cleaner' = [cleaner EXCEPT ![r].pc = "secret"] /\ deletion' = deletion
  <2> DEFINE e == [ended[h] EXCEPT !.exists = FALSE]
  <2>1. ended[h] \in RunRecord /\ ended[h].completed
    <3>1. TooOld(r, t[1]) /\ h = t[1]
      BY <1>0 DEF CleanupInv, TodoIsOld
    <3> QED
      BY <1>0, <3>1 DEF TooOld
  <2>2. /\ e \in RunRecord /\ e.def = ended[h].def /\ e.keep = ended[h].keep /\ e.completed = ended[h].completed
        /\ e.exists = FALSE /\ e.secret = ended[h].secret /\ e.at = ended[h].at
    BY <2>1 DEF RunRecord
  <2>3. ended' = [ended EXCEPT ![h] = e]
    BY <1>0, <1>3
  <2> HIDE DEF e
  <2>4. ended' \in Seq(RunRecord) /\ DOMAIN ended' = DOMAIN ended /\ ended'[h] = e /\ \A q \in DOMAIN ended : q # h => ended'[q] = ended[q]
    <3>1. e \in RunRecord
      BY <2>2
    <3>2. h \in DOMAIN ended /\ ended \in Seq(RunRecord) /\ DOMAIN ended = 1 .. Len(ended)
      BY <1>0
    <3> HIDE DEF h
    <3> QED
      BY <2>3, <3>1, <3>2
  <2>5. \A q \in DOMAIN ended : /\ ended'[q].def = ended[q].def /\ ended'[q].keep = ended[q].keep /\ ended'[q].completed = ended[q].completed
                                /\ ended'[q].exists = (ended[q].exists /\ q # h) /\ ended'[q].secret = ended[q].secret /\ ended'[q].at = ended[q].at
    <3> SUFFICES ASSUME NEW q \in DOMAIN ended
                 PROVE  /\ ended'[q].def = ended[q].def /\ ended'[q].keep = ended[q].keep /\ ended'[q].completed = ended[q].completed
                        /\ ended'[q].exists = (ended[q].exists /\ q # h) /\ ended'[q].secret = ended[q].secret /\ ended'[q].at = ended[q].at
      OBVIOUS
    <3>1. ended[q].exists \in BOOLEAN
      <4>1. ended[q] \in RunRecord
        BY <1>0
      <4> QED
        BY <4>1 DEF RunRecord
    <3>2. CASE q = h
      BY <2>2, <2>4, <3>1, <3>2
    <3>3. CASE q # h
      BY <2>4, <3>1, <3>3
    <3> QED
      BY <3>2, <3>3
  <2>6. WorkerStep(r, "secret", t, k)
    <3>1. cleaner' = [cleaner EXCEPT ![r] = [pc |-> "secret", todo |-> t, keep |-> k]]
      BY <1>3, StageAlone DEF CleanupInv
    <3>2. /\ \A q \in DOMAIN ended :
              /\ ended'[q].def = ended[q].def /\ ended'[q].keep = ended[q].keep
              /\ ended'[q].completed = ended[q].completed /\ ended'[q].at = ended[q].at
              /\ ended'[q].exists => ended[q].exists /\ ended'[q].secret
              /\ ~ended'[q].exists => ended[q].completed
          /\ ~ended'[h].exists
      BY <1>0, <2>1, <2>5
    <3> HIDE DEF k
    <3> QED
      BY <1>0, <1>3, <2>4, <3>1, <3>2 DEF WorkerStep
  <2>7. /\ CleanupOK' /\ Grown /\ StagesOK' /\ cleaner'[r].pc = "secret" /\ cleaner'[r].todo = t /\ cleaner'[r].keep = k
        /\ \A q \in DOMAIN ended : q # r => cleaner'[q] = cleaner[q]
    BY <2>6, WorkerStepKeeps
  <2>8. TodoIsOld'
    <3>1. \A c \in DOMAIN ended : cleaner'[c].todo = cleaner[c].todo /\ cleaner'[c].keep = cleaner[c].keep
                                  /\ (cleaner'[c].pc \in {"delete", "secret"} => cleaner[c].pc \in {"delete", "secret"})
      BY <1>0, <2>7
    <3> QED
      BY <2>7, <3>1, TodoStaysOld
  <2>9. SecretsFollow'
    <3> SUFFICES ASSUME NEW q \in DOMAIN ended, ~ended'[q].exists, ended'[q].secret, ~deletion'.failed
                 PROVE  \E c \in DOMAIN ended : cleaner'[c].pc = "secret" /\ Head(cleaner'[c].todo) = q
      BY <2>4 DEF SecretsFollow
    <3>1. CASE q = h
      BY <2>7, <3>1
    <3>2. CASE q # h
      <4>1. PICK c \in DOMAIN ended : cleaner[c].pc = "secret" /\ Head(cleaner[c].todo) = q
        BY <1>3, <2>5, <3>2 DEF CleanupInv, SecretsFollow
      <4> QED
        BY <1>0, <2>7, <4>1
    <3> QED
      BY <3>1, <3>2
  <2>10. PromisesOK'
    <3>1. ~Yet(r)
      BY <1>0 DEF Yet
    <3> QED
      BY <2>6, <3>1, WorkerKeepsPromises
  <2> QED
    BY <2>7, <2>8, <2>9, <2>10 DEF CleanupInv
<1> QED
  BY <1>1, <1>2, <1>3 DEF Delete

LEMMA DeleteSecretInv ==
    ASSUME CleanupInv, NEW r \in DOMAIN ended, DeleteSecret(r)
    PROVE  CleanupInv'
<1> DEFINE t == cleaner[r].todo
           h == Head(t)
           k == cleaner[r].keep
           p == IF Tail(t) = <<>> THEN "done" ELSE "delete"
<1>0. /\ cleaner[r].pc = "secret" /\ t \in Seq(DOMAIN ended) /\ t # <<>> /\ h \in DOMAIN ended /\ k \in Nat /\ k = MaxKeep(r)
      /\ ended \in Seq(RunRecord) /\ DOMAIN ended = 1 .. Len(ended) /\ ended[r].completed /\ ~ended[h].exists
      /\ deletion \in [failed : BOOLEAN, beaten : BOOLEAN, clock : Nat \ {0}, limits : LimitsRecord]
      /\ \A q \in DOMAIN ended : (ended[q].exists => ended[q].secret) /\ (~ended[q].exists => ended[q].completed)
  <2>1. cleaner[r].pc = "secret"
    BY DEF DeleteSecret
  <2>2. /\ t \in Seq(DOMAIN ended) /\ k \in Nat /\ ended \in Seq(RunRecord) /\ DOMAIN ended = 1 .. Len(ended)
        /\ deletion \in [failed : BOOLEAN, beaten : BOOLEAN, clock : Nat \ {0}, limits : LimitsRecord]
    BY DEF CleanupInv, CleanupOK
  <2>3. t # <<>> /\ k = MaxKeep(r) /\ ended[r].completed /\ ~ended[h].exists
    BY <2>1 DEF CleanupInv, StagesOK
  <2>4. \A q \in DOMAIN ended : (ended[q].exists => ended[q].secret) /\ (~ended[q].exists => ended[q].completed)
    BY DEF CleanupInv, StagesOK
  <2>5. h \in DOMAIN ended
    <3>1. t \in Seq(DOMAIN ended) /\ t # <<>>
      BY <2>2, <2>3
    <3> HIDE DEF t
    <3> QED
      BY <3>1
  <2> QED
    BY <2>1, <2>2, <2>3, <2>4, <2>5
<1>1. p \in {"done", "delete"} /\ (p = "done" <=> Tail(t) = <<>>)
  OBVIOUS
<1>2. /\ cleaner' = [cleaner EXCEPT ![r].todo = Tail(t), ![r].pc = p]
      /\ \/ ended' = [ended EXCEPT ![h].secret = FALSE] /\ deletion' = deletion
         \/ Fails /\ ended' = ended
  BY DEF DeleteSecret
<1>3. /\ Tail(t) \in Seq(DOMAIN ended) /\ Len(Tail(t)) = Len(t) - 1 /\ Len(t) \in Nat /\ t[1] = h
      /\ \A i \in 1 .. Len(t) - 1 : Tail(t)[i] = t[i + 1]
  <2>1. t \in Seq(DOMAIN ended) /\ t # <<>>
    BY <1>0
  <2> HIDE DEF t
  <2>2. t[1] = Head(t) /\ Len(t) \in Nat
    BY <2>1
  <2>3. Tail(t) \in Seq(DOMAIN ended) /\ Len(Tail(t)) = Len(t) - 1 /\ \A i \in 1 .. Len(Tail(t)) : Tail(t)[i] = t[i + 1]
    BY <2>1, HeadTailProperties
  <2> QED
    BY <2>2, <2>3
<1> HIDE DEF p, k, h, t
<1>4. /\ ended' \in Seq(RunRecord) /\ DOMAIN ended' = DOMAIN ended
      /\ \A q \in DOMAIN ended : /\ ended'[q].def = ended[q].def /\ ended'[q].keep = ended[q].keep /\ ended'[q].completed = ended[q].completed
                                 /\ ended'[q].exists = ended[q].exists /\ ended'[q].at = ended[q].at
                                 /\ q # h => ended'[q].secret = ended[q].secret
      /\ deletion'.failed \/ ~ended'[h].secret
  <2>1. CASE Fails /\ ended' = ended
    BY <1>0, <2>1 DEF Fails, CleanupInv, CleanupOK
  <2>2. CASE ended' = [ended EXCEPT ![h].secret = FALSE]
    <3> DEFINE e == [ended[h] EXCEPT !.secret = FALSE]
    <3>1. ended[h] \in RunRecord
      BY <1>0
    <3>2. /\ e \in RunRecord /\ e.def = ended[h].def /\ e.keep = ended[h].keep /\ e.completed = ended[h].completed
          /\ e.secret = FALSE /\ e.exists = ended[h].exists /\ e.at = ended[h].at
      BY <3>1 DEF RunRecord
    <3>3. ended' = [ended EXCEPT ![h] = e]
      BY <1>0, <2>2
    <3> HIDE DEF e
    <3>4. ended' \in Seq(RunRecord) /\ DOMAIN ended' = DOMAIN ended /\ ended'[h] = e /\ \A q \in DOMAIN ended : q # h => ended'[q] = ended[q]
      <4>1. e \in RunRecord
        BY <3>2
      <4>2. h \in DOMAIN ended /\ ended \in Seq(RunRecord) /\ DOMAIN ended = 1 .. Len(ended)
        BY <1>0
      <4> QED
        BY <3>3, <4>1, <4>2
    <3> QED
      BY <3>2, <3>4
  <2> QED
    BY <1>2, <2>1, <2>2
<1>5. /\ deletion' \in [failed : BOOLEAN, beaten : BOOLEAN, clock : Nat \ {0}, limits : LimitsRecord]
      /\ deletion'.limits = deletion.limits /\ (deletion.failed => deletion'.failed) /\ (deletion.beaten => deletion'.beaten)
  BY <1>0, <1>2 DEF Fails
<1>6. WorkerStep(r, p, Tail(t), k)
  <2>1. cleaner' = [cleaner EXCEPT ![r] = [pc |-> p, todo |-> Tail(t), keep |-> k]]
    <3>1. [cleaner EXCEPT ![r].todo = Tail(t), ![r].pc = p] = [cleaner EXCEPT ![r] = [pc |-> p, todo |-> Tail(t), keep |-> cleaner[r].keep]]
      <4>1. CleanupOK
        BY DEF CleanupInv
      <4>2. Directed(r, Tail(t), p) = [cleaner EXCEPT ![r] = [pc |-> p, todo |-> Tail(t), keep |-> cleaner[r].keep]]
        BY <4>1, TodoAndStage
      <4> QED
        BY <4>2 DEF Directed
    <3> QED
      BY <1>2, <3>1 DEF k
  <2>2. \A q \in DOMAIN ended :
            /\ ended'[q].def = ended[q].def /\ ended'[q].keep = ended[q].keep
            /\ ended'[q].completed = ended[q].completed /\ ended'[q].at = ended[q].at
            /\ ended'[q].exists => ended[q].exists /\ ended'[q].secret
            /\ ~ended'[q].exists => ended[q].completed
    BY <1>0, <1>4
  <2> QED
    BY <1>0, <1>1, <1>3, <1>4, <1>5, <2>1, <2>2 DEF WorkerStep
<1>7. /\ CleanupOK' /\ Grown /\ StagesOK' /\ cleaner'[r].pc = p /\ cleaner'[r].todo = Tail(t) /\ cleaner'[r].keep = k
      /\ \A q \in DOMAIN ended : q # r => cleaner'[q] = cleaner[q]
  BY <1>6, WorkerStepKeeps
<1>8. TodoIsOld'
  <2>1. ASSUME NEW c \in DOMAIN ended, cleaner'[c].pc \in {"delete", "secret"}
        PROVE  /\ cleaner[c].pc \in {"delete", "secret"} /\ cleaner'[c].keep = cleaner[c].keep
               /\ \A i \in 1 .. Len(cleaner'[c].todo) : \E j \in 1 .. Len(cleaner[c].todo) : cleaner[c].todo[j] = cleaner'[c].todo[i]
    <3>1. CASE c = r
      <4>1. \A i \in 1 .. Len(Tail(t)) : i + 1 \in 1 .. Len(t) /\ t[i + 1] = Tail(t)[i]
        BY <1>3
      <4>2. cleaner'[c].todo = Tail(t) /\ cleaner'[c].keep = k /\ cleaner[c].pc = "secret" /\ cleaner[c].todo = t /\ cleaner[c].keep = k
        BY <1>0, <1>7, <3>1 DEF k, t
      <4> QED
        BY <4>1, <4>2
    <3>2. CASE c # r
      BY <1>7, <2>1, <3>2
    <3> QED
      BY <3>1, <3>2
  <2> QED
    BY <1>7, <2>1, TodoStaysOld
<1>9. SecretsFollow'
  <2> SUFFICES ASSUME NEW q \in DOMAIN ended, ~ended'[q].exists, ended'[q].secret, ~deletion'.failed
               PROVE  \E c \in DOMAIN ended : cleaner'[c].pc = "secret" /\ Head(cleaner'[c].todo) = q
    BY <1>4 DEF SecretsFollow
  <2>1. q # h /\ ~ended[q].exists /\ ended[q].secret /\ ~deletion.failed
    BY <1>4, <1>5
  <2>2. PICK c \in DOMAIN ended : cleaner[c].pc = "secret" /\ Head(cleaner[c].todo) = q
    BY <2>1 DEF CleanupInv, SecretsFollow
  <2>3. c # r
    BY <2>1, <2>2 DEF h, t
  <2> QED
    BY <1>7, <2>2, <2>3
<1>10. PromisesOK'
  <2>1. ~Yet(r)
    BY <1>0 DEF Yet
  <2>2. ASSUME NEW q \in Listed(r), NEW i \in 1 .. Len(cleaner[r].todo), cleaner[r].todo[i] = q
        PROVE  ~ended'[q].exists \/ \E j \in 1 .. Len(Tail(t)) : Tail(t)[j] = q
    <3>1. CASE i = 1
      BY <1>0, <1>3, <1>4, <2>2, <3>1 DEF t
    <3>2. CASE i # 1
      <4>1. i - 1 \in 1 .. Len(t) - 1 /\ (i - 1) + 1 = i
        BY <1>3, <3>2 DEF t
      <4>2. Tail(t)[i - 1] = q
        BY <1>3, <2>2, <4>1 DEF t
      <4> QED
        BY <1>3, <4>1, <4>2
    <3> QED
      BY <3>1, <3>2
  <2> QED
    BY <1>6, <2>1, <2>2, WorkerKeepsPromises
<1> QED
  BY <1>7, <1>8, <1>9, <1>10 DEF CleanupInv

LEMMA CleanupStepInv == CleanupInv /\ [CleanupNext]_cleanupVars => CleanupInv'
<1> SUFFICES ASSUME CleanupInv, [CleanupNext]_cleanupVars PROVE CleanupInv'
  OBVIOUS
<1>1. CASE CleanupNext
  BY <1>1, RunEndsInv, MarkCompletedInv, CleanupPipelineRunsInv, ListInv, DeleteInv, DeleteSecretInv DEF CleanupNext
<1>2. CASE UNCHANGED cleanupVars
  <2>1. ended' = ended /\ cleaner' = cleaner /\ deletion' = deletion
    BY <1>2 DEF cleanupVars
  <2>2. CleanupOK'
    BY <2>1 DEF CleanupInv, CleanupOK
  <2>3. StagesOK'
    BY <2>1 DEF CleanupInv, StagesOK, MaxKeep
  <2>4. TodoIsOld'
    <3>1. ASSUME NEW c \in DOMAIN ended, cleaner[c].pc \in {"delete", "secret"}, NEW i \in 1 .. Len(cleaner[c].todo),
                 NEW x, x = cleaner[c].todo[i]
          PROVE  TooOld(c, x)'
      <4>1. TooOld(c, x)
        BY <3>1 DEF CleanupInv, TodoIsOld
      <4>2. NewerThan(x)' = NewerThan(x)
        BY <2>1 DEF NewerThan, Runs
      <4> QED
        BY <2>1, <4>1, <4>2 DEF TooOld
    <3>2. \A c \in DOMAIN ended : cleaner'[c].pc \in {"delete", "secret"} =>
            \A i \in 1 .. Len(cleaner'[c].todo) : \A x : x = cleaner'[c].todo[i] => TooOld(c, x)'
      BY <2>1, <3>1
    <3>3. \A c \in DOMAIN ended : cleaner'[c].pc \in {"delete", "secret"} =>
            \A i \in 1 .. Len(cleaner'[c].todo) : TooOld(c, cleaner[c].todo[i])'
      BY <3>2 DEF TooOld, NewerThan
    <3> QED
      BY <2>1, <3>3 DEF TodoIsOld
  <2>5. SecretsFollow'
    BY <2>1 DEF CleanupInv, SecretsFollow
  <2>6. PromisesOK'
    <3>1. \A d : Promised(d)' = Promised(d) /\ Runs(d)' = Runs(d)
      BY <2>1 DEF Promised, Yet, Left, Listed, MaxKeep, Runs
    <3>2. \A q : Limited(q)' = Limited(q)
      BY <2>1 DEF Limited
    <3> QED
      BY <2>1, <3>1, <3>2 DEF CleanupInv, PromisesOK
  <2> QED
    BY <2>2, <2>3, <2>4, <2>5, <2>6 DEF CleanupInv
<1> QED
  BY <1>1, <1>2

\* A worker that deletes a run still finds enough newer ones.
LEMMA OnlyOldRunsGo ==
    ASSUME CleanupInv, [CleanupNext]_cleanupVars, NEW r \in DOMAIN ended, ended[r].exists, ended'[r].exists = FALSE
    PROVE  \E c \in DOMAIN cleaner :
              /\ cleaner[c].pc = "delete"
              /\ Cardinality({q \in Runs(ended[r].def) \ {r} : ended[q].completed /\ ended[q].at >= ended[r].at}) >= cleaner[c].keep
              /\ cleaner[c].keep = MaxKeep(c) /\ ended[c].def = ended[r].def
<1>1. ended' # ended
  OBVIOUS
<1>2. PICK c \in DOMAIN ended : RunEnds(c) \/ MarkCompleted(c) \/ CleanupPipelineRuns(c) \/ List(c) \/ Delete(c) \/ DeleteSecret(c)
  BY <1>1 DEF CleanupNext, cleanupVars
<1>3. /\ ended \in Seq(RunRecord) /\ DOMAIN ended = 1 .. Len(ended) /\ cleaner[c].todo \in Seq(DOMAIN ended)
      /\ ended[c] \in RunRecord /\ DOMAIN cleaner = DOMAIN ended
  BY DEF CleanupInv, CleanupOK
<1>4. CASE RunEnds(c)
  <2>1. PICK x : ended' = [ended EXCEPT ![c].at = x]
    BY <1>4 DEF RunEnds
  <2> QED
    BY <1>3, <2>1 DEF RunRecord
<1>5. CASE MarkCompleted(c)
  BY <1>3, <1>5 DEF MarkCompleted, RunRecord
<1>6. CASE CleanupPipelineRuns(c) \/ List(c)
  BY <1>1, <1>6 DEF CleanupPipelineRuns, List
<1>7. CASE DeleteSecret(c)
  <2>1. PICK x : ended' = [ended EXCEPT ![x].secret = FALSE]
    BY <1>1, <1>7 DEF DeleteSecret
  <2>2. ended[r] \in RunRecord
    BY <1>3
  <2> QED
    BY <1>3, <2>1, <2>2 DEF RunRecord
<1>8. CASE Delete(c)
  <2>1. cleaner[c].pc = "delete" /\ ended' = [ended EXCEPT ![Head(cleaner[c].todo)].exists = FALSE]
    BY <1>1, <1>8 DEF Delete
  <2>2. Head(cleaner[c].todo) = r
    BY <1>3, <2>1
  <2>3. cleaner[c].todo # <<>> /\ cleaner[c].keep = MaxKeep(c)
    BY <2>1 DEF CleanupInv, StagesOK
  <2>4. 1 \in 1 .. Len(cleaner[c].todo) /\ cleaner[c].todo[1] = r
    BY <1>3, <2>2, <2>3
  <2>5. TooOld(c, r)
    BY <2>1, <2>4 DEF CleanupInv, TodoIsOld
  <2> QED
    BY <1>3, <2>1, <2>3, <2>5 DEF TooOld, NewerThan
<1> QED
  BY <1>2, <1>4, <1>5, <1>6, <1>7, <1>8

\* When all are done, the worker that promised has listed all and deleted its list.
LEMMA PromisesAreKept == CleanupInv => UnbeatenWorkersKeepMaxKeep
<1> SUFFICES ASSUME CleanupInv, ~deletion.beaten, \A r \in DOMAIN ended : cleaner[r].pc = "done", ~deletion.failed, NEW r \in DOMAIN ended
             PROVE  /\ (\A q \in Runs(ended[r].def) : Limited(q)) =>
                           Cardinality(Kept(ended[r].def)) <= Max({MaxKeep(q) : q \in Runs(ended[r].def)})
                    /\ ended[r].exists = ended[r].secret
  BY DEF UnbeatenWorkersKeepMaxKeep, MaxKeepIsKept
<1> DEFINE d == ended[r].def
<1>1. \A q \in DOMAIN ended : ended[q].completed /\ ended[q].at # NotEnded /\ cleaner[q].todo = <<>> /\ ~Yet(q)
  BY DEF CleanupInv, StagesOK, Yet
<1>2. ended[r].exists = ended[r].secret
  <2>1. ended[r].exists \in BOOLEAN /\ ended[r].secret \in BOOLEAN
    <3>1. ended[r] \in RunRecord
      BY DEF CleanupInv, CleanupOK
    <3> QED
      BY <3>1 DEF RunRecord
  <2>2. ended[r].exists => ended[r].secret
    BY DEF CleanupInv, StagesOK
  <2>3. ended[r].secret => ended[r].exists
    BY DEF CleanupInv, SecretsFollow
  <2> QED
    BY <2>1, <2>2, <2>3
<1>3. ASSUME \A q \in Runs(d) : Limited(q)
      PROVE  Cardinality(Kept(d)) <= Max({MaxKeep(q) : q \in Runs(d)})
  <2>1. PICK c \in DOMAIN ended : ended[c].def = d /\ (Yet(c) \/ Cardinality(Left(c)) <= MaxKeep(c))
    BY <1>3 DEF CleanupInv, PromisesOK, Promised
  <2> HIDE DEF d
  <2>2. Cardinality(Left(c)) <= MaxKeep(c)
    BY <1>1, <2>1
  <2>3. Kept(d) = Left(c)
    BY <1>1, <2>1 DEF Kept, Runs, Left, Listed
  <2>4. c \in Runs(d)
    BY <1>1, <2>1 DEF Runs
  <2>5. MaxKeep(c) <= Max({MaxKeep(q) : q \in Runs(d)}) /\ Max({MaxKeep(q) : q \in Runs(d)}) \in Nat
    BY <2>4, LargestKeep DEF CleanupInv
  <2>6. MaxKeep(c) \in Nat /\ Cardinality(Left(c)) \in Nat
    <3>1. Left(c) \subseteq DOMAIN ended
      BY DEF Left, Listed
    <3> QED
      BY <3>1, KeepIsANumber, FinitelyManyNewer DEF CleanupInv
  <2> QED
    BY <2>2, <2>3, <2>5, <2>6
<1> QED
  BY <1>2, <1>3

\* CleanupKeepsTheNewest: workers that clean up a definition at once, each from a
\* list of its own, delete only runs than which as many newer ones have completed
\* as the worker is to keep, whatever was deleted since it listed them.  Unless
\* one of them gives up, no more runs are left in the end than the largest number
\* to keep, and no secret of a run that is gone.  For any runs, limits and
\* completion times, as long as each definition has a run that has yet to end.
THEOREM CleanupAlwaysKeepsTheNewest == CleanupSpec => CleanupKeepsTheNewest
<1>1. CleanupInv /\ [CleanupNext]_cleanupVars =>
        [\A r \in DOMAIN ended :
          ended[r].exists /\ ended'[r].exists = FALSE =>
              \E c \in DOMAIN cleaner :
                  /\ cleaner[c].pc = "delete"
                  /\ Cardinality({q \in Runs(ended[r].def) \ {r} : ended[q].completed /\ ended[q].at >= ended[r].at}) >= cleaner[c].keep
                  /\ cleaner[c].keep = MaxKeep(c) /\ ended[c].def = ended[r].def]_cleanupVars
  BY OnlyOldRunsGo
<1> QED
  BY <1>1, InitCleanupInv, CleanupStepInv, PromisesAreKept, PTL DEF CleanupSpec, CleanupKeepsTheNewest, OnlyOldRunsAreDeleted
-----------------------------------------------------------------------------
(***************************************************************************)
(* Resolution: for any directory and any annotations, whatever the         *)
(* references come to name and whenever that changes.                      *)
(***************************************************************************)
CONSTANT ResourceNames

AnyName == ResourceNames \cup {NoName}
ReferenceRecord == [kind : {"url", "path", "name", "catalog", "none"}, name : AnyName, base : AnyName]
AnnotationValues == {A \in SUBSET Seq(ReferenceRecord) : IsFiniteSet(A)}
TaskRecord == [name : ResourceNames, version : Int]
PipelineRecord == [name : AnyName, tasks : SUBSET ResourceNames, annotations : AnnotationValues, version : Int]
DefinitionRecord ==
    [name : ResourceNames, pipelineRef : AnyName, tasks : SUBSET ResourceNames, pipelines : Seq(ReferenceRecord),
     annotations : AnnotationValues, valid : BOOLEAN]
RepositoryRecord ==
    [defs : Seq(DefinitionRecord) \ {<<>>}, pipelines : Seq(PipelineRecord), tasks : Seq(TaskRecord),
     skip : SUBSET ResourceNames, remoteTasks : BOOLEAN]
Partial(D, R) == UNION {[S -> R] : S \in SUBSET D}
FetchedRecord == [pipelines : Partial(ReferenceRecord, PipelineRecord), tasks : Partial(ReferenceRecord, TaskRecord)]

ResolutionInit == \E r \in RepositoryRecord, w \in FetchedRecord : InitResolution(r, w)
\* Beyond what the runs do, the references come to name anything at any time.
ResolutionSteps ==
    \/ ResolutionNext
    \/ \E w \in FetchedRecord : remote' = w /\ UNCHANGED <<repository, fetched, work>>
ResolutionSpec == ResolutionInit /\ [][ResolutionSteps]_resolutionVars

ResolvedRecord == [pipeline : PipelineRecord, url : ReferenceRecord, tasks : Partial(ResourceNames, TaskRecord)]
WorkRecord ==
    [pc : {"validate", "pipeline", "choose", "tasks", "failed", "resolved"}, at : Nat \ {0}, pipeline : PipelineRecord,
     url : ReferenceRecord, todo : Seq(ReferenceRecord), tasks : Partial(ResourceNames, TaskRecord), done : Seq(ResolvedRecord)]
ResolutionOK ==
    /\ repository \in RepositoryRecord /\ remote \in FetchedRecord
    /\ fetched \in FetchedRecord
    /\ work \in WorkRecord
    /\ work.pc \in {"validate", "pipeline", "choose", "tasks"} => Len(work.done) = work.at - 1 /\ work.at \in 1 .. Len(repository.defs)
    /\ Len(work.done) <= Len(repository.defs)
    /\ ~repository.remoteTasks => fetched.pipelines = Nothing /\ fetched.tasks = Nothing

\* The pipeline of a definition's annotation, the reference it is of, and the one that is used.
NoAnnotatedPipeline(d) == ~repository.remoteTasks \/ d.pipelines = <<>>
Annotated(d) == IF NoAnnotatedPipeline(d) THEN NoPipeline ELSE fetched.pipelines[d.pipelines[1]]
AnnotatedURL(d) == IF NoAnnotatedPipeline(d) THEN NoRef ELSE d.pipelines[1]
IsLocal(d) == Annotated(d).name # d.pipelineRef
PipelineOf(d) ==
    IF d.pipelineRef = NoName THEN NoPipeline
    ELSE IF IsLocal(d) THEN getPipelineByName(d.pipelineRef) ELSE Annotated(d)
HasItsPipeline(d) == repository.remoteTasks => Len(d.pipelines) <= 1 /\ ToSet(d.pipelines) \subseteq DOMAIN fetched.pipelines
IsChosen(d, p, url) ==
    /\ HasItsPipeline(d) /\ url = AnnotatedURL(d) /\ p = PipelineOf(d)
    /\ d.pipelineRef # NoName /\ IsLocal(d) => Named(repository.pipelines, d.pipelineRef) # {}

\* The task of a name, of own annotations, else of the pipeline's, else of the directory.
LocalTask(n) == repository.tasks[CHOOSE i \in Named(repository.tasks, n) : \A j \in Named(repository.tasks, n) : i <= j]
IsTheTask(t, n, own, others) ==
    \/ t \in Given(own, n)
    \/ Given(own, n) = {} /\ t \in Given(others, n)
    \/ Given(own, n) = {} /\ Given(others, n) = {} /\ Named(repository.tasks, n) # {} /\ t = LocalTask(n)

\* A definition is resolved from what its own references gave.
IsResolved(d, r) ==
    /\ IsChosen(d, r.pipeline, r.url)
    /\ repository.remoteTasks => RefsOf(d.annotations) \cup Assembled(r) \subseteq DOMAIN fetched.tasks
    /\ DOMAIN r.tasks = (IF d.pipelineRef = NoName THEN d.tasks ELSE r.pipeline.tasks) \ repository.skip
    /\ \A n \in DOMAIN r.tasks : IsTheTask(r.tasks[n], n, RefsOf(d.annotations), Assembled(r))
AllResolved == \A i \in 1 .. Len(work.done) : IsResolved(repository.defs[i], work.done[i])

\* The one at work has its pipeline, and its references are fetched in order: its own, then
\* the pipeline's, of each name the first.
Own == RefsOf(CurrentDef.annotations)
Others == Assembled(work)
Taken(r) == r \in DOMAIN fetched.tasks /\ fetched.tasks[r].name \in DOMAIN work.tasks
InOrder(k) ==
    /\ \A i \in 1 .. Len(work.todo) : work.todo[i] \in IF i <= k THEN Own ELSE Others
    /\ \A r \in Own : Taken(r) \/ \E i \in 1 .. k : work.todo[i] = r
    /\ \A r \in Others : Taken(r) \/ \E i \in k + 1 .. Len(work.todo) : work.todo[i] = r
    /\ \A n \in DOMAIN work.tasks :
          \/ work.tasks[n] \in Given(Own, n)
          \/ k = 0 /\ Given(Own, n) = {} /\ work.tasks[n] \in Given(Others, n)
AtWork ==
    /\ work.pc = "choose" =>
          HasItsPipeline(CurrentDef) /\ work.pipeline = Annotated(CurrentDef) /\ work.url = AnnotatedURL(CurrentDef)
    /\ work.pc = "tasks" =>
          /\ IsChosen(CurrentDef, work.pipeline, work.url)
          /\ IF repository.remoteTasks THEN \E k \in 0 .. Len(work.todo) : InOrder(k)
             ELSE work.todo = <<>> /\ work.tasks = Nothing

ResolutionInv == ResolutionOK /\ AllResolved /\ AtWork


\* The concatenations of the first sequences of a list.
Flattenings(S, ss, n) ==
    {f \in [1 .. n -> Seq(S)] :
        \A i \in 1 .. n : /\ f[i] = IF i = 1 THEN ss[i] ELSE f[i - 1] \o ss[i]
                          /\ ToSet(f[i]) = UNION {ToSet(ss[j]) : j \in 1 .. i}}

LEMMA FlatteningsExist ==
    ASSUME NEW S, NEW ss \in Seq(Seq(S)), NEW n \in 0 .. Len(ss)
    PROVE  Flattenings(S, ss, n) # {}
<1> SUFFICES ASSUME \E m \in 0 .. Len(ss) : Flattenings(S, ss, m) = {} PROVE FALSE
  OBVIOUS
<1> DEFINE T == {m \in 0 .. Len(ss) : Flattenings(S, ss, m) = {}}
<1>1. PICK m \in T : \A y \in T : m <= y
  <2>1. T \in SUBSET Nat /\ T # {}
    OBVIOUS
  <2> HIDE DEF T
  <2> QED
    BY <2>1, SmallestOne
<1>2. m # 0
  <2>1. [i \in 1 .. 0 |-> <<>>] \in Flattenings(S, ss, 0)
    BY DEF Flattenings
  <2> QED
    BY <2>1, <1>1
<1>3. Len(ss) \in Nat /\ m \in 1 .. Len(ss) /\ m - 1 \in Nat /\ m - 1 \notin T
  <2>1. Len(ss) \in Nat /\ m \in 0 .. Len(ss) /\ T \in SUBSET Nat
    BY <1>1
  <2> HIDE DEF T
  <2> QED
    BY <2>1, <1>1, <1>2
<1>4. PICK f : f \in Flattenings(S, ss, m - 1)
  BY <1>3
<1> DEFINE g == [i \in 1 .. m |-> IF i < m THEN f[i] ELSE IF i = 1 THEN ss[i] ELSE f[i - 1] \o ss[i]]
<1>5. /\ f \in [1 .. m - 1 -> Seq(S)]
      /\ \A i \in 1 .. m - 1 : f[i] = (IF i = 1 THEN ss[i] ELSE f[i - 1] \o ss[i]) /\ ToSet(f[i]) = UNION {ToSet(ss[j]) : j \in 1 .. i}
  BY <1>4 DEF Flattenings
<1>6. ss[m] \in Seq(S) /\ (m # 1 => f[m - 1] \in Seq(S) /\ m - 1 \in 1 .. m - 1)
  BY <1>3, <1>5
<1>7. g \in [1 .. m -> Seq(S)]
  BY <1>3, <1>5, <1>6
<1>8. ASSUME NEW i \in 1 .. m PROVE g[i] = IF i = 1 THEN ss[i] ELSE g[i - 1] \o ss[i]
  <2>1. i # 1 => g[i - 1] = f[i - 1]
    BY <1>3
  <2>2. CASE i < m
    <3>1. g[i] = f[i] /\ i \in 1 .. m - 1
      BY <1>3, <2>2
    <3> HIDE DEF g
    <3> QED
      BY <3>1, <2>1, <1>5
  <2>3. CASE ~(i < m)
    <3>1. g[i] = IF i = 1 THEN ss[i] ELSE f[i - 1] \o ss[i]
      BY <2>3
    <3> HIDE DEF g
    <3> QED
      BY <3>1, <2>1
  <2> QED
    BY <2>2, <2>3
<1>9. ToSet(g[m]) = UNION {ToSet(ss[j]) : j \in 1 .. m}
  <2>1. CASE m = 1
    <3>1. g[m] = ss[m]
      BY <1>3, <2>1
    <3> QED
      BY <3>1, <2>1
  <2>2. CASE m # 1
    <3>1. g[m] = f[m - 1] \o ss[m]
      <4>1. m \in 1 .. m /\ ~(m < m)
        BY <1>3
      <4> QED
        BY <4>1, <2>2
    <3>2. \A s, t \in Seq(S) : ToSet(s \o t) = ToSet(s) \cup ToSet(t)
      <4> SUFFICES ASSUME NEW s \in Seq(S), NEW t \in Seq(S) PROVE ToSet(s \o t) = ToSet(s) \cup ToSet(t)
        OBVIOUS
      <4>1. ToSet(s \o t) \subseteq ToSet(s) \cup ToSet(t)
        BY DEF ToSet
      <4>2. \A i \in DOMAIN s : i \in DOMAIN (s \o t) /\ (s \o t)[i] = s[i]
        OBVIOUS
      <4>3. \A i \in DOMAIN t : Len(s) + i \in DOMAIN (s \o t) /\ (s \o t)[Len(s) + i] = t[i]
        OBVIOUS
      <4> QED
        BY <4>1, <4>2, <4>3, ZenonT(30) DEF ToSet
    <3>3. ToSet(g[m]) = ToSet(f[m - 1]) \cup ToSet(ss[m])
      BY <3>1, <3>2, <1>6, <2>2
    <3>4. ToSet(f[m - 1]) = UNION {ToSet(ss[j]) : j \in 1 .. m - 1}
      BY <1>5, <1>6, <2>2
    <3>5. 1 .. m = (1 .. m - 1) \cup {m}
      BY <1>3
    <3> QED
      BY <3>3, <3>4, <3>5
  <2> QED
    BY <2>1, <2>2
<1>10. ASSUME NEW i \in 1 .. m PROVE ToSet(g[i]) = UNION {ToSet(ss[j]) : j \in 1 .. i}
  <2>1. CASE i = m
    BY <1>9, <2>1
  <2>2. CASE i # m
    <3>1. i \in 1 .. m - 1 /\ g[i] = f[i]
      BY <1>3, <2>2
    <3> QED
      BY <3>1, <1>5
  <2> QED
    BY <2>1, <2>2
<1>11. g \in Flattenings(S, ss, m)
  BY <1>7, <1>8, <1>10 DEF Flattenings
<1> QED
  BY <1>1, <1>11

\* A list of lists that is flattened has the elements of all of them.
LEMMA FlattenedElements ==
    ASSUME NEW S, NEW ss \in Seq(Seq(S))
    PROVE  FlattenSeq(ss) \in Seq(S) /\ ToSet(FlattenSeq(ss)) = UNION {ToSet(ss[j]) : j \in DOMAIN ss}
<1>1. CASE Len(ss) = 0
  <2>1. FlattenSeq(ss) = <<>> /\ DOMAIN ss = {}
    BY <1>1 DEF FlattenSeq
  <2> QED
    BY <2>1 DEF ToSet
<1>2. CASE Len(ss) # 0
  <2> DEFINE F(f) == f = [i \in 1 .. Len(ss) |-> IF i = 1 THEN ss[i] ELSE f[i - 1] \o ss[i]]
  <2> DEFINE h == CHOOSE f : F(f)
  <2>1. FlattenSeq(ss) = h[Len(ss)]
    BY <1>2 DEF FlattenSeq
  <2>2. PICK f : f \in Flattenings(S, ss, Len(ss))
    <3>1. Len(ss) \in 0 .. Len(ss)
      OBVIOUS
    <3> QED
      BY <3>1, FlatteningsExist
  <2>3. F(f)
    BY <2>2 DEF Flattenings
  <2>4. F(h)
    <3> HIDE DEF F
    <3> QED
      BY <2>3
  <2> HIDE DEF h
  <2>5. ASSUME NEW i \in 1 .. Len(ss), h[i] # f[i] PROVE FALSE
    <3> DEFINE T == {j \in 1 .. Len(ss) : h[j] # f[j]}
    <3>1. PICK j \in T : \A y \in T : j <= y
      <4>1. T \in SUBSET Nat /\ T # {}
        BY <2>5
      <4> HIDE DEF T
      <4> QED
        BY <4>1, SmallestOne
    <3>2. j \in 1 .. Len(ss) /\ h[j] # f[j] /\ (j # 1 => j - 1 \in 1 .. Len(ss) /\ j - 1 \notin T)
      <4>1. j \in 1 .. Len(ss) /\ h[j] # f[j] /\ j \in Nat /\ Len(ss) \in Nat /\ T \subseteq Nat
        BY <3>1
      <4> HIDE DEF T
      <4>2. j # 1 => j - 1 \in 1 .. Len(ss) /\ j - 1 \notin T
        BY <4>1, <3>1
      <4> QED
        BY <4>1, <4>2
    <3>3. h[j] = (IF j = 1 THEN ss[j] ELSE h[j - 1] \o ss[j]) /\ f[j] = (IF j = 1 THEN ss[j] ELSE f[j - 1] \o ss[j])
      BY <3>2, <2>3, <2>4
    <3> QED
      BY <3>2, <3>3
  <2>6. h[Len(ss)] = f[Len(ss)] /\ Len(ss) \in 1 .. Len(ss) /\ DOMAIN ss = 1 .. Len(ss)
    BY <2>5, <1>2
  <2>7. f[Len(ss)] \in Seq(S) /\ ToSet(f[Len(ss)]) = UNION {ToSet(ss[j]) : j \in 1 .. Len(ss)}
    BY <2>2, <2>6 DEF Flattenings
  <2> QED
    BY <2>1, <2>6, <2>7
<1> QED
  BY <1>1, <1>2

\* A list of all members of a finite set, in any order, has them all.
LEMMA ListedInAnyOrder ==
    ASSUME NEW A, IsFiniteSet(A), NEW s \in SetToSeqs(A)
    PROVE  s \in Seq(A) /\ ToSet(s) = A
<1> DEFINE D == 1 .. Cardinality(A)
<1>1. s \in [D -> A] /\ \A i, j \in D : i # j => s[i] # s[j]
  BY DEF SetToSeqs
<1>2. Cardinality(A) \in Nat
  BY FS_CardinalityType
<1>3. IsFiniteSet(D) /\ Cardinality(D) = Cardinality(A)
  BY <1>2, FS_Interval
<1>4. s \in Injection(D, A)
  BY <1>1 DEF Injection, IsInjective
<1>5. s \in Surjection(D, A)
  BY <1>3, <1>4, FS_Injection
<1>6. s \in Seq(A) /\ DOMAIN s = D
  BY <1>1, <1>2
<1> QED
  BY <1>5, <1>6 DEF Surjection, ToSet

LEMMA PartialFunctions ==
    ASSUME NEW D, NEW R
    PROVE  /\ \A f \in Partial(D, R) : DOMAIN f \subseteq D /\ f = [x \in DOMAIN f |-> f[x]] /\ \A x \in DOMAIN f : f[x] \in R
           /\ \A f : DOMAIN f \subseteq D /\ f = [x \in DOMAIN f |-> f[x]] /\ (\A x \in DOMAIN f : f[x] \in R) => f \in Partial(D, R)
           /\ Nothing \in Partial(D, R) /\ DOMAIN Nothing = {}
<1>1. ASSUME NEW f \in Partial(D, R) PROVE DOMAIN f \subseteq D /\ f = [x \in DOMAIN f |-> f[x]] /\ \A x \in DOMAIN f : f[x] \in R
  <2>1. PICK S \in SUBSET D : f \in [S -> R]
    BY DEF Partial
  <2> QED
    BY <2>1
<1>2. ASSUME NEW f, DOMAIN f \subseteq D, f = [x \in DOMAIN f |-> f[x]], \A x \in DOMAIN f : f[x] \in R PROVE f \in Partial(D, R)
  <2>1. f \in [DOMAIN f -> R] /\ DOMAIN f \in SUBSET D
    BY <1>2
  <2> QED
    BY <2>1 DEF Partial
<1>3. Nothing = [x \in {} |-> x]
  BY DEF Nothing
<1>4. DOMAIN Nothing = {} /\ Nothing = [x \in DOMAIN Nothing |-> Nothing[x]]
  BY <1>3
<1> QED
  BY <1>1, <1>2, <1>4

\* What is fetched, and what is kept of a name, with one entry more.
LEMMA MorePipelines ==
    ASSUME NEW f \in Partial(ReferenceRecord, PipelineRecord), NEW k \in ReferenceRecord, NEW x \in PipelineRecord
    PROVE  /\ Put(f, k, x) \in Partial(ReferenceRecord, PipelineRecord) /\ DOMAIN Put(f, k, x) = DOMAIN f \cup {k}
           /\ Put(f, k, x)[k] = x
           /\ \A j \in DOMAIN f : j # k => Put(f, k, x)[j] = f[j]
<1>1. DOMAIN f \subseteq ReferenceRecord /\ f = [y \in DOMAIN f |-> f[y]] /\ \A y \in DOMAIN f : f[y] \in PipelineRecord
  BY PartialFunctions
<1>2. Put(f, k, x) \in [DOMAIN f \cup {k} -> PipelineRecord] /\ DOMAIN f \cup {k} \in SUBSET ReferenceRecord
  BY <1>1 DEF Put
<1>3. Put(f, k, x) \in Partial(ReferenceRecord, PipelineRecord)
  BY <1>2 DEF Partial
<1> QED
  BY <1>1, <1>3 DEF Put

LEMMA MoreTasks ==
    ASSUME NEW f \in Partial(ReferenceRecord, TaskRecord), NEW k \in ReferenceRecord, NEW x \in TaskRecord
    PROVE  /\ Put(f, k, x) \in Partial(ReferenceRecord, TaskRecord) /\ DOMAIN Put(f, k, x) = DOMAIN f \cup {k}
           /\ Put(f, k, x)[k] = x
           /\ \A j \in DOMAIN f : j # k => Put(f, k, x)[j] = f[j]
<1>1. DOMAIN f \subseteq ReferenceRecord /\ f = [y \in DOMAIN f |-> f[y]] /\ \A y \in DOMAIN f : f[y] \in TaskRecord
  BY PartialFunctions
<1>2. Put(f, k, x) \in [DOMAIN f \cup {k} -> TaskRecord] /\ DOMAIN f \cup {k} \in SUBSET ReferenceRecord
  BY <1>1 DEF Put
<1>3. Put(f, k, x) \in Partial(ReferenceRecord, TaskRecord)
  BY <1>2 DEF Partial
<1> QED
  BY <1>1, <1>3 DEF Put

LEMMA MoreTaskNames ==
    ASSUME NEW f \in Partial(ResourceNames, TaskRecord), NEW k \in ResourceNames, NEW x \in TaskRecord
    PROVE  /\ KeepFirst(f, k, x) \in Partial(ResourceNames, TaskRecord) /\ DOMAIN KeepFirst(f, k, x) = DOMAIN f \cup {k}
           /\ \A j \in DOMAIN f : KeepFirst(f, k, x)[j] = f[j]
           /\ k \notin DOMAIN f => KeepFirst(f, k, x)[k] = x
<1>1. DOMAIN f \subseteq ResourceNames /\ f = [y \in DOMAIN f |-> f[y]] /\ \A y \in DOMAIN f : f[y] \in TaskRecord
  BY PartialFunctions
<1>2. KeepFirst(f, k, x) \in [DOMAIN f \cup {k} -> TaskRecord] /\ DOMAIN f \cup {k} \in SUBSET ResourceNames
  BY <1>1 DEF KeepFirst
<1>3. KeepFirst(f, k, x) \in Partial(ResourceNames, TaskRecord)
  BY <1>2 DEF Partial
<1> QED
  BY <1>1, <1>3 DEF KeepFirst

\* What was fetched stays as it was fetched.
Grows(c, n) == DOMAIN c \subseteq DOMAIN n /\ \A r \in DOMAIN c : n[r] = c[r]
FetchedStays == Grows(fetched.pipelines, fetched'.pipelines) /\ Grows(fetched.tasks, fetched'.tasks)

LEMMA GivenStays ==
    ASSUME FetchedStays, NEW refs, NEW n, refs \subseteq DOMAIN fetched.tasks \/ fetched'.tasks = fetched.tasks
    PROVE  Given(refs, n)' = Given(refs, n)
<1>1. CASE fetched'.tasks = fetched.tasks
  BY <1>1 DEF Given
<1>2. CASE refs \subseteq DOMAIN fetched.tasks
  <2>1. refs \cap DOMAIN fetched.tasks = refs /\ refs \cap DOMAIN fetched'.tasks = refs
    BY <1>2 DEF FetchedStays, Grows
  <2>2. \A r \in refs : fetched'.tasks[r] = fetched.tasks[r]
    BY <1>2 DEF FetchedStays, Grows
  <2> QED
    BY <2>1, <2>2 DEF Given
<1> QED
  BY <1>1, <1>2

LEMMA MoreIsGiven ==
    ASSUME FetchedStays, NEW refs, NEW n
    PROVE  Given(refs, n) \subseteq Given(refs, n)'
<1> SUFFICES ASSUME NEW t \in Given(refs, n) PROVE t \in Given(refs, n)'
  OBVIOUS
<1>1. PICK r \in refs \cap DOMAIN fetched.tasks : fetched.tasks[r].name = n /\ t = fetched.tasks[r]
  BY DEF Given
<1>2. r \in refs \cap DOMAIN fetched'.tasks /\ fetched'.tasks[r] = fetched.tasks[r]
  BY <1>1 DEF FetchedStays, Grows
<1> QED
  BY <1>1, <1>2 DEF Given

LEMMA ChosenStays ==
    ASSUME FetchedStays, repository' = repository, NEW d \in DefinitionRecord
    PROVE  /\ HasItsPipeline(d) =>
                HasItsPipeline(d)' /\ Annotated(d)' = Annotated(d) /\ AnnotatedURL(d)' = AnnotatedURL(d)
           /\ \A p, url : IsChosen(d, p, url) => IsChosen(d, p, url)'
<1>1. ASSUME HasItsPipeline(d)
      PROVE  HasItsPipeline(d)' /\ Annotated(d)' = Annotated(d) /\ AnnotatedURL(d)' = AnnotatedURL(d)
  <2>1. HasItsPipeline(d)'
    BY <1>1 DEF HasItsPipeline, FetchedStays, Grows
  <2>2. AnnotatedURL(d)' = AnnotatedURL(d) /\ NoAnnotatedPipeline(d)' = NoAnnotatedPipeline(d)
    BY DEF AnnotatedURL, NoAnnotatedPipeline
  <2>3. ~NoAnnotatedPipeline(d) => d.pipelines[1] \in DOMAIN fetched.pipelines
    <3> SUFFICES ASSUME ~NoAnnotatedPipeline(d) PROVE d.pipelines[1] \in DOMAIN fetched.pipelines
      OBVIOUS
    <3>1. d.pipelines \in Seq(ReferenceRecord) /\ d.pipelines # <<>>
      BY DEF DefinitionRecord, NoAnnotatedPipeline
    <3>2. 1 \in DOMAIN d.pipelines
      BY <3>1
    <3> QED
      BY <3>2, <1>1 DEF HasItsPipeline, NoAnnotatedPipeline, ToSet
  <2>4. Annotated(d)' = Annotated(d)
    BY <2>2, <2>3 DEF Annotated, FetchedStays, Grows
  <2> QED
    BY <2>1, <2>2, <2>4
<1>2. ASSUME NEW p, NEW url, IsChosen(d, p, url) PROVE IsChosen(d, p, url)'
  <2>1. HasItsPipeline(d)
    BY <1>2 DEF IsChosen
  <2>2. HasItsPipeline(d)' /\ Annotated(d)' = Annotated(d) /\ AnnotatedURL(d)' = AnnotatedURL(d)
    BY <2>1, <1>1
  <2>3. PipelineOf(d)' = PipelineOf(d) /\ (IsLocal(d) <=> IsLocal(d)')
    BY <2>2 DEF PipelineOf, IsLocal, getPipelineByName, Named
  <2> QED
    BY <1>2, <2>2, <2>3 DEF IsChosen, Named
<1> QED
  BY <1>1, <1>2

LEMMA TheDefinitions ==
    ASSUME ResolutionOK
    PROVE  /\ repository.defs \in Seq(DefinitionRecord) /\ repository.remoteTasks \in BOOLEAN
           /\ work.done \in Seq(ResolvedRecord) /\ work.at \in Nat /\ work.todo \in Seq(ReferenceRecord)
           /\ \A i \in 1 .. Len(work.done) : repository.defs[i] \in DefinitionRecord
           /\ work.pc \in {"validate", "pipeline", "choose", "tasks"} => CurrentDef \in DefinitionRecord
           /\ work.tasks \in Partial(ResourceNames, TaskRecord)
           /\ fetched.tasks \in Partial(ReferenceRecord, TaskRecord) /\ fetched.pipelines \in Partial(ReferenceRecord, PipelineRecord)
<1>1. repository.defs \in Seq(DefinitionRecord) /\ repository.remoteTasks \in BOOLEAN
  BY DEF ResolutionOK, RepositoryRecord
<1>2. /\ work.done \in Seq(ResolvedRecord) /\ work.at \in Nat /\ work.todo \in Seq(ReferenceRecord)
      /\ work.tasks \in Partial(ResourceNames, TaskRecord)
  BY DEF ResolutionOK, WorkRecord
<1>3. fetched.tasks \in Partial(ReferenceRecord, TaskRecord) /\ fetched.pipelines \in Partial(ReferenceRecord, PipelineRecord)
  BY DEF ResolutionOK, FetchedRecord
<1>4. Len(work.done) <= Len(repository.defs) /\ Len(work.done) \in Nat /\ Len(repository.defs) \in Nat
  BY <1>1, <1>2 DEF ResolutionOK
<1>5. \A i \in 1 .. Len(repository.defs) : repository.defs[i] \in DefinitionRecord
  BY <1>1
<1>6. work.pc \in {"validate", "pipeline", "choose", "tasks"} => work.at \in 1 .. Len(repository.defs)
  BY DEF ResolutionOK
<1> QED
  BY <1>1, <1>2, <1>3, <1>4, <1>5, <1>6 DEF CurrentDef

LEMMA ResolvedStays ==
    ASSUME ResolutionOK, ResolutionOK', FetchedStays, repository' = repository, NEW d \in DefinitionRecord, NEW r, IsResolved(d, r)
    PROVE  IsResolved(d, r)'
<1>1. IsChosen(d, r.pipeline, r.url)'
  BY ChosenStays DEF IsResolved
<1> DEFINE refs == RefsOf(d.annotations) \cup Assembled(r)
<1>2. refs \subseteq DOMAIN fetched.tasks \/ fetched'.tasks = fetched.tasks
  BY DEF IsResolved, ResolutionOK
<1>3. repository.remoteTasks => refs \subseteq DOMAIN fetched'.tasks
  BY DEF IsResolved, FetchedStays, Grows
<1>4. \A n : /\ Given(RefsOf(d.annotations), n)' = Given(RefsOf(d.annotations), n)
             /\ Given(Assembled(r), n)' = Given(Assembled(r), n)
  <2> SUFFICES ASSUME NEW n
               PROVE  /\ Given(RefsOf(d.annotations), n)' = Given(RefsOf(d.annotations), n)
                      /\ Given(Assembled(r), n)' = Given(Assembled(r), n)
    OBVIOUS
  <2>1. \A s : s \subseteq refs => Given(s, n)' = Given(s, n)
    BY <1>2, GivenStays
  <2> QED
    BY <2>1
<1>5. \A n, t : IsTheTask(t, n, RefsOf(d.annotations), Assembled(r)) => IsTheTask(t, n, RefsOf(d.annotations), Assembled(r))'
  BY <1>4 DEF IsTheTask, LocalTask, Named
<1>6. (RefsOf(d.annotations))' = RefsOf(d.annotations) /\ (Assembled(r))' = Assembled(r)
  BY DEF RefsOf, Assembled, assembleTaskFQDNs
<1> QED
  BY <1>1, <1>3, <1>5 DEF IsResolved

LEMMA AllResolvedStays ==
    ASSUME ResolutionOK, ResolutionOK', FetchedStays, repository' = repository, AllResolved, work'.done = work.done
    PROVE  AllResolved'
<1> SUFFICES ASSUME NEW i \in 1 .. Len(work.done) PROVE IsResolved(repository.defs[i], work.done[i])'
  BY DEF AllResolved
<1>1. PICK d, r : d = repository.defs[i] /\ r = work.done[i]
  OBVIOUS
<1>2. d \in DefinitionRecord /\ IsResolved(d, r)
  BY <1>1, TheDefinitions DEF AllResolved
<1>3. IsResolved(d, r)'
  BY <1>2, ResolvedStays
<1>4. d = repository'.defs[i] /\ r = work'.done[i]
  BY <1>1
<1> QED
  BY <1>3, <1>4

LEMMA InitResolutionInv == ResolutionInit => ResolutionInv
<1> SUFFICES ASSUME NEW r \in RepositoryRecord, NEW w \in FetchedRecord, InitResolution(r, w) PROVE ResolutionInv
  BY DEF ResolutionInit
<1>1. repository = r /\ remote = w /\ fetched = [pipelines |-> Nothing, tasks |-> Nothing] /\ work = [NoWork EXCEPT !.pc = "validate", !.at = 1]
  BY DEF InitResolution
<1>2. /\ Nothing \in Partial(ReferenceRecord, PipelineRecord) /\ Nothing \in Partial(ReferenceRecord, TaskRecord)
      /\ Nothing \in Partial(ResourceNames, TaskRecord)
  BY PartialFunctions
<1>3. NoPipeline \in PipelineRecord /\ NoRef \in ReferenceRecord
  <2>1. {} \in AnnotationValues
    BY FS_EmptySet DEF AnnotationValues
  <2> QED
    BY <2>1 DEF NoPipeline, Pipeline, PipelineRecord, NoRef, Ref, ReferenceRecord, AnyName
<1>4. work = [pc |-> "validate", at |-> 1, pipeline |-> NoPipeline, url |-> NoRef, todo |-> <<>>, tasks |-> Nothing, done |-> <<>>]
  BY <1>1 DEF NoWork
<1>5. work \in WorkRecord
  <2>1. <<>> \in Seq(ReferenceRecord) /\ <<>> \in Seq(ResolvedRecord) /\ 1 \in Nat \ {0}
    OBVIOUS
  <2> QED
    BY <1>2, <1>3, <1>4, <2>1 DEF WorkRecord
<1>6. r.defs \in Seq(DefinitionRecord) /\ Len(r.defs) \in Nat \ {0}
  BY DEF RepositoryRecord
<1>7. ResolutionOK
  <2>1. work.pc = "validate" /\ work.at = 1 /\ Len(work.done) = 0 /\ Len(work.done) = work.at - 1
    BY <1>4
  <2>2. fetched.pipelines = Nothing /\ fetched.tasks = Nothing
    BY <1>1
  <2>3. work.at \in 1 .. Len(repository.defs) /\ Len(work.done) <= Len(repository.defs)
    BY <1>1, <1>6, <2>1
  <2>4. fetched \in FetchedRecord
    BY <1>1, <1>2 DEF FetchedRecord
  <2> QED
    BY <1>1, <1>5, <2>1, <2>2, <2>3, <2>4 DEF ResolutionOK
<1>8. AllResolved /\ AtWork
  BY <1>4 DEF AllResolved, AtWork
<1> QED
  BY <1>7, <1>8 DEF ResolutionInv

LEMMA NothingLost ==
    ASSUME fetched' = fetched
    PROVE  FetchedStays
BY DEF FetchedStays, Grows

\* When only what the references name changes, all stays.
LEMMA OthersChange ==
    ASSUME ResolutionInv, remote' \in FetchedRecord, UNCHANGED <<repository, fetched, work>>
    PROVE  ResolutionInv'
<1>1. ResolutionOK'
  BY DEF ResolutionInv, ResolutionOK
<1>2. AllResolved'
  BY <1>1, AllResolvedStays, NothingLost DEF ResolutionInv
<1>3. CurrentDef' = CurrentDef /\ Own' = Own /\ Others' = Others
  BY DEF CurrentDef, Own, Others, RefsOf, Assembled, assembleTaskFQDNs
<1>4. AtWork'
  <2>1. \A d : /\ HasItsPipeline(d) => HasItsPipeline(d)'
               /\ Annotated(d)' = Annotated(d) /\ AnnotatedURL(d)' = AnnotatedURL(d)
    BY DEF HasItsPipeline, Annotated, AnnotatedURL, NoAnnotatedPipeline
  <2>2. \A d, p, url : IsChosen(d, p, url) => IsChosen(d, p, url)'
    BY DEF IsChosen, HasItsPipeline, Annotated, AnnotatedURL, NoAnnotatedPipeline, PipelineOf, IsLocal, Named, getPipelineByName
  <2>3. \A k : InOrder(k) => InOrder(k)'
    <3>1. \A n : Given(Own, n)' = Given(Own, n) /\ Given(Others, n)' = Given(Others, n)
      BY <1>3 DEF Given
    <3>2. \A r : Taken(r)' <=> Taken(r)
      BY DEF Taken
    <3>3. work' = work
      OBVIOUS
    <3> QED
      BY <1>3, <3>1, <3>2, <3>3 DEF InOrder
  <2>4. ASSUME work.pc = "choose"
        PROVE  HasItsPipeline(CurrentDef)' /\ (work.pipeline = Annotated(CurrentDef))' /\ (work.url = AnnotatedURL(CurrentDef))'
    <3>1. PICK d : d = CurrentDef
      OBVIOUS
    <3>2. HasItsPipeline(d) /\ work.pipeline = Annotated(d) /\ work.url = AnnotatedURL(d)
      BY <2>4, <3>1 DEF ResolutionInv, AtWork
    <3>3. HasItsPipeline(d)' /\ work'.pipeline = Annotated(d)' /\ work'.url = AnnotatedURL(d)'
      BY <2>1, <3>2
    <3> QED
      BY <3>1, <3>3, <1>3
  <2>5. ASSUME work.pc = "tasks" PROVE IsChosen(CurrentDef, work.pipeline, work.url)'
    <3>1. PICK d, p, url : d = CurrentDef /\ p = work.pipeline /\ url = work.url
      OBVIOUS
    <3>2. IsChosen(d, p, url)
      BY <2>5, <3>1 DEF ResolutionInv, AtWork
    <3>3. IsChosen(d, p, url)'
      BY <2>2, <3>2
    <3> QED
      BY <3>1, <3>3, <1>3
  <2>6. ASSUME work.pc = "tasks"
        PROVE  (IF repository.remoteTasks THEN \E k \in 0 .. Len(work.todo) : InOrder(k) ELSE work.todo = <<>> /\ work.tasks = Nothing)'
    BY <2>3, <2>6 DEF ResolutionInv, AtWork
  <2> QED
    BY <2>4, <2>5, <2>6 DEF AtWork
<1> QED
  BY <1>1, <1>2, <1>4 DEF ResolutionInv

\* The resolution ends for all of them.
LEMMA AllFail ==
    ASSUME ResolutionInv, ResolutionFails, UNCHANGED <<repository, remote, fetched>>
    PROVE  ResolutionInv'
<1>1. work' = [work EXCEPT !.pc = "failed", !.done = <<>>] /\ work \in WorkRecord
  BY DEF ResolutionFails, ResolutionInv, ResolutionOK
<1>2. work'.pc = "failed" /\ work'.done = <<>> /\ work' \in WorkRecord
  <2>1. <<>> \in Seq(ResolvedRecord)
    OBVIOUS
  <2> QED
    BY <1>1, <2>1 DEF WorkRecord
<1>3. ResolutionOK'
  <2>1. repository.defs \in Seq(DefinitionRecord)
    BY TheDefinitions DEF ResolutionInv
  <2>2. Len(work'.done) <= Len(repository.defs)
    BY <1>2, <2>1
  <2> QED
    BY <1>2, <2>2 DEF ResolutionInv, ResolutionOK
<1> QED
  BY <1>2, <1>3 DEF ResolutionInv, AllResolved, AtWork

LEMMA MetadataResolveInv == ASSUME ResolutionInv, MetadataResolve PROVE ResolutionInv'
<1>1. CASE ResolutionFails
  BY <1>1, AllFail DEF MetadataResolve
<1>2. CASE work' = [work EXCEPT !.pc = "pipeline"]
  <2>1. work \in WorkRecord /\ work.pc = "validate" /\ UNCHANGED <<repository, remote, fetched>>
    BY DEF MetadataResolve, ResolutionInv, ResolutionOK
  <2>2. work'.pc = "pipeline" /\ work'.done = work.done /\ work'.at = work.at /\ work' \in WorkRecord
    BY <1>2, <2>1 DEF WorkRecord
  <2>3. ResolutionOK'
    BY <2>1, <2>2 DEF ResolutionInv, ResolutionOK
  <2>4. AllResolved'
    BY <2>1, <2>2, <2>3, AllResolvedStays, NothingLost DEF ResolutionInv
  <2> QED
    BY <2>2, <2>3, <2>4 DEF ResolutionInv, AtWork
<1> QED
  BY <1>1, <1>2 DEF MetadataResolve

\* The pipeline of the annotation, if there is one, and its reference.
LEMMA Choosing ==
    ASSUME ResolutionInv, work.pc = "pipeline", repository' = repository, remote' = remote,
           NEW p \in PipelineRecord, NEW url \in ReferenceRecord,
           work' = [work EXCEPT !.pc = "choose", !.pipeline = p, !.url = url],
           fetched' = fetched \/ repository.remoteTasks,
           fetched' \in FetchedRecord,
           FetchedStays, HasItsPipeline(CurrentDef)', p = Annotated(CurrentDef)', url = AnnotatedURL(CurrentDef)'
    PROVE  ResolutionInv'
<1>1. work \in WorkRecord
  BY DEF ResolutionInv, ResolutionOK
<1>2. /\ work'.pc = "choose" /\ work'.done = work.done /\ work'.at = work.at /\ work' \in WorkRecord
      /\ work'.pipeline = p /\ work'.url = url
  BY <1>1 DEF WorkRecord
<1>3. ResolutionOK'
  BY <1>2 DEF ResolutionInv, ResolutionOK
<1>4. AllResolved'
  BY <1>2, <1>3, AllResolvedStays DEF ResolutionInv
<1>5. AtWork'
  BY <1>2 DEF AtWork
<1> QED
  BY <1>3, <1>4, <1>5 DEF ResolutionInv

LEMMA TakePipelineInv == ASSUME ResolutionInv, TakePipeline PROVE ResolutionInv'
<1>1. CASE ResolutionFails /\ UNCHANGED fetched
  BY <1>1, AllFail DEF TakePipeline
<1>0. PICK d : d = CurrentDef
  OBVIOUS
<1>2. /\ work.pc = "pipeline" /\ repository' = repository /\ remote' = remote
      /\ d \in DefinitionRecord /\ d.pipelines \in Seq(ReferenceRecord)
  BY <1>0, TheDefinitions DEF TakePipeline, ResolutionInv, DefinitionRecord
<1>3. /\ fetched \in FetchedRecord
      /\ fetched.pipelines \in Partial(ReferenceRecord, PipelineRecord)
      /\ repository.remoteTasks \in BOOLEAN
  BY TheDefinitions DEF ResolutionInv, ResolutionOK
<1>4. ASSUME ~(ResolutionFails /\ UNCHANGED fetched) PROVE CurrentDef' = CurrentDef
  <2>1. \E p, url : work' = [work EXCEPT !.pc = "choose", !.pipeline = p, !.url = url]
    BY <1>4 DEF TakePipeline, RemotePipeline
  <2>2. work'.at = work.at
    BY <2>1 DEF ResolutionInv, ResolutionOK, WorkRecord
  <2> QED
    BY <2>2, <1>2 DEF CurrentDef
<1>5. CASE (~repository.remoteTasks \/ d.pipelines = <<>>) /\ ~(ResolutionFails /\ UNCHANGED fetched)
  <2>1. /\ work' = [work EXCEPT !.pc = "choose", !.pipeline = NoPipeline, !.url = NoRef] /\ UNCHANGED fetched
    BY <1>0, <1>5, <1>2 DEF TakePipeline
  <2>2. NoPipeline \in PipelineRecord /\ NoRef \in ReferenceRecord
    <3>1. {} \in AnnotationValues
      BY FS_EmptySet DEF AnnotationValues
    <3> QED
      BY <3>1 DEF NoPipeline, Pipeline, PipelineRecord, NoRef, Ref, ReferenceRecord, AnyName
  <2>3. CurrentDef' = d
    BY <1>0, <1>4, <1>5
  <2>4. HasItsPipeline(CurrentDef)' /\ NoPipeline = Annotated(CurrentDef)' /\ NoRef = AnnotatedURL(CurrentDef)'
    BY <1>2, <1>5, <2>3 DEF HasItsPipeline, Annotated, AnnotatedURL, NoAnnotatedPipeline, ToSet
  <2> QED
    BY <1>2, <1>3, <2>1, <2>2, <2>4, Choosing, NothingLost
<1>6. CASE repository.remoteTasks /\ d.pipelines # <<>> /\ ~(ResolutionFails /\ UNCHANGED fetched)
  <2> DEFINE r == d.pipelines[1]
  <2>1. /\ Len(d.pipelines) = 1
        /\ \/ /\ Known(fetched.pipelines, r)
              /\ RemotePipeline(r, fetched.pipelines[r]) /\ UNCHANGED fetched
           \/ /\ ~Known(fetched.pipelines, r) /\ r \in DOMAIN remote.pipelines
              /\ RemotePipeline(r, remote.pipelines[r])
              /\ fetched' = [fetched EXCEPT !.pipelines = Put(@, r, remote.pipelines[r])]
    BY <1>0, <1>6, <1>2 DEF TakePipeline
  <2>2. r \in ReferenceRecord /\ ToSet(d.pipelines) = {r}
    BY <1>2, <2>1 DEF ToSet
  <2> HIDE DEF r
  <2>3. r \in DOMAIN remote.pipelines => remote.pipelines[r] \in PipelineRecord
    <3>1. remote.pipelines \in Partial(ReferenceRecord, PipelineRecord)
      BY DEF ResolutionInv, ResolutionOK, FetchedRecord
    <3> QED
      BY <3>1, PartialFunctions
  <2>4. /\ fetched' \in FetchedRecord
        /\ FetchedStays /\ r \in DOMAIN fetched'.pipelines
        /\ RemotePipeline(r, fetched'.pipelines[r]) /\ fetched'.pipelines[r] \in PipelineRecord
    <3>1. CASE Known(fetched.pipelines, r) /\ RemotePipeline(r, fetched.pipelines[r]) /\ UNCHANGED fetched
      BY <1>3, <3>1, NothingLost, PartialFunctions DEF Known
    <3>2. CASE /\ ~Known(fetched.pipelines, r) /\ r \in DOMAIN remote.pipelines
               /\ RemotePipeline(r, remote.pipelines[r])
               /\ fetched' = [fetched EXCEPT !.pipelines = Put(@, r, remote.pipelines[r])]
      <4>1. fetched'.pipelines = Put(fetched.pipelines, r, remote.pipelines[r]) /\ fetched'.tasks = fetched.tasks
        BY <1>3, <3>2
      <4>2. /\ Put(fetched.pipelines, r, remote.pipelines[r]) \in Partial(ReferenceRecord, PipelineRecord)
            /\ DOMAIN Put(fetched.pipelines, r, remote.pipelines[r]) = DOMAIN fetched.pipelines \cup {r}
            /\ Put(fetched.pipelines, r, remote.pipelines[r])[r] = remote.pipelines[r]
            /\ \A j \in DOMAIN fetched.pipelines : j # r => Put(fetched.pipelines, r, remote.pipelines[r])[j] = fetched.pipelines[j]
        <5>1. PICK c, x : c = fetched.pipelines /\ x = remote.pipelines[r]
          OBVIOUS
        <5>2. c \in Partial(ReferenceRecord, PipelineRecord) /\ x \in PipelineRecord
          BY <1>3, <2>3, <3>2, <5>1
        <5>3. /\ Put(c, r, x) \in Partial(ReferenceRecord, PipelineRecord)
              /\ DOMAIN Put(c, r, x) = DOMAIN c \cup {r} /\ Put(c, r, x)[r] = x
              /\ \A j \in DOMAIN c : j # r => Put(c, r, x)[j] = c[j]
          BY ONLY <2>2, <5>2, MorePipelines
        <5> QED
          BY <5>1, <5>3
      <4>3. fetched' \in FetchedRecord
        BY <1>3, <3>2, <4>2 DEF FetchedRecord
      <4>4. FetchedStays
        BY <4>1, <4>2, <3>2 DEF FetchedStays, Grows, Known
      <4> QED
        BY <4>1, <4>2, <4>3, <4>4, <3>2, <2>3
    <3> QED
      BY <2>1, <3>1, <3>2
  <2>5. CurrentDef' = d
    BY <1>0, <1>4, <1>6
  <2>6. HasItsPipeline(CurrentDef)' /\ fetched'.pipelines[r] = Annotated(CurrentDef)' /\ r = AnnotatedURL(CurrentDef)'
    <3>1. repository'.remoteTasks /\ d.pipelines # <<>>
      BY <1>2, <1>6
    <3>2. ~NoAnnotatedPipeline(d)'
      BY <3>1 DEF NoAnnotatedPipeline
    <3>3. Annotated(d)' = fetched'.pipelines[r] /\ AnnotatedURL(d)' = r
      BY <3>2 DEF Annotated, AnnotatedURL, r
    <3>4. HasItsPipeline(d)'
      BY <2>1, <2>2, <2>4 DEF HasItsPipeline
    <3> QED
      BY <2>5, <3>3, <3>4
  <2>7. work' = [work EXCEPT !.pc = "choose", !.pipeline = fetched'.pipelines[r], !.url = r]
    BY <2>4 DEF RemotePipeline
  <2> QED
    BY <1>2, <1>3, <1>6, <2>2, <2>4, <2>6, <2>7, Choosing
<1> QED
  BY <1>1, <1>3, <1>5, <1>6

\* The references of all values of the annotations, in any order of these.
LEMMA GrabbedTasks ==
    ASSUME NEW A \in AnnotationValues, NEW s \in GrabTasksFromAnnotations(A)
    PROVE  s \in Seq(ReferenceRecord) /\ ToSet(s) = RefsOf(A)
<1>1. PICK ss \in SetToSeqs(A) : s = FlattenSeq(ss)
  BY DEF GrabTasksFromAnnotations
<1>2. IsFiniteSet(A) /\ A \subseteq Seq(ReferenceRecord)
  BY DEF AnnotationValues
<1>3. ss \in Seq(A) /\ ToSet(ss) = A
  BY <1>2, ListedInAnyOrder
<1>4. ss \in Seq(Seq(ReferenceRecord))
  BY <1>2, <1>3
<1>5. s \in Seq(ReferenceRecord) /\ ToSet(s) = UNION {ToSet(ss[j]) : j \in DOMAIN ss}
  BY <1>1, <1>4, FlattenedElements
<1>6. {ToSet(ss[j]) : j \in DOMAIN ss} = {ToSet(x) : x \in A}
  BY <1>3 DEF ToSet
<1> QED
  BY <1>5, <1>6 DEF RefsOf

\* One reference below a pipeline.
Below(url, x) ==
    IF url.kind \notin {"url", "path"} \/ x.kind = "url" THEN x ELSE [x EXCEPT !.kind = url.kind, !.base = url.name]

LEMMA AssembledOneByOne ==
    ASSUME NEW url \in ReferenceRecord, NEW s \in Seq(ReferenceRecord)
    PROVE  /\ assembleTaskFQDNs(url, s) \in Seq(ReferenceRecord)
           /\ ToSet(assembleTaskFQDNs(url, s)) = {Below(url, x) : x \in ToSet(s)}
<1>1. ASSUME NEW x \in ReferenceRecord PROVE Below(url, x) \in ReferenceRecord
  <2>1. CASE url.kind \notin {"url", "path"} \/ x.kind = "url"
    BY <2>1 DEF Below
  <2>2. CASE ~(url.kind \notin {"url", "path"} \/ x.kind = "url")
    <3>1. Below(url, x) = [x EXCEPT !.kind = url.kind, !.base = url.name]
      BY <2>2 DEF Below
    <3>2. url.kind \in {"url", "path", "name", "catalog", "none"} /\ url.name \in AnyName
      BY DEF ReferenceRecord
    <3> QED
      BY <3>1, <3>2 DEF ReferenceRecord
  <2> QED
    BY <2>1, <2>2
<1>2. assembleTaskFQDNs(url, s) = [i \in 1 .. Len(s) |-> Below(url, s[i])]
  <2>1. DOMAIN s = 1 .. Len(s) /\ s = [i \in 1 .. Len(s) |-> s[i]]
    OBVIOUS
  <2>2. CASE url.kind \notin {"url", "path"}
    BY <2>1, <2>2 DEF assembleTaskFQDNs, Below
  <2>3. CASE url.kind \in {"url", "path"}
    BY <2>1, <2>3 DEF assembleTaskFQDNs, Below
  <2> QED
    BY <2>2, <2>3
<1>3. \A i \in 1 .. Len(s) : s[i] \in ReferenceRecord
  OBVIOUS
<1>4. assembleTaskFQDNs(url, s) \in [1 .. Len(s) -> ReferenceRecord] /\ Len(s) \in Nat
  BY <1>1, <1>2, <1>3
<1>5. assembleTaskFQDNs(url, s) \in Seq(ReferenceRecord)
  BY <1>4
<1> HIDE DEF Below
<1>6. ToSet(assembleTaskFQDNs(url, s)) = {Below(url, s[i]) : i \in 1 .. Len(s)}
  BY <1>2 DEF ToSet
<1>7. {Below(url, s[i]) : i \in 1 .. Len(s)} = {Below(url, x) : x \in ToSet(s)}
  BY DEF ToSet
<1> QED
  BY <1>5, <1>6, <1>7

LEMMA AssembledTogether ==
    ASSUME NEW url \in ReferenceRecord, NEW A \in AnnotationValues, NEW s \in GrabTasksFromAnnotations(A)
    PROVE  /\ assembleTaskFQDNs(url, s) \in Seq(ReferenceRecord)
           /\ ToSet(assembleTaskFQDNs(url, s)) = UNION {ToSet(assembleTaskFQDNs(url, x)) : x \in A}
<1>1. s \in Seq(ReferenceRecord) /\ ToSet(s) = UNION {ToSet(x) : x \in A}
  BY GrabbedTasks DEF RefsOf
<1>2. A \subseteq Seq(ReferenceRecord)
  BY DEF AnnotationValues
<1>3. /\ assembleTaskFQDNs(url, s) \in Seq(ReferenceRecord)
      /\ ToSet(assembleTaskFQDNs(url, s)) = {Below(url, r) : r \in ToSet(s)}
      /\ \A x \in A : ToSet(assembleTaskFQDNs(url, x)) = {Below(url, r) : r \in ToSet(x)}
  BY <1>1, <1>2, AssembledOneByOne
<1>4. {Below(url, r) : r \in ToSet(s)} = UNION {{Below(url, r) : r \in ToSet(x)} : x \in A}
  BY <1>1
<1>5. {ToSet(assembleTaskFQDNs(url, x)) : x \in A} = {{Below(url, r) : r \in ToSet(x)} : x \in A}
  BY <1>3
<1> QED
  BY <1>3, <1>4, <1>5

\* With its pipeline chosen, a definition has its references to fetch in order.
LEMMA FetchingBegins ==
    ASSUME ResolutionInv, work.pc = "choose", UNCHANGED <<repository, remote, fetched>>,
           NEW p \in PipelineRecord, IsChosen(CurrentDef, p, work.url), ToFetch(p)
    PROVE  ResolutionInv'
<1>0. PICK d, u : d = CurrentDef /\ u = work.url
  OBVIOUS
<1>1. /\ work \in WorkRecord /\ u \in ReferenceRecord /\ d \in DefinitionRecord /\ d.annotations \in AnnotationValues
      /\ p.annotations \in AnnotationValues /\ repository.remoteTasks \in BOOLEAN
  BY <1>0, TheDefinitions DEF ResolutionInv, ResolutionOK, WorkRecord, DefinitionRecord, PipelineRecord
<1>2. PICK own \in GrabTasksFromAnnotations(d.annotations), others \in GrabTasksFromAnnotations(p.annotations) :
        work' = [work EXCEPT !.pc = "tasks", !.pipeline = p, !.tasks = Nothing,
                     !.todo = IF repository.remoteTasks THEN own \o assembleTaskFQDNs(u, others) ELSE <<>>]
  BY <1>0 DEF ToFetch
<1> DEFINE more == assembleTaskFQDNs(u, others)
<1>3. /\ own \in Seq(ReferenceRecord) /\ ToSet(own) = RefsOf(d.annotations)
      /\ more \in Seq(ReferenceRecord) /\ ToSet(more) = UNION {ToSet(assembleTaskFQDNs(u, x)) : x \in p.annotations}
  BY <1>1, GrabbedTasks, AssembledTogether
<1> HIDE DEF more
<1>4. PICK todo \in Seq(ReferenceRecord) : todo = IF repository.remoteTasks THEN own \o more ELSE <<>>
  <2>1. own \o more \in Seq(ReferenceRecord) /\ <<>> \in Seq(ReferenceRecord)
    BY <1>3
  <2> QED
    BY <2>1
<1>5. Nothing \in Partial(ResourceNames, TaskRecord) /\ DOMAIN Nothing = {}
  BY PartialFunctions
<1>6. work' = [work EXCEPT !.pc = "tasks", !.pipeline = p, !.tasks = Nothing, !.todo = todo]
  BY <1>2, <1>4 DEF more
<1>7. /\ work' \in WorkRecord /\ work'.pc = "tasks" /\ work'.pipeline = p /\ work'.tasks = Nothing /\ work'.todo = todo
      /\ work'.at = work.at /\ work'.done = work.done /\ work'.url = u
  BY <1>0, <1>1, <1>4, <1>5, <1>6 DEF WorkRecord
<1>8. ResolutionOK'
  BY <1>7 DEF ResolutionInv, ResolutionOK
<1>9. AllResolved'
  BY <1>7, <1>8, AllResolvedStays, NothingLost DEF ResolutionInv
<1>10. CurrentDef' = d
  BY <1>0, <1>7 DEF CurrentDef
<1>11. Own' = ToSet(own) /\ Others' = ToSet(more)
  BY <1>3, <1>7, <1>10 DEF Own, Others, Assembled, RefsOf
<1>12. IsChosen(CurrentDef, work.pipeline, work.url)'
  <2>1. IsChosen(d, p, u)
    BY <1>0
  <2>2. IsChosen(d, p, u)'
    BY <2>1, <1>1, ChosenStays, NothingLost
  <2> QED
    BY <2>2, <1>7, <1>10
<1>13. ASSUME repository.remoteTasks PROVE Len(own) \in 0 .. Len(work'.todo) /\ InOrder(Len(own))'
  <2>1. work'.todo = own \o more
    BY <1>4, <1>7, <1>13
  <2>2. /\ Len(own \o more) = Len(own) + Len(more) /\ Len(own) \in Nat /\ Len(more) \in Nat
        /\ \A i \in 1 .. Len(own) : (own \o more)[i] = own[i]
        /\ \A i \in 1 .. Len(more) : (own \o more)[Len(own) + i] = more[i]
    BY <1>3
  <2>3. ASSUME NEW i \in 1 .. Len(work'.todo) PROVE work'.todo[i] \in IF i <= Len(own) THEN ToSet(own) ELSE ToSet(more)
    <3>1. CASE i <= Len(own)
      <4>1. i \in 1 .. Len(own) /\ own[i] \in ToSet(own)
        BY <1>3, <2>2, <3>1 DEF ToSet
      <4> QED
        BY <3>1, <4>1, <2>1, <2>2
    <3>2. CASE ~(i <= Len(own))
      <4>1. i - Len(own) \in 1 .. Len(more) /\ i = Len(own) + (i - Len(own))
        BY <2>1, <2>2, <3>2
      <4>2. more[i - Len(own)] \in ToSet(more)
        BY <1>3, <4>1 DEF ToSet
      <4> QED
        BY <3>2, <4>1, <4>2, <2>1, <2>2
    <3> QED
      BY <3>1, <3>2
  <2>4. ASSUME NEW r \in ToSet(own) PROVE \E i \in 1 .. Len(own) : work'.todo[i] = r
    <3>1. PICK i \in 1 .. Len(own) : own[i] = r
      BY <1>3 DEF ToSet
    <3> QED
      BY <3>1, <2>1, <2>2
  <2>5. ASSUME NEW r \in ToSet(more) PROVE \E i \in Len(own) + 1 .. Len(work'.todo) : work'.todo[i] = r
    <3>1. PICK i \in 1 .. Len(more) : more[i] = r
      BY <1>3 DEF ToSet
    <3>2. Len(own) + i \in Len(own) + 1 .. Len(work'.todo)
      BY <2>1, <2>2
    <3> QED
      BY <3>1, <3>2, <2>1, <2>2
  <2>6. DOMAIN work'.tasks = {}
    BY <1>5, <1>7
  <2>7. Len(own) \in 0 .. Len(work'.todo)
    BY <2>1, <2>2
  <2> QED
    BY <1>11, <2>3, <2>4, <2>5, <2>6, <2>7 DEF InOrder
<1>14. ~repository.remoteTasks => work'.todo = <<>> /\ work'.tasks = Nothing
  BY <1>4, <1>7
<1>15. AtWork'
  <2>1. repository.remoteTasks => \E k \in 0 .. Len(work'.todo) : InOrder(k)'
    BY <1>13
  <2> QED
    BY <1>7, <1>12, <1>14, <2>1 DEF AtWork
<1> QED
  BY <1>8, <1>9, <1>15 DEF ResolutionInv

\* The first of a name there is.
FirstOf(s, n) == CHOOSE i \in Named(s, n) : \A j \in Named(s, n) : i <= j
LEMMA FirstNamed ==
    ASSUME NEW S, NEW s \in Seq(S), NEW n, Named(s, n) # {}
    PROVE  s[FirstOf(s, n)] \in S /\ s[FirstOf(s, n)].name = n /\ s[FirstOf(s, n)] \in ToSet(s)
<1>1. Named(s, n) \subseteq 1 .. Len(s) /\ Named(s, n) \in SUBSET Nat /\ \A i \in Named(s, n) : s[i].name = n
  BY DEF Named
<1>2. \E i \in Named(s, n) : \A j \in Named(s, n) : i <= j
  BY <1>1, SmallestOne
<1>3. PICK i : i = FirstOf(s, n)
  OBVIOUS
<1>4. i \in Named(s, n)
  BY <1>2, <1>3 DEF FirstOf
<1>5. i \in 1 .. Len(s) /\ s[i].name = n
  BY <1>1, <1>4
<1>6. s[i] \in S /\ s[i] \in ToSet(s)
  BY <1>5 DEF ToSet
<1> QED
  BY <1>3, <1>5, <1>6

LEMMA ChoosePipelineInv == ASSUME ResolutionInv, ChoosePipeline PROVE ResolutionInv'
<1>0. PICK d : d = CurrentDef
  OBVIOUS
<1>1. /\ work.pc = "choose" /\ UNCHANGED <<repository, remote, fetched>>
      /\ HasItsPipeline(d) /\ work.pipeline = Annotated(d) /\ work.url = AnnotatedURL(d)
      /\ work.pipeline \in PipelineRecord /\ repository.pipelines \in Seq(PipelineRecord)
  BY <1>0 DEF ChoosePipeline, ResolutionInv, AtWork, ResolutionOK, WorkRecord, RepositoryRecord
<1>2. CASE d.pipelineRef = NoName /\ ToFetch(NoPipeline)
  <2>1. NoPipeline \in PipelineRecord
    <3>1. {} \in AnnotationValues
      BY FS_EmptySet DEF AnnotationValues
    <3> QED
      BY <3>1 DEF NoPipeline, Pipeline, PipelineRecord, AnyName
  <2>2. IsChosen(d, NoPipeline, work.url)
    BY <1>1, <1>2 DEF IsChosen, PipelineOf
  <2> QED
    BY <1>0, <1>1, <1>2, <2>1, <2>2, FetchingBegins
<1>3. CASE d.pipelineRef # NoName /\ work.pipeline.name = d.pipelineRef /\ ToFetch(work.pipeline)
  <2>1. IsChosen(d, work.pipeline, work.url)
    BY <1>1, <1>3 DEF IsChosen, PipelineOf, IsLocal
  <2> QED
    BY <1>0, <1>1, <1>3, <2>1, FetchingBegins
<1>4. CASE d.pipelineRef # NoName /\ work.pipeline.name # d.pipelineRef
  <2>1. CASE Named(repository.pipelines, d.pipelineRef) = {}
    <3>1. ResolutionFails
      BY <1>0, <1>4, <2>1 DEF ChoosePipeline
    <3> QED
      BY <3>1, <1>1, AllFail
  <2>2. CASE Named(repository.pipelines, d.pipelineRef) # {}
    <3>1. ToFetch(getPipelineByName(d.pipelineRef))
      BY <1>0, <1>4, <2>2 DEF ChoosePipeline
    <3>2. IsChosen(d, getPipelineByName(d.pipelineRef), work.url)
      BY <1>1, <1>4, <2>2 DEF IsChosen, PipelineOf, IsLocal
    <3>3. getPipelineByName(d.pipelineRef) \in PipelineRecord
      <4>1. PICK ps \in Seq(PipelineRecord) : ps = repository.pipelines
        BY <1>1
      <4>2. ps[FirstOf(ps, d.pipelineRef)] \in PipelineRecord
        BY <2>2, <4>1, FirstNamed
      <4> QED
        BY <4>1, <4>2 DEF getPipelineByName, FirstOf
    <3> QED
      BY <1>0, <1>1, <3>1, <3>2, <3>3, FetchingBegins
  <2> QED
    BY <2>1, <2>2
<1> QED
  BY <1>0, <1>2, <1>3, <1>4 DEF ChoosePipeline

\* What is left to fetch stays in order when the first reference is done with.
LEMMA OrderStays ==
    ASSUME ResolutionInv, NEW k \in 0 .. Len(work.todo), InOrder(k), work.todo # <<>>, FetchedStays,
           Own' = Own, Others' = Others, work'.todo = Tail(work.todo), NEW t, NEW r, r = Head(work.todo),
           r \in DOMAIN fetched'.tasks, t = fetched'.tasks[r], t \in TaskRecord,
           work'.tasks = KeepFirst(work.tasks, t.name, t)
    PROVE  \E m \in 0 .. Len(work'.todo) : InOrder(m)'
<1> DEFINE j == IF k = 0 THEN 0 ELSE k - 1
<1>1. /\ work.todo \in Seq(ReferenceRecord) /\ work.tasks \in Partial(ResourceNames, TaskRecord)
      /\ t.name \in ResourceNames
  BY TheDefinitions DEF ResolutionInv, TaskRecord
<1>2. /\ Len(work.todo) \in Nat \ {0} /\ Len(work'.todo) = Len(work.todo) - 1 /\ r = work.todo[1]
      /\ \A i \in 1 .. Len(work'.todo) : work'.todo[i] = work.todo[i + 1]
  BY <1>1
<1>3. j \in 0 .. Len(work'.todo)
  BY <1>2, SMTT(30)
<1>4. /\ DOMAIN work'.tasks = DOMAIN work.tasks \cup {t.name}
      /\ \A n \in DOMAIN work.tasks : work'.tasks[n] = work.tasks[n]
      /\ t.name \notin DOMAIN work.tasks => work'.tasks[t.name] = t
  <2>1. PICK f, name : f = work.tasks /\ name = t.name
    OBVIOUS
  <2>2. f \in Partial(ResourceNames, TaskRecord) /\ name \in ResourceNames
    BY <1>1, <2>1
  <2>3. /\ DOMAIN KeepFirst(f, name, t) = DOMAIN f \cup {name}
        /\ \A n \in DOMAIN f : KeepFirst(f, name, t)[n] = f[n]
        /\ name \notin DOMAIN f => KeepFirst(f, name, t)[name] = t
    <3>1. t \in TaskRecord
      OBVIOUS
    <3> QED
      BY ONLY <2>2, <3>1, MoreTaskNames
  <2>4. work'.tasks = KeepFirst(f, name, t)
    BY <2>1
  <2> QED
    BY <2>1, <2>3, <2>4, ZenonT(30)
<1>5. \A q : (Taken(q) \/ q = r) => Taken(q)'
  BY <1>4 DEF Taken, FetchedStays, Grows
<1>6. ASSUME NEW i \in 1 .. Len(work'.todo) PROVE work'.todo[i] \in IF i <= j THEN Own ELSE Others
  <2>1. i + 1 \in 1 .. Len(work.todo) /\ (i + 1 <= k <=> i <= j)
    BY <1>2
  <2>2. work.todo[i + 1] \in IF i + 1 <= k THEN Own ELSE Others
    BY <2>1 DEF InOrder
  <2> QED
    BY <2>1, <2>2, <1>2
<1>7. ASSUME NEW q \in Own PROVE Taken(q)' \/ \E i \in 1 .. j : work'.todo[i] = q
  <2>1. CASE Taken(q)
    BY <2>1, <1>5
  <2>2. CASE ~Taken(q)
    <3>1. PICK i \in 1 .. k : work.todo[i] = q
      BY <2>2 DEF InOrder
    <3>2. CASE i = 1
      BY <3>1, <3>2, <1>2, <1>5
    <3>3. CASE i # 1
      <4>1. i - 1 \in 1 .. j /\ i - 1 \in 1 .. Len(work'.todo) /\ (i - 1) + 1 = i
        BY <3>3, <1>2
      <4> QED
        BY <3>1, <4>1, <1>2
    <3> QED
      BY <3>2, <3>3
  <2> QED
    BY <2>1, <2>2
<1>8. ASSUME NEW q \in Others PROVE Taken(q)' \/ \E i \in j + 1 .. Len(work'.todo) : work'.todo[i] = q
  <2>1. CASE Taken(q)
    BY <2>1, <1>5
  <2>2. CASE ~Taken(q)
    <3>1. PICK i \in k + 1 .. Len(work.todo) : work.todo[i] = q
      BY <2>2 DEF InOrder
    <3>2. CASE i = 1
      BY <3>1, <3>2, <1>2, <1>5
    <3>3. CASE i # 1
      <4>1. i - 1 \in j + 1 .. Len(work'.todo) /\ i - 1 \in 1 .. Len(work'.todo) /\ (i - 1) + 1 = i
        BY <3>3, <1>2
      <4> QED
        BY <3>1, <4>1, <1>2
    <3> QED
      BY <3>2, <3>3
  <2> QED
    BY <2>1, <2>2
<1>9. k = 0 => \A n : Given(Own, n)' = Given(Own, n)
  <2> SUFFICES ASSUME k = 0, NEW n PROVE Given(Own, n)' = Given(Own, n)
    OBVIOUS
  <2>1. PICK own : own = Own
    OBVIOUS
  <2>2. own \subseteq DOMAIN fetched.tasks
    BY <2>1 DEF InOrder, Taken
  <2>3. Given(own, n)' = Given(own, n)
    BY <2>2, GivenStays
  <2> QED
    BY <2>1, <2>3
<1>10. \A n : Given(Own, n) \subseteq Given(Own, n)' /\ Given(Others, n) \subseteq Given(Others, n)'
  <2>1. PICK own, others : own = Own /\ others = Others
    OBVIOUS
  <2>2. \A n : Given(own, n) \subseteq Given(own, n)' /\ Given(others, n) \subseteq Given(others, n)'
    BY MoreIsGiven
  <2>3. \A n : Given(Own, n)' = Given(own, n)' /\ Given(Others, n)' = Given(others, n)'
    BY <2>1
  <2> QED
    BY <2>1, <2>2, <2>3
<1>11. ASSUME NEW n \in DOMAIN work'.tasks
       PROVE  \/ work'.tasks[n] \in Given(Own, n)'
              \/ j = 0 /\ Given(Own, n)' = {} /\ work'.tasks[n] \in Given(Others, n)'
  <2>1. CASE n \in DOMAIN work.tasks
    <3>1. \/ work.tasks[n] \in Given(Own, n)
          \/ k = 0 /\ Given(Own, n) = {} /\ work.tasks[n] \in Given(Others, n)
      BY <2>1 DEF InOrder
    <3> QED
      BY <2>1, <3>1, <1>4, <1>9, <1>10
  <2>2. CASE n \notin DOMAIN work.tasks
    <3>1. n = t.name /\ work'.tasks[n] = t
      BY <2>2, <1>4
    <3>3. r \in IF 1 <= k THEN Own ELSE Others
      BY <1>2, SMTT(30) DEF InOrder
    <3>4. CASE k # 0
      <4>1. r \in Own'
        BY <3>3, <3>4
      <4> QED
        BY <3>1, <4>1, ZenonT(30) DEF Given
    <3>5. CASE k = 0
      <4>1. r \in Others'
        BY <3>3, <3>5
      <4>2. t \in Given(Others, n)'
        BY <3>1, <4>1 DEF Given
      <4>3. Given(Own, n) = {}
        <5> SUFFICES ASSUME NEW x \in Given(Own, n) PROVE FALSE
          OBVIOUS
        <5>1. PICK q \in Own \cap DOMAIN fetched.tasks : fetched.tasks[q].name = n
          BY DEF Given
        <5>2. Taken(q)
          BY <5>1, <3>5 DEF InOrder
        <5> QED
          BY <5>1, <5>2, <2>2 DEF Taken
      <4> QED
        BY <3>1, <3>5, <4>2, <4>3, <1>9
    <3> QED
      BY <3>4, <3>5, SMTT(30)
  <2> QED
    BY <2>1, <2>2, SMTT(30)
<1> HIDE DEF j
<1>12. InOrder(j)'
  BY <1>6, <1>7, <1>8, <1>11 DEF InOrder
<1> QED
  BY <1>3, <1>12

LEMMA FetchTaskInv == ASSUME ResolutionInv, FetchTask PROVE ResolutionInv'
<1>1. CASE ResolutionFails /\ UNCHANGED fetched
  BY <1>1, AllFail DEF FetchTask
<1>2. CASE ~(ResolutionFails /\ UNCHANGED fetched)
  <2> DEFINE r == Head(work.todo)
  <2>1. /\ work.pc = "tasks" /\ work.todo # <<>> /\ repository' = repository /\ remote' = remote
        /\ \/ Known(fetched.tasks, r) /\ Add(fetched.tasks[r]) /\ UNCHANGED fetched
           \/ /\ ~Known(fetched.tasks, r) /\ r \in DOMAIN remote.tasks /\ Add(remote.tasks[r])
              /\ fetched' = [fetched EXCEPT !.tasks = Put(@, r, remote.tasks[r])]
    BY <1>2 DEF FetchTask
  <2>2. /\ work \in WorkRecord /\ work.todo \in Seq(ReferenceRecord) /\ work.tasks \in Partial(ResourceNames, TaskRecord)
        /\ fetched \in FetchedRecord
        /\ fetched.tasks \in Partial(ReferenceRecord, TaskRecord)
    BY TheDefinitions DEF ResolutionInv, ResolutionOK
  <2>3. r \in ReferenceRecord
    BY <2>1, <2>2
  <2>4. repository.remoteTasks /\ (\E k \in 0 .. Len(work.todo) : InOrder(k)) /\ IsChosen(CurrentDef, work.pipeline, work.url)
    BY <2>1 DEF ResolutionInv, AtWork
  <2>5. PICK q : q = r
    OBVIOUS
  <2> HIDE DEF r
  <2>6. q \in DOMAIN remote.tasks => remote.tasks[q] \in TaskRecord
    <3>1. remote.tasks \in Partial(ReferenceRecord, TaskRecord)
      BY DEF ResolutionInv, ResolutionOK, FetchedRecord
    <3> QED
      BY <3>1, PartialFunctions
  <2>7. /\ fetched' \in FetchedRecord
        /\ FetchedStays /\ q \in DOMAIN fetched'.tasks
        /\ Add(fetched'.tasks[q]) /\ fetched'.tasks[q] \in TaskRecord
    <3>1. CASE Known(fetched.tasks, r) /\ Add(fetched.tasks[r]) /\ UNCHANGED fetched
      BY <2>2, <2>5, <3>1, NothingLost, PartialFunctions DEF Known
    <3>2. CASE /\ ~Known(fetched.tasks, r) /\ r \in DOMAIN remote.tasks /\ Add(remote.tasks[r])
               /\ fetched' = [fetched EXCEPT !.tasks = Put(@, r, remote.tasks[r])]
      <4>1. fetched'.tasks = Put(fetched.tasks, q, remote.tasks[q]) /\ fetched'.pipelines = fetched.pipelines
        BY <2>2, <2>5, <3>2
      <4>2. /\ Put(fetched.tasks, q, remote.tasks[q]) \in Partial(ReferenceRecord, TaskRecord)
            /\ DOMAIN Put(fetched.tasks, q, remote.tasks[q]) = DOMAIN fetched.tasks \cup {q}
            /\ Put(fetched.tasks, q, remote.tasks[q])[q] = remote.tasks[q]
            /\ \A i \in DOMAIN fetched.tasks : i # q => Put(fetched.tasks, q, remote.tasks[q])[i] = fetched.tasks[i]
        <5>1. remote.tasks[q] \in TaskRecord /\ q \in ReferenceRecord
          BY <2>3, <2>5, <2>6, <3>2
        <5>2. PICK c, x : c = fetched.tasks /\ x = remote.tasks[q]
          OBVIOUS
        <5>3. c \in Partial(ReferenceRecord, TaskRecord) /\ x \in TaskRecord
          BY <2>2, <5>1, <5>2
        <5>4. /\ Put(c, q, x) \in Partial(ReferenceRecord, TaskRecord)
              /\ DOMAIN Put(c, q, x) = DOMAIN c \cup {q} /\ Put(c, q, x)[q] = x
              /\ \A i \in DOMAIN c : i # q => Put(c, q, x)[i] = c[i]
          BY ONLY <5>1, <5>3, MoreTasks
        <5> QED
          BY <5>2, <5>4
      <4>3. fetched' \in FetchedRecord
        BY <2>2, <2>5, <3>2, <4>2 DEF FetchedRecord
      <4>4. FetchedStays
        BY <4>1, <4>2, <3>2, <2>5 DEF FetchedStays, Grows, Known
      <4> QED
        BY <4>1, <4>2, <4>3, <4>4, <3>2, <2>5, <2>6
    <3> QED
      BY <2>1, <3>1, <3>2
  <2>8. PICK t : t = fetched'.tasks[q]
    OBVIOUS
  <2>9. t \in TaskRecord /\ work' = [work EXCEPT !.todo = Tail(@), !.tasks = KeepFirst(@, t.name, t)]
    BY <2>7, <2>8 DEF Add
  <2>10. Tail(work.todo) \in Seq(ReferenceRecord) /\ KeepFirst(work.tasks, t.name, t) \in Partial(ResourceNames, TaskRecord)
    <3>1. t.name \in ResourceNames
      BY <2>9 DEF TaskRecord
    <3>2. KeepFirst(work.tasks, t.name, t) \in Partial(ResourceNames, TaskRecord)
      BY <3>1, <2>2, <2>9, MoreTaskNames
    <3> QED
      BY <2>1, <2>2, <3>2
  <2>11. /\ work' \in WorkRecord /\ work'.pc = "tasks" /\ work'.todo = Tail(work.todo)
         /\ work'.tasks = KeepFirst(work.tasks, t.name, t)
         /\ work'.at = work.at /\ work'.done = work.done /\ work'.url = work.url /\ work'.pipeline = work.pipeline
    BY <2>1, <2>2, <2>9, <2>10 DEF WorkRecord
  <2>12. ResolutionOK'
    BY <2>1, <2>4, <2>7, <2>11 DEF ResolutionInv, ResolutionOK
  <2>13. AllResolved'
    BY <2>1, <2>7, <2>11, <2>12, AllResolvedStays DEF ResolutionInv
  <2>14. CurrentDef' = CurrentDef /\ Own' = Own /\ Others' = Others
    BY <2>1, <2>11 DEF CurrentDef, Own, Others, RefsOf, Assembled, assembleTaskFQDNs
  <2>15. IsChosen(CurrentDef, work.pipeline, work.url)'
    <3>1. PICK d, p, u : d = CurrentDef /\ p = work.pipeline /\ u = work.url
      OBVIOUS
    <3>2. d \in DefinitionRecord
      BY <2>1, <3>1, TheDefinitions DEF ResolutionInv
    <3>3. IsChosen(d, p, u)'
      BY <2>1, <2>4, <2>7, <3>1, <3>2, ChosenStays
    <3> QED
      BY <3>1, <3>3, <2>11, <2>14
  <2>16. \E j \in 0 .. Len(work'.todo) : InOrder(j)'
    <3>1. PICK k \in 0 .. Len(work.todo) : InOrder(k)
      BY <2>4
    <3>2. q = Head(work.todo)
      BY <2>5 DEF r
    <3> QED
      BY <2>1, <2>7, <2>8, <2>9, <2>11, <2>14, <3>1, <3>2, OrderStays
  <2>17. AtWork'
    BY <2>1, <2>4, <2>11, <2>15, <2>16 DEF AtWork
  <2> QED
    BY <2>12, <2>13, <2>17 DEF ResolutionInv
<1> QED
  BY <1>1, <1>2

\* With nothing left to fetch, each task is the one of its name, and of a type.
LEMMA TasksAtTheEnd ==
    ASSUME ResolutionInv, work.pc = "tasks", work.todo = <<>>, NEW n \in DOMAIN WithLocal(work.tasks)
    PROVE  /\ IsTheTask(WithLocal(work.tasks)[n], n, Own, Others)
           /\ n \in ResourceNames /\ WithLocal(work.tasks)[n] \in TaskRecord
<1>1. /\ work.tasks \in Partial(ResourceNames, TaskRecord) /\ fetched.tasks \in Partial(ReferenceRecord, TaskRecord)
      /\ repository.tasks \in Seq(TaskRecord)
  BY TheDefinitions DEF ResolutionInv, ResolutionOK, RepositoryRecord
<1>2. repository.remoteTasks => InOrder(0)
  <2> SUFFICES ASSUME repository.remoteTasks PROVE InOrder(0)
    OBVIOUS
  <2>1. PICK k \in 0 .. Len(work.todo) : InOrder(k)
    BY DEF ResolutionInv, AtWork
  <2>2. k = 0
    BY <2>1
  <2> QED
    BY <2>1, <2>2
<1>3. ~repository.remoteTasks => DOMAIN work.tasks = {} /\ DOMAIN fetched.tasks = {}
  BY PartialFunctions DEF ResolutionInv, AtWork, ResolutionOK
<1> DEFINE local == {x.name : x \in ToSet(repository.tasks)}
<1>4. /\ n \in DOMAIN work.tasks \cup local
      /\ WithLocal(work.tasks)[n] = IF n \in DOMAIN work.tasks THEN work.tasks[n] ELSE LocalTask(n)
  BY DEF WithLocal, LocalTask
<1>5. CASE n \in DOMAIN work.tasks
  <2>1. repository.remoteTasks
    BY <1>3, <1>5
  <2>2. \/ work.tasks[n] \in Given(Own, n)
        \/ Given(Own, n) = {} /\ work.tasks[n] \in Given(Others, n)
    BY <1>2, <1>5, <2>1 DEF InOrder
  <2>3. n \in ResourceNames /\ work.tasks[n] \in TaskRecord
    BY <1>1, <1>5, PartialFunctions
  <2> QED
    BY <1>4, <1>5, <2>2, <2>3 DEF IsTheTask
<1>6. CASE n \notin DOMAIN work.tasks
  <2>1. Given(Own, n) = {} /\ Given(Others, n) = {}
    <3>1. CASE repository.remoteTasks
      <4>1. \A q \in Own \cup Others : Taken(q)
        BY <1>2, <3>1 DEF InOrder
      <4> QED
        BY <4>1, <1>6 DEF Given, Taken
    <3>2. CASE ~repository.remoteTasks
      BY <1>3, <3>2 DEF Given
    <3> QED
      BY <3>1, <3>2
  <2>2. Named(repository.tasks, n) # {}
    <3>1. PICK x \in ToSet(repository.tasks) : x.name = n
      BY <1>4, <1>6
    <3>2. PICK i \in DOMAIN repository.tasks : repository.tasks[i] = x
      BY <3>1 DEF ToSet
    <3> QED
      BY <3>1, <3>2 DEF Named
  <2>3. LocalTask(n) \in TaskRecord /\ LocalTask(n).name = n
    <3>1. PICK s \in Seq(TaskRecord) : s = repository.tasks
      BY <1>1
    <3>2. Named(s, n) # {}
      BY <2>2, <3>1
    <3>3. s[FirstOf(s, n)] \in TaskRecord /\ s[FirstOf(s, n)].name = n
      BY <3>2, FirstNamed
    <3> QED
      BY <3>1, <3>3 DEF LocalTask, FirstOf
  <2>4. n \in ResourceNames
    BY <2>3 DEF TaskRecord
  <2> QED
    BY <1>4, <1>6, <2>1, <2>2, <2>3, <2>4 DEF IsTheTask
<1> QED
  BY <1>5, <1>6

LEMMA InlineTasksInv == ASSUME ResolutionInv, inlineTasks PROVE ResolutionInv'
<1>1. CASE ResolutionFails
  BY <1>1, AllFail DEF inlineTasks
<1>2. CASE ~ResolutionFails
  <2>0. PICK d, p, u : d = CurrentDef /\ p = work.pipeline /\ u = work.url
    OBVIOUS
  <2> DEFINE tasks == WithLocal(work.tasks)
             inlined == [n \in ToInline |-> tasks[n]]
  <2>1. PICK r : r = [pipeline |-> p, url |-> u, tasks |-> inlined]
    OBVIOUS
  <2>2. /\ work.pc = "tasks" /\ work.todo = <<>> /\ UNCHANGED <<repository, remote, fetched>>
        /\ ToInline \subseteq DOMAIN tasks
        /\ work' = [work EXCEPT !.done = Append(@, r), !.at = @ + 1, !.pc = IF work.at = Len(repository.defs) THEN "resolved" ELSE "pipeline"]
    BY <1>2, <2>0, <2>1 DEF inlineTasks
  <2>3. /\ work \in WorkRecord /\ work.done \in Seq(ResolvedRecord) /\ work.at \in Nat /\ p \in PipelineRecord /\ u \in ReferenceRecord
        /\ d \in DefinitionRecord /\ Len(work.done) = work.at - 1 /\ work.at \in 1 .. Len(repository.defs)
        /\ repository.defs \in Seq(DefinitionRecord) /\ d = repository.defs[work.at]
    BY <2>0, <2>2, TheDefinitions DEF ResolutionInv, ResolutionOK, WorkRecord, CurrentDef
  <2>4. \A n \in ToInline : n \in ResourceNames /\ tasks[n] \in TaskRecord /\ IsTheTask(tasks[n], n, Own, Others)
    BY <2>2, TasksAtTheEnd
  <2>5. DOMAIN inlined = ToInline /\ \A n \in ToInline : inlined[n] = tasks[n]
    OBVIOUS
  <2>6. inlined \in [ToInline -> TaskRecord] /\ ToInline \in SUBSET ResourceNames
    BY <2>4
  <2> HIDE DEF tasks
  <2>7. inlined \in Partial(ResourceNames, TaskRecord)
    BY <2>6 DEF Partial
  <2> HIDE DEF inlined
  <2>8. r \in ResolvedRecord /\ r.pipeline = p /\ r.url = u /\ r.tasks = inlined
    BY <2>1, <2>3, <2>7 DEF ResolvedRecord
  <2>9. Append(work.done, r) \in Seq(ResolvedRecord) /\ work.at + 1 \in Nat \ {0}
    BY <2>3, <2>8
  <2>10. /\ work' \in WorkRecord /\ work'.done = Append(work.done, r) /\ work'.at = work.at + 1
         /\ work'.pc = IF work.at = Len(repository.defs) THEN "resolved" ELSE "pipeline"
    BY <2>2, <2>3, <2>9 DEF WorkRecord
  <2>11. ResolutionOK'
    <3>1. Len(work'.done) = work.at /\ Len(repository.defs) \in Nat
      BY <2>3, <2>8, <2>10
    <3>2. work'.pc \in {"validate", "pipeline", "choose", "tasks"} => Len(work'.done) = work'.at - 1 /\ work'.at \in 1 .. Len(repository.defs)
      BY <2>3, <2>10, <3>1
    <3>3. Len(work'.done) <= Len(repository.defs)
      BY <2>3, <3>1
    <3> QED
      BY <2>2, <2>10, <3>2, <3>3 DEF ResolutionInv, ResolutionOK
  <2>12. IsResolved(d, r)
    <3>1. RefsOf(d.annotations) = Own /\ Assembled(r) = Others
      BY <2>0, <2>8 DEF Own, Others, Assembled
    <3>2. IsChosen(d, r.pipeline, r.url)
      BY <2>0, <2>2, <2>8 DEF ResolutionInv, AtWork
    <3>3. repository.remoteTasks => Own \cup Others \subseteq DOMAIN fetched.tasks
      <4> SUFFICES ASSUME repository.remoteTasks PROVE Own \cup Others \subseteq DOMAIN fetched.tasks
        OBVIOUS
      <4>1. PICK k \in 0 .. Len(work.todo) : InOrder(k)
        BY <2>2 DEF ResolutionInv, AtWork
      <4>2. k = 0 /\ Len(work.todo) = 0
        BY <2>2, <4>1
      <4>3. \A q \in Own \cup Others : Taken(q)
        BY <4>1, <4>2 DEF InOrder
      <4> QED
        BY <4>3 DEF Taken
    <3>4. ToInline = (IF d.pipelineRef = NoName THEN d.tasks ELSE r.pipeline.tasks) \ repository.skip
      BY <2>0, <2>8 DEF ToInline
    <3> QED
      BY <2>4, <2>5, <2>8, <3>1, <3>2, <3>3, <3>4 DEF IsResolved
  <2>13. AllResolved'
    <3> SUFFICES ASSUME NEW i \in 1 .. Len(work'.done) PROVE IsResolved(repository.defs[i], work.done[i])'
      BY DEF AllResolved
    <3>1. \A c, x : c \in DefinitionRecord /\ IsResolved(c, x) => IsResolved(c, x)'
      BY <2>2, <2>11, ResolvedStays, NothingLost DEF ResolutionInv
    <3>2. PICK c, x : c = repository.defs[i] /\ x = work'.done[i]
      OBVIOUS
    <3>3. c \in DefinitionRecord /\ IsResolved(c, x)
      <4>1. CASE i = work.at
        <5>1. x = r /\ c = d
          BY <2>3, <2>8, <2>10, <3>2, <4>1
        <5> QED
          BY <5>1, <2>3, <2>12
      <4>2. CASE i # work.at
        <5>1. i \in 1 .. Len(work.done) /\ x = work.done[i]
          BY <2>3, <2>8, <2>10, <3>2, <4>2
        <5> QED
          BY <5>1, <3>2, TheDefinitions DEF ResolutionInv, AllResolved
      <4> QED
        BY <4>1, <4>2
    <3>4. IsResolved(c, x)'
      BY <3>1, <3>3
    <3> QED
      BY <3>2, <3>4, <2>2
  <2>14. AtWork'
    BY <2>10 DEF AtWork
  <2> QED
    BY <2>11, <2>13, <2>14 DEF ResolutionInv
<1> QED
  BY <1>1, <1>2

LEMMA NextResolutionInv == ResolutionInv /\ [ResolutionSteps]_resolutionVars => ResolutionInv'
<1> SUFFICES ASSUME ResolutionInv, [ResolutionSteps]_resolutionVars PROVE ResolutionInv'
  OBVIOUS
<1>1. remote \in FetchedRecord
  BY DEF ResolutionInv, ResolutionOK
<1>2. CASE UNCHANGED resolutionVars
  BY <1>1, <1>2, OthersChange DEF resolutionVars
<1>3. CASE \E w \in FetchedRecord : remote' = w /\ UNCHANGED <<repository, fetched, work>>
  BY <1>3, OthersChange
<1>4. ASSUME NEW kind \in {"pipelines", "tasks"}, NEW r \in DOMAIN remote[kind], Update(kind, r) PROVE ResolutionInv'
  <2>1. PICK named : named = remote[kind]
    OBVIOUS
  <2>2. PICK more : more = [named EXCEPT ![r].version = 2]
    OBVIOUS
  <2>3. remote' = [remote EXCEPT ![kind] = more] /\ UNCHANGED <<repository, fetched, work>>
    BY <1>4, <2>1, <2>2 DEF Update
  <2>4. CASE kind = "pipelines"
    <3>1. named \in Partial(ReferenceRecord, PipelineRecord)
      BY <1>1, <2>1, <2>4 DEF FetchedRecord
    <3>2. named \in [DOMAIN named -> PipelineRecord] /\ DOMAIN named \in SUBSET ReferenceRecord
      BY <3>1, PartialFunctions
    <3>3. [named[r] EXCEPT !.version = 2] \in PipelineRecord
      BY <2>1, <3>2 DEF PipelineRecord
    <3>4. more \in [DOMAIN named -> PipelineRecord]
      BY <2>2, <3>2, <3>3
    <3>5. more \in Partial(ReferenceRecord, PipelineRecord)
      BY <3>2, <3>4 DEF Partial
    <3>6. remote' \in FetchedRecord
      BY <1>1, <2>3, <2>4, <3>5 DEF FetchedRecord
    <3> QED
      BY <2>3, <3>6, OthersChange
  <2>5. CASE kind = "tasks"
    <3>1. named \in Partial(ReferenceRecord, TaskRecord)
      BY <1>1, <2>1, <2>5 DEF FetchedRecord
    <3>2. named \in [DOMAIN named -> TaskRecord] /\ DOMAIN named \in SUBSET ReferenceRecord
      BY <3>1, PartialFunctions
    <3>3. [named[r] EXCEPT !.version = 2] \in TaskRecord
      BY <2>1, <3>2 DEF TaskRecord
    <3>4. more \in [DOMAIN named -> TaskRecord]
      BY <2>2, <3>2, <3>3
    <3>5. more \in Partial(ReferenceRecord, TaskRecord)
      BY <3>2, <3>4 DEF Partial
    <3>6. remote' \in FetchedRecord
      BY <1>1, <2>3, <2>5, <3>5 DEF FetchedRecord
    <3> QED
      BY <2>3, <3>6, OthersChange
  <2> QED
    BY <2>4, <2>5
<1> QED
  BY <1>2, <1>3, <1>4, MetadataResolveInv, TakePipelineInv, ChoosePipelineInv, FetchTaskInv, InlineTasksInv DEF ResolutionSteps, ResolutionNext

\* The pipeline and the tasks of the directory are taken by their names.
LEMMA NamesOfTheDirectory ==
    ASSUME ResolutionOK, NEW n
    PROVE  /\ Named(repository.pipelines, n) # {} =>
                getPipelineByName(n) \in ToSet(repository.pipelines) /\ getPipelineByName(n).name = n
           /\ Named(repository.tasks, n) # {} => LocalTask(n) \in ToSet(repository.tasks)
<1>1. PICK ps \in Seq(PipelineRecord), ts \in Seq(TaskRecord) : ps = repository.pipelines /\ ts = repository.tasks
  BY DEF ResolutionOK, RepositoryRecord
<1>2. Named(ps, n) # {} => ps[FirstOf(ps, n)] \in ToSet(ps) /\ ps[FirstOf(ps, n)].name = n
  BY FirstNamed
<1>3. Named(ts, n) # {} => ts[FirstOf(ts, n)] \in ToSet(ts)
  BY FirstNamed
<1> QED
  BY <1>1, <1>2, <1>3 DEF getPipelineByName, LocalTask, FirstOf

LEMMA AnnotationsComeFirst == ResolutionInv => RemoteBeforeLocal
<1> DEFINE Gave(d) == {fetched.pipelines[p] : p \in ToSet(d.pipelines) \cap DOMAIN fetched.pipelines}
           TasksFirst(d, r) ==
               \A n \in DOMAIN r.tasks :
                  r.tasks[n] \in IF ~repository.remoteTasks THEN ToSet(repository.tasks)
                                 ELSE IF Given(RefsOf(d.annotations), n) # {} THEN Given(RefsOf(d.annotations), n)
                                 ELSE IF Given(Assembled(r), n) # {} THEN Given(Assembled(r), n)
                                 ELSE ToSet(repository.tasks)
           PipelineFirst(d, r) ==
               d.pipelineRef # NoName =>
                  /\ r.pipeline.name = d.pipelineRef
                  /\ r.pipeline \in IF \E p \in Gave(d) : p.name = d.pipelineRef THEN Gave(d) ELSE ToSet(repository.pipelines)
<1>0. RemoteBeforeLocal <=>
        \A i \in DOMAIN work.done :
            TasksFirst(repository.defs[i], work.done[i]) /\ PipelineFirst(repository.defs[i], work.done[i])
  BY DEF RemoteBeforeLocal
<1> HIDE DEF TasksFirst, PipelineFirst
<1> SUFFICES ASSUME ResolutionInv, NEW i \in DOMAIN work.done, NEW d, d = repository.defs[i], NEW r, r = work.done[i]
             PROVE  TasksFirst(d, r) /\ PipelineFirst(d, r)
  BY <1>0
<1> DEFINE annotated == Gave(d)
<1>1. ResolutionOK /\ work.done \in Seq(ResolvedRecord) /\ i \in 1 .. Len(work.done)
  BY TheDefinitions DEF ResolutionInv
<1>2. d \in DefinitionRecord /\ IsResolved(d, r)
  BY <1>1, TheDefinitions DEF ResolutionInv, AllResolved
<1>3. ASSUME NEW n \in DOMAIN r.tasks
      PROVE  r.tasks[n] \in IF ~repository.remoteTasks THEN ToSet(repository.tasks)
                            ELSE IF Given(RefsOf(d.annotations), n) # {} THEN Given(RefsOf(d.annotations), n)
                            ELSE IF Given(Assembled(r), n) # {} THEN Given(Assembled(r), n)
                            ELSE ToSet(repository.tasks)
  <2>1. IsTheTask(r.tasks[n], n, RefsOf(d.annotations), Assembled(r))
    BY <1>2, <1>3 DEF IsResolved
  <2>2. Named(repository.tasks, n) # {} => LocalTask(n) \in ToSet(repository.tasks)
    BY <1>1, NamesOfTheDirectory
  <2>3. ~repository.remoteTasks => \A refs : Given(refs, n) = {}
    BY <1>1, PartialFunctions DEF ResolutionOK, Given
  <2> QED
    BY <2>1, <2>2, <2>3 DEF IsTheTask
<1>4. ASSUME d.pipelineRef # NoName
      PROVE  /\ r.pipeline.name = d.pipelineRef
             /\ r.pipeline \in IF \E p \in annotated : p.name = d.pipelineRef THEN annotated ELSE ToSet(repository.pipelines)
  <2>1. /\ HasItsPipeline(d) /\ r.pipeline = IF IsLocal(d) THEN getPipelineByName(d.pipelineRef) ELSE Annotated(d)
        /\ IsLocal(d) => Named(repository.pipelines, d.pipelineRef) # {}
    BY <1>2, <1>4 DEF IsResolved, IsChosen, PipelineOf
  <2>2. d.pipelines \in Seq(ReferenceRecord)
    BY <1>2 DEF DefinitionRecord
  <2>3. CASE NoAnnotatedPipeline(d)
    <3>1. Annotated(d).name = NoName
      BY <2>3 DEF Annotated, NoPipeline, Pipeline
    <3>2. IsLocal(d)
      BY <3>1, <1>4 DEF IsLocal
    <3>3. annotated = {}
      <4>1. CASE ~repository.remoteTasks
        BY <1>1, <4>1, PartialFunctions DEF ResolutionOK
      <4>2. CASE d.pipelines = <<>>
        BY <4>2 DEF ToSet
      <4> QED
        BY <2>3, <4>1, <4>2 DEF NoAnnotatedPipeline
    <3> QED
      BY <1>1, <2>1, <3>2, <3>3, NamesOfTheDirectory
  <2>4. CASE ~NoAnnotatedPipeline(d)
    <3>1. repository.remoteTasks /\ d.pipelines # <<>>
      BY <2>4 DEF NoAnnotatedPipeline
    <3>2. Len(d.pipelines) = 1
      <4>1. Len(d.pipelines) <= 1 /\ Len(d.pipelines) \in Nat /\ Len(d.pipelines) # 0
        BY <2>1, <2>2, <3>1 DEF HasItsPipeline
      <4>2. \A l \in Nat : l <= 1 /\ l # 0 => l = 1
        OBVIOUS
      <4> QED
        BY ONLY <4>1, <4>2
    <3>3. ToSet(d.pipelines) = {d.pipelines[1]}
      BY <2>2, <3>2 DEF ToSet
    <3>4. annotated = {Annotated(d)}
      BY <2>1, <2>4, <3>1, <3>3 DEF HasItsPipeline, Annotated
    <3> QED
      BY <1>1, <2>1, <3>4, NamesOfTheDirectory DEF IsLocal
  <2> QED
    BY <2>3, <2>4
<1> QED
  BY <1>3, <1>4 DEF TasksFirst, PipelineFirst

LEMMA TwinsAreAlike == ResolutionInv => TwinsResolveAlike
<1> SUFFICES ASSUME ResolutionInv, NEW i \in DOMAIN work.done, NEW j \in DOMAIN work.done,
                    NEW c, c = repository.defs[i], NEW d, d = repository.defs[j],
                    [c EXCEPT !.name = d.name] = d, Unambiguous(RefsOf(d.annotations)), Unambiguous(Assembled(work.done[j]))
             PROVE  work.done[i] = work.done[j]
  BY DEF TwinsResolveAlike
<1>1. PICK q, r : q = work.done[i] /\ r = work.done[j]
  OBVIOUS
<1>2. /\ c \in DefinitionRecord /\ IsResolved(c, q) /\ q \in ResolvedRecord
      /\ d \in DefinitionRecord /\ IsResolved(d, r) /\ r \in ResolvedRecord
  <2>1. /\ work.done \in Seq(ResolvedRecord) /\ \A m \in 1 .. Len(work.done) : repository.defs[m] \in DefinitionRecord
    BY TheDefinitions DEF ResolutionInv
  <2>2. i \in 1 .. Len(work.done) /\ j \in 1 .. Len(work.done)
    BY <2>1
  <2>3. q \in ResolvedRecord /\ r \in ResolvedRecord
    BY <1>1, <2>1, <2>2
  <2>4. IsResolved(c, q) /\ IsResolved(d, r)
    BY <1>1, <2>2 DEF ResolutionInv, AllResolved
  <2> QED
    BY <2>1, <2>2, <2>3, <2>4
<1>3. c.pipelineRef = d.pipelineRef /\ c.tasks = d.tasks /\ c.pipelines = d.pipelines /\ c.annotations = d.annotations
  BY <1>2 DEF DefinitionRecord
<1>4. PipelineOf(c) = PipelineOf(d) /\ AnnotatedURL(c) = AnnotatedURL(d)
  BY <1>3 DEF PipelineOf, IsLocal, Annotated, AnnotatedURL, NoAnnotatedPipeline
<1>5. q.pipeline = r.pipeline /\ q.url = r.url
  BY <1>2, <1>4 DEF IsResolved, IsChosen
<1>6. Assembled(q) = Assembled(r) /\ RefsOf(c.annotations) = RefsOf(d.annotations)
  BY <1>3, <1>5 DEF Assembled
<1>7. DOMAIN q.tasks = DOMAIN r.tasks
  BY <1>2, <1>3, <1>5 DEF IsResolved
<1>8. \A refs, n, s, t : Unambiguous(refs) /\ s \in Given(refs, n) /\ t \in Given(refs, n) => s = t
  BY DEF Unambiguous, Given
<1>9. ASSUME NEW n \in DOMAIN r.tasks PROVE q.tasks[n] = r.tasks[n]
  <2>1. /\ IsTheTask(q.tasks[n], n, RefsOf(d.annotations), Assembled(r))
        /\ IsTheTask(r.tasks[n], n, RefsOf(d.annotations), Assembled(r))
    BY <1>2, <1>6, <1>7, <1>9 DEF IsResolved
  <2>2. Unambiguous(RefsOf(d.annotations)) /\ Unambiguous(Assembled(r))
    BY <1>1
  <2> QED
    BY <1>8, <2>1, <2>2 DEF IsTheTask
<1>10. q.tasks \in Partial(ResourceNames, TaskRecord) /\ r.tasks \in Partial(ResourceNames, TaskRecord)
  BY <1>2 DEF ResolvedRecord
<1>11. q.tasks = [n \in DOMAIN q.tasks |-> q.tasks[n]] /\ r.tasks = [n \in DOMAIN r.tasks |-> r.tasks[n]]
  BY <1>10, PartialFunctions
<1>12. q.tasks = r.tasks
  BY <1>7, <1>9, <1>11
<1>13. /\ q = [pipeline |-> q.pipeline, url |-> q.url, tasks |-> q.tasks]
       /\ r = [pipeline |-> r.pipeline, url |-> r.url, tasks |-> r.tasks]
  BY <1>2 DEF ResolvedRecord
<1> QED
  BY <1>1, <1>5, <1>12, <1>13

\* ResolutionIsOfTheDefinition: for any directory and any annotations, whatever the
\* references come to name and whenever that changes, each run is resolved from what
\* its own references gave, its own before its pipeline's and these before the
\* directory; and two definitions with the same references are resolved alike.
THEOREM ResolvedByOnesOwnReferences == ResolutionSpec => []ResolutionIsOfTheDefinition
<1>1. ResolutionInv => ResolutionIsOfTheDefinition
  BY AnnotationsComeFirst, TwinsAreAlike DEF ResolutionIsOfTheDefinition
<1> QED
  BY <1>1, InitResolutionInv, NextResolutionInv, PTL DEF ResolutionSpec
=============================================================================
