------------------------------ MODULE Retries ------------------------------
(***************************************************************************)
(* One request to the API of a Git provider and the attempts made at it:   *)
(* the transport that wraps the HTTP clients of GitHub and Gitea           *)
(* (retryhttp.Wrap), and the policy given to the client of GitLab.  The    *)
(* server may be rate limiting, failing, unreachable, or lose its answer   *)
(* after it did what it was asked.  Waits are counted in half seconds.     *)
(***************************************************************************)
EXTENDS Integers, FiniteSets

CONSTANTS MaxAttempts, MaxWaits     \* the settings api-retry-max-attempts and -max-wait

ASSUME RetriesAssumption == MaxAttempts \subseteq Nat \ {0} /\ MaxWaits \subseteq Nat \ {0}

VARIABLE call       \* the request, or <<>> when there is none

Second == 2
NoHeader == -1
NoAnswer == [status |-> "none", after |-> NoHeader, reset |-> NoHeader]

Smaller(a, b) == IF a < b THEN a ELSE b

(***************************************************************************)
(* What the server may answer: a network error, a rate limit (429, or 403  *)
(* with the headers GitHub sends), another refusal, a server error, 501,   *)
(* or a result.  "after" is Retry-After; "reset" is the time to the reset  *)
(* of a rate limit of which nothing remains.                               *)
(***************************************************************************)
Headers == {NoHeader, 0, Second, 5 * Second}
Answers == {a \in [status : {"network", "429", "403", "4xx", "5xx", "501", "2xx"}, after : Headers, reset : Headers] :
                a.status \notin {"429", "403", "5xx"} => a.after = NoHeader /\ a.reset = NoHeader}
AppliedBy(a) == CASE a.status = "2xx" -> {TRUE}
                  [] a.status \in {"network", "5xx"} -> BOOLEAN
                  [] OTHER -> {FALSE}

\* A request: its method, whether it is marked as a POST that only reads, how
\* its body is held, and whether the GitLab client can tell the method of a
\* request that got no response.
Requests ==
    {q \in [policy : {"transport", "gitlab"}, method : {"GET", "POST", "PATCH"}, readOnly : BOOLEAN,
            body : {"none", "bytes", "stream"}, known : BOOLEAN, attempts : MaxAttempts, maxWait : MaxWaits] :
        /\ q.readOnly => q.method = "POST" /\ q.policy = "transport"
        /\ ~q.known => q.policy = "gitlab"
        /\ q.method = "GET" => q.body = "none"}
NewCall(q) == [q |-> q, pc |-> "send", attempt |-> 1, applied |-> 0, carried |-> TRUE, whole |-> TRUE,
               answer |-> NoAnswer, wait |-> 0]

IsIdempotentMethod(m) == m \in {"GET", "HEAD", "OPTIONS"}
Changes(q) == ~IsIdempotentMethod(q.method) /\ ~q.readOnly

(***************************************************************************)
(* The transport.                                                          *)
(***************************************************************************)
CanReplay(q) == q.body # "stream"
MutantRetrySafe(q) == TRUE
RetrySafe(q) == IsIdempotentMethod(q.method) \/ (q.method = "POST" /\ q.readOnly)
IsRateLimited(a) == a.after # NoHeader \/ a.reset # NoHeader
ShouldRetry(q, a) ==
    \/ a.status = "429"
    \/ a.status = "403" /\ IsRateLimited(a)
    \/ a.status \in {"network", "5xx"} /\ RetrySafe(q)

AddJitter(w, most, max) ==
    IF w >= max THEN {max} ELSE {w + j : j \in 0 .. (IF Smaller(most, max - w) > 0 THEN Smaller(most, max - w) - 1 ELSE 0)}

Doubled[n \in Nat \ {0}] == IF n = 1 THEN Second ELSE 2 * Doubled[n - 1]

\* The waits backoff may return; none when the reset is too far away.
Backoff(q, a, n) ==
    CASE a.after # NoHeader -> IF a.after > q.maxWait THEN {} ELSE AddJitter(a.after, Second, q.maxWait)
      [] a.after = NoHeader /\ a.reset # NoHeader ->
             IF a.reset > q.maxWait THEN {} ELSE AddJitter(a.reset, Second, q.maxWait)
      [] OTHER -> AddJitter(Smaller(Doubled[n], q.maxWait), Smaller(Doubled[n], q.maxWait) \div 2, q.maxWait)

(***************************************************************************)
(* The policy of the GitLab client.  The method is known when there is a   *)
(* response, or when the call did not replace the context it travels in.   *)
(***************************************************************************)
MethodKnown(q, a) == a.status # "network" \/ q.known
GitLabRateLimitWait(a) == IF a.after # NoHeader THEN a.after ELSE a.reset
GitLabRetryPolicy(q, a) ==
    \/ a.status = "429" /\ GitLabRateLimitWait(a) <= q.maxWait
    \/ a.status \in {"network", "5xx"} /\ MethodKnown(q, a) /\ IsIdempotentMethod(q.method)
GitLabRetryBackoff(q, a, n) ==
    IF a.status = "429" /\ GitLabRateLimitWait(a) # NoHeader
    THEN AddJitter(GitLabRateLimitWait(a), Second + 1, q.maxWait)
    ELSE {Smaller(n * w, q.maxWait) : w \in Second .. (2 * Second)}

(***************************************************************************)
(* One attempt: send, look at the answer, end or wait.                     *)
(***************************************************************************)
Retried(q, a, n) ==
    /\ n < q.attempts
    /\ IF q.policy = "transport" THEN CanReplay(q) /\ ShouldRetry(q, a) ELSE GitLabRetryPolicy(q, a)
Waits(q, a, n) == IF q.policy = "transport" THEN Backoff(q, a, n) ELSE GitLabRetryBackoff(q, a, n)

RoundTrip ==
    /\ call # <<>> /\ call.pc = "send"
    /\ \E a \in Answers : \E done \in AppliedBy(a) :
        LET sent == [call EXCEPT !.answer = a, !.applied = @ + (IF done THEN 1 ELSE 0),
                                 !.whole = @ /\ call.carried,
                                 !.carried = call.q.body # "stream" \/ call.q.policy = "gitlab"] IN
            IF Retried(call.q, a, call.attempt) /\ Waits(call.q, a, call.attempt) # {}
            THEN \E w \in Waits(call.q, a, call.attempt) : call' = [sent EXCEPT !.pc = "wait", !.wait = w]
            ELSE call' = [sent EXCEPT !.pc = "ended"]

\* The timer fires and the next attempt is made.
TimerFires ==
    /\ call # <<>> /\ call.pc = "wait"
    /\ call' = [call EXCEPT !.pc = "send", !.attempt = @ + 1]

\* The context of the request ends while it waits.
ContextDone ==
    /\ call # <<>> /\ call.pc = "wait"
    /\ call' = [call EXCEPT !.pc = "cancelled"]

RetryInit == \E q \in Requests : call = NewCall(q)
RetryNext == RoundTrip \/ TimerFires \/ ContextDone
RetrySpec == RetryInit /\ [][RetryNext]_call

-----------------------------------------------------------------------------
\* A request that changes something at the provider is never carried out twice
\* by the retries, whatever becomes of its answers: no comment or status is
\* duplicated by a lost answer.
NoChangeIsRepeated == call # <<>> => (Changes(call.q) => call.applied <= 1)

\* Every attempt sends the whole body: a body that can be read only once is
\* never sent a second time, empty.
EveryAttemptCarriesItsBody == call # <<>> => call.whole

\* A rate limited client comes back no earlier than it was asked to and never
\* sleeps beyond the configured maximum.
ComesBackAsAsked ==
    call # <<>> /\ call.pc = "wait" =>
        /\ call.wait <= call.q.maxWait
        /\ call.answer.status \in {"429", "403"} /\ call.answer.after # NoHeader => call.wait >= call.answer.after
        /\ call.answer.status \in {"429", "403"} /\ call.answer.after = NoHeader => call.wait >= call.answer.reset
        /\ call.attempt < call.q.attempts

\* What a rate limit alone refused is tried again, whatever its method, unless
\* the attempts are spent, the reset is too far or the body cannot be replayed.
RateLimitAloneDoesNotFail ==
    call # <<>> /\ call.pc = "ended" /\ call.answer.status = "429" /\ call.attempt < call.q.attempts =>
        \/ call.q.policy = "transport" /\ call.q.body = "stream"
        \/ call.answer.after > call.q.maxWait
        \/ call.answer.after = NoHeader /\ call.answer.reset > call.q.maxWait

\* A request is tried again as often as it helps and never when it hurts.
RetriesAreSafe ==
    NoChangeIsRepeated /\ EveryAttemptCarriesItsBody /\ ComesBackAsAsked /\ RateLimitAloneDoesNotFail
=============================================================================
