--------------------------- MODULE TokenRotation ---------------------------
(***************************************************************************)
(* The rotation of the access token of GitLab.  Every event and every      *)
(* reconciliation sets up a client with the token it read from the secret; *)
(* when the token nears its expiry the first goroutine to notice rotates   *)
(* it at GitLab, which revokes the old one, and writes the new one to the  *)
(* secret.  The goroutines of one process share a lock and a cache for     *)
(* each Repository; the controller and the watcher are two processes, and  *)
(* two Repositories may name one secret.                                   *)
(***************************************************************************)
EXTENDS Integers, FiniteSets

VARIABLES gitlab,    \* [current, nears, rotations]: the token that is not revoked, the tokens that neared expiry
          secret,    \* [token, other, version, writable]: the Kubernetes secret and its other key
          caches,    \* per process and Repository, the last introspection
          mutexes,   \* per process and Repository, who holds it
          worker,    \* the goroutines
          mishaps    \* what went wrong: the failures the code answers with an error or a warning

tokenVars == <<gitlab, secret, caches, mutexes, worker, mishaps>>

NoEntry == 0
Nobody == "nobody"
MaxConflicts == 5   \* retry.DefaultRetry

\* A goroutine: its process, its Repository, whether it may rotate (the secret is
\* the Repository's own, the setting is on, the webhook is validated), and
\* whether GitLab rotates its token only as the token of a project.
Worker(p, r, rotate, project) ==
    [process |-> p, repo |-> r, rotate |-> rotate, project |-> project, pc |-> "start", token |-> 0,
     client |-> 0, seen |-> [version |-> 0, other |-> 0], new |-> 0, tries |-> 0, late |-> FALSE]

InitTokens(ws, writable) ==
    /\ worker = ws
    /\ gitlab = [current |-> 1, nears |-> {}]
    /\ secret = [token |-> 1, other |-> 0, version |-> 0, writable |-> writable]
    /\ caches = [k \in {<<ws[w].process, ws[w].repo>> : w \in DOMAIN ws} |-> NoEntry]
    /\ mutexes = [k \in {<<ws[w].process, ws[w].repo>> : w \in DOMAIN ws} |-> Nobody]
    /\ mishaps = {}

Key(w) == <<worker[w].process, worker[w].repo>>
Near == gitlab.current \in gitlab.nears
Becomes(w, pc) == worker' = [worker EXCEPT ![w].pc = pc]
Leaves(w, pc) == Becomes(w, pc) /\ mutexes' = [mutexes EXCEPT ![Key(w)] = Nobody]

\* The token is read from the secret with the rest of the event's settings.
GetSecret(w) ==
    /\ worker[w].pc = "start"
    /\ worker' = [worker EXCEPT ![w].pc = IF worker[w].rotate THEN "lock" ELSE "ready",
                                ![w].token = secret.token, ![w].client = secret.token, ![w].late = Near]
    /\ UNCHANGED <<gitlab, secret, caches, mutexes, mishaps>>

Lock(w) ==
    /\ worker[w].pc = "lock"
    /\ mutexes[Key(w)] = Nobody
    /\ mutexes' = [mutexes EXCEPT ![Key(w)] = w]
    /\ Becomes(w, "cache")
    /\ UNCHANGED <<gitlab, secret, caches, mishaps>>

MutantFresh(k, token) == caches[k] = token
\* An entry is fresh while it is of this token, young enough, and its expiry far.
CachedIntrospectionFresh(k, token) ==
    /\ caches[k] = token
    /\ token \notin gitlab.nears

Cached(w) ==
    /\ worker[w].pc = "cache"
    /\ IF CachedIntrospectionFresh(Key(w), worker[w].token)
       THEN Leaves(w, "ready")
       ELSE Becomes(w, "introspect") /\ UNCHANGED mutexes
    /\ UNCHANGED <<gitlab, secret, caches, mishaps>>

NeedsRotation == Near

\* A revoked token is refused, as is any token when the call fails: a warning.
Introspect(w) ==
    /\ worker[w].pc = "introspect"
    /\ \/ /\ worker[w].token = gitlab.current
          /\ IF NeedsRotation
             THEN Becomes(w, "verify") /\ UNCHANGED <<caches, mutexes>>
             ELSE /\ caches' = [caches EXCEPT ![Key(w)] = worker[w].token]
                  /\ Leaves(w, "ready")
          /\ UNCHANGED mishaps
       \/ /\ worker[w].token # gitlab.current
          /\ Leaves(w, "ready")
          /\ UNCHANGED <<caches, mishaps>>
       \/ /\ mishaps' = mishaps \cup {"introspection"}
          /\ Leaves(w, "ready")
          /\ UNCHANGED caches
    /\ UNCHANGED <<gitlab, secret>>

\* The secret is read and written back in a dry run before anything is revoked.
VerifySecretWriteAccess(w) ==
    /\ worker[w].pc = "verify"
    /\ \/ secret.writable /\ Becomes(w, "rotate") /\ UNCHANGED <<mutexes, mishaps>>
       \/ mishaps' = mishaps \cup {"dryRun"} /\ Leaves(w, "ready")
    /\ UNCHANGED <<gitlab, secret, caches>>

\* What GitLab does of a rotation: it needs a token that is not revoked; its
\* answer may be lost; a project token may have to be rotated as such.
Rotated(w, next) ==
    /\ worker[w].token = gitlab.current
    /\ gitlab' = [gitlab EXCEPT !.current = @ + 1]
    /\ worker' = [worker EXCEPT ![w].pc = next, ![w].new = gitlab.current + 1]

\* GitLab refuses a revoked token, or one that lacks the scope; a warning.
Refused(w) ==
    /\ Leaves(w, "ready")
    /\ mishaps' = IF worker[w].token # gitlab.current THEN mishaps ELSE mishaps \cup {"refused"}

RotateToken(w) ==
    /\ worker[w].pc = "rotate"
    /\ \/ ~worker[w].project /\ Rotated(w, "read") /\ UNCHANGED <<mutexes, mishaps>>
       \/ worker[w].project /\ Becomes(w, "rotateProject") /\ UNCHANGED <<gitlab, mutexes, mishaps>>
       \/ /\ ~worker[w].project /\ Rotated(w, "ready") /\ mishaps' = mishaps \cup {"lostAnswer"}
          /\ mutexes' = [mutexes EXCEPT ![Key(w)] = Nobody]
       \/ /\ ~worker[w].project /\ Refused(w) /\ UNCHANGED gitlab
    /\ UNCHANGED <<secret, caches>>

RotateProjectToken(w) ==
    /\ worker[w].pc = "rotateProject"
    /\ \/ Rotated(w, "read") /\ UNCHANGED <<mutexes, mishaps>>
       \/ Refused(w) /\ UNCHANGED gitlab
    /\ UNCHANGED <<secret, caches>>

\* The new token is written to its key of the secret as it now is; a write that
\* conflicts is made again from a new read, any other failure rejects the event.
ReadSecret(w) ==
    /\ worker[w].pc = "read"
    /\ \/ /\ worker' = [worker EXCEPT ![w].pc = "write", ![w].seen = [version |-> secret.version, other |-> secret.other]]
          /\ UNCHANGED <<mutexes, mishaps>>
       \/ Leaves(w, "rejected") /\ mishaps' = mishaps \cup {"secretUpdate"}
    /\ UNCHANGED <<gitlab, secret, caches>>

Stored(w) == [secret EXCEPT !.token = worker[w].new, !.other = worker[w].seen.other, !.version = @ + 1]
Conflicts(w) == secret.version # worker[w].seen.version

WriteSecret(w) ==
    /\ worker[w].pc = "write"
    /\ \/ /\ secret.writable /\ ~Conflicts(w)
          /\ secret' = Stored(w)
          /\ caches' = [caches EXCEPT ![Key(w)] = worker[w].new]
          /\ worker' = [worker EXCEPT ![w].pc = "ready", ![w].client = worker[w].new]
          /\ mutexes' = [mutexes EXCEPT ![Key(w)] = Nobody]
          /\ UNCHANGED mishaps
       \/ /\ Conflicts(w) /\ worker[w].tries < MaxConflicts - 1
          /\ worker' = [worker EXCEPT ![w].pc = "read", ![w].tries = @ + 1]
          /\ UNCHANGED <<secret, caches, mutexes, mishaps>>
       \/ Leaves(w, "rejected") /\ mishaps' = mishaps \cup {"secretUpdate"} /\ UNCHANGED <<secret, caches>>
    /\ UNCHANGED gitlab

\* A process restarts: its goroutines, locks and cache are gone.
RestartProcess(p) ==
    /\ "restart" \notin mishaps
    /\ \E w \in DOMAIN worker : worker[w].process = p /\ worker[w].pc \notin {"start", "ready", "rejected", "gone"}
    /\ worker' = [w \in DOMAIN worker |->
                    IF worker[w].process = p /\ worker[w].pc \notin {"start", "ready", "rejected"}
                    THEN [worker[w] EXCEPT !.pc = "gone"] ELSE worker[w]]
    /\ caches' = [k \in DOMAIN caches |-> IF k[1] = p THEN NoEntry ELSE caches[k]]
    /\ mutexes' = [k \in DOMAIN mutexes |-> IF k[1] = p THEN Nobody ELSE mutexes[k]]
    /\ mishaps' = mishaps \cup {"restart"}
    /\ UNCHANGED <<gitlab, secret>>

\* Time passes: the first two tokens come within the threshold of their expiry.
TokenNears ==
    /\ gitlab.current \notin gitlab.nears /\ gitlab.current <= 2
    /\ gitlab' = [gitlab EXCEPT !.nears = @ \cup {gitlab.current}]
    /\ UNCHANGED <<secret, caches, mutexes, worker, mishaps>>

\* An entry of the cache outlives its hour.
EntryExpires(k) ==
    /\ caches[k] # NoEntry
    /\ caches' = [caches EXCEPT ![k] = NoEntry]
    /\ UNCHANGED <<gitlab, secret, mutexes, worker, mishaps>>

\* Someone changes the other key of the secret, once.
OtherKeyChanges ==
    /\ secret.other < 1
    /\ secret' = [secret EXCEPT !.other = @ + 1, !.version = @ + 1]
    /\ UNCHANGED <<gitlab, caches, mutexes, worker, mishaps>>

TokenNext ==
    \/ \E w \in DOMAIN worker :
          \/ GetSecret(w) \/ Lock(w) \/ Cached(w) \/ Introspect(w) \/ VerifySecretWriteAccess(w)
          \/ RotateToken(w) \/ RotateProjectToken(w) \/ ReadSecret(w) \/ WriteSecret(w)
    \/ \E k \in DOMAIN caches : RestartProcess(k[1]) \/ EntryExpires(k)
    \/ (DOMAIN worker # {} /\ (TokenNears \/ OtherKeyChanges))

-----------------------------------------------------------------------------
Storing(w) == worker[w].pc \in {"read", "write"}

\* The secret holds the token that is not revoked, except while the goroutine
\* that rotated it is storing the new one, and after the failures that lose it:
\* a lost answer, a failed update, which rejects the event, or a restart.
TokenIsLostOnlyByAFailure ==
    \/ secret.token = gitlab.current
    \/ \E w \in DOMAIN worker : Storing(w) /\ worker[w].new = gitlab.current
    \/ mishaps \cap {"lostAnswer", "secretUpdate", "restart"} # {}

\* Where the secret cannot be written nothing is ever rotated: the old token
\* goes on working.
UnwritableSecretKeepsItsToken == ~secret.writable => gitlab.current = 1

\* A token is rotated only when it nears its expiry, and once, however many
\* goroutines of however many processes notice.
OneRotationPerExpiry == \A t \in 1 .. gitlab.current - 1 : t \in gitlab.nears

\* Whoever read the secret when its token was near leaves a renewed one behind,
\* whatever the cache remembered of that token, unless something failed.
NearTokenIsRenewed ==
    \A w \in DOMAIN worker :
        worker[w].pc = "ready" /\ worker[w].rotate /\ worker[w].late /\ mishaps = {} => gitlab.current > worker[w].token

\* The rotation never undoes a change made meanwhile to another key of the secret.
OtherKeyIsKept == [][secret'.other >= secret.other]_tokenVars

\* However the goroutines of the two processes interleave and whatever fails, a
\* rotation is made when it is due and the secret keeps up with it.
RotationIsSafe ==
    /\ [](TokenIsLostOnlyByAFailure /\ UnwritableSecretKeepsItsToken)
    /\ [](OneRotationPerExpiry /\ NearTokenIsRenewed)
    /\ OtherKeyIsKept
=============================================================================
