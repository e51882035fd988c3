----------------------------- MODULE HostPolicy -----------------------------
(***************************************************************************)
(* Which hosts a controller sends its credentials to.  Each request to     *)
(* set up a client reads the policy from the ConfigMap: the list of the    *)
(* administrator decides when there is one; else the public hosts are      *)
(* trusted, and those learnt from events that GitHub authenticated, which  *)
(* such an event adds to, in a read and a write that may conflict.         *)
(***************************************************************************)
EXTENDS Integers, Sequences, FiniteSets, SequencesExt

VARIABLES trust,     \* [policies, edits]: the policies so far, the last one is in force; the
                     \* bound: how often the administrator changes them
          asking     \* the requests

trustVars == <<trust, asking>>

MaxPolicyEdits == 2
MaxAttemptsToLearn == 5     \* retry.DefaultRetry

\* Hosts, by name; "" is an endpoint that is not given.
NoHost == ""
GitHub == "github.com"
PublicHosts == {GitHub, "api.github.com"}
PrivateHosts == {"ghe.svc"}
MalformedHosts == {"ghe_1"}
IsPublic(h) == h \in PublicHosts
IsPrivate(h) == h \in PrivateHosts
Canonical(h) == IF IsPublic(h) THEN GitHub ELSE h

\* What a request was given: a host, a scheme or none, and what else is in the URL.
URL(h, scheme, extra) == [host |-> h, scheme |-> scheme, extra |-> extra]

\* SplitURL and Parse accept it; a bare name is read as https.
Splits(u) == u.host # NoHost /\ u.extra # "credentials"
Parses(u) == Splits(u) /\ u.scheme \in {"bare", "https"} /\ u.extra # "path" /\ u.host \notin MalformedHosts

(***************************************************************************)
(* A policy as stored: the list and the annotation, each with whether it   *)
(* can be parsed.  A list that cannot refuses everything, an annotation    *)
(* that cannot is taken for empty.                                         *)
(***************************************************************************)
StoredPolicy(list, learnt, listOK, learntOK) ==
    [list |-> list, learnt |-> learnt, listOK |-> listOK, learntOK |-> learntOK]
InForce == trust.policies[Len(trust.policies)]
ParseAllowlist(names) == {Canonical(h) : h \in names}
AutoTrusted(p) == IF p.learntOK THEN ParseAllowlist(p.learnt) ELSE {}
AdministratorConfigured(p) == p.list # {}
Check(p, h) ==
    IF AdministratorConfigured(p) THEN Canonical(h) \in ParseAllowlist(p.list)
    ELSE IsPublic(h) \/ Canonical(h) \in AutoTrusted(p)

\* A request: of an authenticated event, for the URL of a Repository, or for the URL
\* of its provider, which alone may be empty, use plain http or have a path.
Request(kind, u) == [kind |-> kind, url |-> u, pc |-> "start", from |-> 0, seen |-> 0, tries |-> 1]
InitTrust(p, rs) == trust = [policies |-> <<p>>, edits |-> 0] /\ asking = rs

Accepts(kind, u) ==
    \/ kind = "event" /\ Parses(u)
    \/ kind = "repository" /\ Splits(u) /\ u.scheme = "https" /\ u.host \notin MalformedHosts
    \/ kind = "provider" /\ (u.host = NoHost \/ (Splits(u) /\ u.scheme \in {"bare", "https", "http"} /\ u.host \notin MalformedHosts))
HostOf(q) == IF asking[q].url.host = NoHost THEN GitHub ELSE asking[q].url.host
Now == Len(trust.policies)
RequestGoes(q, pc) == asking' = [asking EXCEPT ![q].pc = pc]

Ask(q) ==
    /\ asking[q].pc = "start"
    /\ asking' = [asking EXCEPT ![q].from = Now, ![q].pc = IF Accepts(asking[q].kind, asking[q].url) THEN "read" ELSE "refused"]
    /\ UNCHANGED trust

\* Trusted: the policy is read and applied.
Trusted(q) ==
    /\ asking[q].pc = "read" /\ asking[q].kind # "event"
    /\ \/ RequestGoes(q, IF InForce.listOK /\ Check(InForce, HostOf(q)) THEN "approved" ELSE "refused")
       \/ RequestGoes(q, "refused")
    /\ UNCHANGED trust

\* TrustOnFirstUse: an unknown host that is not private is to be learnt.
ToBeLearnt(p, h) == ~AdministratorConfigured(p) /\ ~Check(p, h) /\ ~IsPrivate(h)
FirstUse(q) ==
    /\ asking[q].pc = "read" /\ asking[q].kind = "event"
    /\ \/ asking' = [asking EXCEPT ![q].seen = Now,
                        ![q].pc = IF ~InForce.listOK THEN "refused"
                                  ELSE IF ToBeLearnt(InForce, HostOf(q)) THEN "update"
                                  ELSE IF Check(InForce, HostOf(q)) THEN "approved" ELSE "refused"]
       \/ RequestGoes(q, "refused")
    /\ UNCHANGED trust

\* The ConfigMap that was read is written with one more host in its annotation;
\* after a conflict it is read again, after any other failure the event is refused,
\* also when only the answer was lost.
With(h, p) == [p EXCEPT !.learnt = AutoTrusted(p) \cup {Canonical(h)}, !.learntOK = TRUE]
MutantLearnConflicts(q) == FALSE
LearnConflicts(q) == asking[q].seen # Now
Learn(q) ==
    /\ asking[q].pc = "update"
    /\ \/ /\ ~LearnConflicts(q)
          /\ trust' = [trust EXCEPT !.policies = Append(@, With(HostOf(q), trust.policies[asking[q].seen]))]
          /\ \/ RequestGoes(q, "approved")
             \/ RequestGoes(q, "refused")
       \/ /\ LearnConflicts(q)
          /\ asking' = IF asking[q].tries < MaxAttemptsToLearn
                       THEN [asking EXCEPT ![q].pc = "read", ![q].tries = @ + 1] ELSE [asking EXCEPT ![q].pc = "refused"]
          /\ UNCHANGED trust
       \/ RequestGoes(q, "refused") /\ UNCHANGED trust

\* The administrator writes or removes the list, or damages the list or the annotation.
ConfigurePolicy(list) ==
    /\ trust.edits < MaxPolicyEdits
    /\ \E p \in {[InForce EXCEPT !.list = list, !.listOK = TRUE], [InForce EXCEPT !.listOK = FALSE],
                 [InForce EXCEPT !.learntOK = FALSE]} \ {InForce} :
          trust' = [policies |-> Append(trust.policies, p), edits |-> trust.edits + 1]
    /\ UNCHANGED asking

TrustNext == \E q \in DOMAIN asking : Ask(q) \/ Trusted(q) \/ FirstUse(q) \/ Learn(q)

-----------------------------------------------------------------------------
Approved == {q \in DOMAIN asking : asking[q].pc = "approved"}

\* Credentials go to a host only when a policy that was in force while the request
\* was handled trusted it: the list when there was one, whatever had been learnt.
ApprovedByAPolicyOfItsTime ==
    \A q \in Approved :
        \E v \in asking[q].from .. Now :
            LET p == trust.policies[v]
                listed == ParseAllowlist(p.list) IN
                /\ p.listOK
                /\ Canonical(HostOf(q)) \in IF listed # {} THEN listed
                                            ELSE {GitHub} \cup (IF p.learntOK THEN ParseAllowlist(p.learnt) ELSE {})

\* A host that an approved event had learnt stays learnt, though others are
\* learnt and the list is edited at the same time; unless the annotation was damaged.
LearntHostsStay ==
    \A q \in Approved :
        asking[q].kind = "event" =>
            \/ Canonical(HostOf(q)) \in InForce.learnt \cup {GitHub}
            \/ \E v \in asking[q].from .. Now :
                  ~trust.policies[v].learntOK \/ Canonical(HostOf(q)) \in ParseAllowlist(trust.policies[v].list)

\* The controller changes nothing but its annotation, only while the administrator has
\* no list, and adds there only hosts of authenticated events that are not private.
TheListIsTheAdministrators ==
    [][Now' > Now /\ trust'.edits = trust.edits =>
          LET p == InForce
              n == InForce' IN
              /\ p.list = {} /\ p.listOK /\ [p EXCEPT !.learnt = n.learnt, !.learntOK = n.learntOK] = n
              /\ AutoTrusted(p) \subseteq n.learnt
              /\ \A h \in n.learnt \ AutoTrusted(p) :
                    ~IsPrivate(h) /\ \E q \in DOMAIN asking : asking[q].kind = "event" /\ HostOf(q) = h]_trustVars

\* The policy of the administrator and the hosts that concurrent events learn
\* neither overwrite each other nor trust more than they say.
HostsAreTrustedByPolicy == [](ApprovedByAPolicyOfItsTime /\ LearntHostsStay) /\ TheListIsTheAdministrators
=============================================================================
