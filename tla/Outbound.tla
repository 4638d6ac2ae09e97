----------------------------- MODULE Outbound ------------------------------
(***************************************************************************)
(* The fetch guard (domain/destinations.py, adapters/sources/guard.py,     *)
(* adapters/engine/netguard.py) under the two HTTP stacks of Copycast: its *)
(* own client (adapters/sources/http.py) and the one inside yt-dlp.  Names *)
(* resolve differently at every resolution, redirects lead anywhere.       *)
(***************************************************************************)
EXTENDS Integers, FiniteSets

CONSTANTS
    Hosts, ProxyHost,
    Addresses,      \* classes of addresses: they tell all that is judged
    Internal,       \* those no fetch may reach, loopback and private ones and the rest
    Carried,        \* the address an IPv6 form carries, itself for the others
    Compatible,     \* the deprecated IPv4-compatible forms
    Policies,       \* [hosts, networks]: what the operator exempts
    Fetches, MaxRedirects

ASSUME OutboundAssumption ==
    /\ Internal \subseteq Addresses /\ Compatible \subseteq Addresses
    /\ Carried \in [Addresses -> Addresses]
    /\ Policies \subseteq [hosts : SUBSET (Hosts \cup {ProxyHost}), networks : SUBSET Addresses]
    /\ MaxRedirects \in Nat

VARIABLES
    policy,     \* the installed policy
    pool,       \* connections that are kept alive: peer and address
    job,        \* each fetch
    opened      \* history: every connection, and the policy it was judged by

outVars == <<policy, pool, job, opened>>

Stacks == {"client", "listing", "fetch"}    \* the last two are the Engine's
Vias == {"direct", "http", "socks"}         \* Copycast's client takes no proxy
Schemes == {"http", "key", "other"}         \* "key": one the Engine's extractors claim
NoExemption == [hosts |-> {}, networks |-> {}]   \* until a policy is installed
NoJob == [at |-> "idle", stack |-> "client", via |-> "direct", host |-> ProxyHost, hops |-> 0,
          left |-> {}, policy |-> NoExemption, judged |-> {},
          refused |-> FALSE, error |-> "none", outcome |-> "none"]

OutInit ==
    /\ policy = NoExemption /\ pool = {} /\ opened = {}
    /\ job = [f \in Fetches |-> NoJob]

-----------------------------------------------------------------------------
(* domain/destinations.py: what is judged.                                  *)
Blocked(a) == a \in Internal \/ Carried[a] \in Internal \/ a \in Compatible

Exempt(p, a) == {a, Carried[a]} \cap p.networks # {}

Refusal(p, a) == Blocked(a) /\ ~Exempt(p, a)

\* checked_addresses: one refused answer is enough.
Passes(p, host, answers) == host \in p.hosts \/ \A a \in answers : ~Refusal(p, a)

-----------------------------------------------------------------------------
Peer(f) == IF job[f].via = "direct" THEN job[f].host ELSE ProxyHost
Set(f, j) == job' = [job EXCEPT ![f] = j]
Settles(f, j, error) == Set(f, [j EXCEPT !.at = "done", !.error = error, !.left = {}])
Refuses(f, j) == Settles(f, [j EXCEPT !.refused = TRUE], "refused")

\* A fetch of the client, or a listing or fetch of the Engine: it checks the
\* URL ahead, and what does not resolve passes.
Start(f, stack, via, scheme, host, answers) ==
    /\ job[f].at = "idle" /\ (stack # "client" \/ via = "direct")
    /\ LET j == [NoJob EXCEPT !.at = "request", !.stack = stack, !.via = via, !.host = host]
       IN  IF scheme = "other" \/ (scheme = "key" /\ stack = "client")
              \/ (scheme = "http" /\ stack # "client" /\ ~Passes(policy, host, answers))
           THEN Refuses(f, j) ELSE Set(f, j)
    /\ UNCHANGED <<policy, pool, opened>>

\* Every request and hop through an HTTP proxy is judged before it is sent.
JudgeProxied(f, answers) ==
    /\ job[f].at = "request" /\ job[f].via = "http"
    /\ IF Passes(policy, job[f].host, answers)
       THEN Set(f, [job[f] EXCEPT !.at = "connect", !.judged = {job[f].host}])
       ELSE Refuses(f, job[f])
    /\ UNCHANGED <<policy, pool, opened>>

Request(f) ==
    /\ job[f].at = "request" /\ job[f].via # "http"
    /\ Set(f, [job[f] EXCEPT !.at = "connect"])
    /\ UNCHANGED <<policy, pool, opened>>

\* A connection to the origin (or the proxy) that is still open.
Reuse(f) ==
    /\ job[f].at = "connect" /\ job[f].via # "socks" /\ \E c \in pool : c.peer = Peer(f)
    /\ Set(f, [job[f] EXCEPT !.at = "sent"])
    /\ UNCHANGED <<policy, pool, opened>>

\* The name is resolved once and every answer judged.
Resolve(f, answers) ==
    /\ job[f].at = "connect"
    /\ IF answers = {} THEN Settles(f, job[f], "unreachable")
       ELSE IF Passes(policy, Peer(f), answers)
            THEN Set(f, [job[f] EXCEPT !.at = "opening", !.left = answers, !.policy = policy])
            ELSE Refuses(f, job[f])
    /\ UNCHANGED <<policy, pool, opened>>

Opened(f, a) == opened' = opened \cup {[peer |-> Peer(f), address |-> a, policy |-> job[f].policy]}

\* A connection that resolves the name a second time.
OpenByName(f, a) ==
    /\ job[f].at = "opening" /\ job[f].via # "socks"
    /\ Opened(f, a) /\ pool' = pool \cup {[peer |-> Peer(f), address |-> a]}
    /\ Set(f, [job[f] EXCEPT !.at = "sent", !.left = {}])
    /\ UNCHANGED policy

\* One address literal after the other, until one answers.
Open(f, a) ==
    /\ job[f].at = "opening" /\ job[f].via # "socks" /\ a \in job[f].left
    /\ Opened(f, a) /\ pool' = pool \cup {[peer |-> Peer(f), address |-> a]}
    /\ Set(f, [job[f] EXCEPT !.at = "sent", !.left = {}])
    /\ UNCHANGED policy

\* yt-dlp makes the socket of each address through a SOCKS proxy: the destination
\* is judged every time, and a refusal is one address that did not work.
OpenSocks(f, a, answers) ==
    /\ job[f].at = "opening" /\ job[f].via = "socks" /\ a \in job[f].left
    /\ IF Passes(policy, job[f].host, answers)
       THEN Opened(f, a) /\ Set(f, [job[f] EXCEPT !.at = "sent", !.left = {}, !.judged = {job[f].host}])
       ELSE /\ IF job[f].left = {a} THEN Refuses(f, job[f])
               ELSE Set(f, [job[f] EXCEPT !.left = @ \ {a}, !.refused = TRUE])
            /\ UNCHANGED opened
    /\ UNCHANGED <<policy, pool>>

OpenFails(f, a) ==
    /\ job[f].at = "opening" /\ a \in job[f].left
    /\ IF job[f].left = {a} THEN Settles(f, job[f], "unreachable")
       ELSE Set(f, [job[f] EXCEPT !.left = @ \ {a}])
    /\ UNCHANGED <<policy, pool, opened>>

-----------------------------------------------------------------------------
\* A redirect is a request of its own; past the last one the fetch fails.
Redirected(f, host) ==
    /\ job[f].at = "sent"
    /\ IF job[f].hops = MaxRedirects THEN Settles(f, job[f], "unreachable")
       ELSE Set(f, [job[f] EXCEPT !.at = "request", !.host = host, !.hops = @ + 1, !.judged = {}])
    /\ UNCHANGED <<policy, pool, opened>>

\* A redirect to a scheme nobody fetches.
RedirectedAside(f) ==
    /\ job[f].at = "sent"
    /\ IF job[f].stack = "client" THEN Refuses(f, job[f]) ELSE Settles(f, job[f], "unreachable")
    /\ UNCHANGED <<policy, pool, opened>>

Answers == {"fetched", "not_modified", "rejected", "unreachable", "too_large"}
Failures == {"refused", "unreachable", "rejected"}
Answered(f, answer) ==
    /\ job[f].at = "sent" /\ answer \in Answers
    /\ Settles(f, job[f], answer)
    /\ UNCHANGED <<policy, pool, opened>>

\* yt-dlp goes on after a failed connection: it tries again, or another format
\* or manifest of the page.
GoesOn(f, host) ==
    /\ job[f].at = "done" /\ job[f].stack # "client" /\ job[f].hops < MaxRedirects
    /\ job[f].error \in Failures
    /\ Set(f, [job[f] EXCEPT !.at = "request", !.host = host, !.hops = @ + 1,
                             !.judged = {}, !.error = "none"])
    /\ UNCHANGED <<policy, pool, opened>>

\* By the class of the exception: GuardRefusal is an OSError.
OutcomeByClass(j) == IF j.stack # "client" /\ j.error = "refused" THEN "unreachable" ELSE j.error

\* What the caller sees: the refusal the last error wraps or repeats, and for a
\* listing that found nothing any refusal there was.
Outcome(j) == IF j.refused /\ j.stack = "listing" /\ j.error \in Failures THEN "refused" ELSE j.error

Return(f) ==
    /\ job[f].at = "done"
    /\ Set(f, [job[f] EXCEPT !.at = "returned", !.outcome = Outcome(job[f])])
    /\ UNCHANGED <<policy, pool, opened>>

Install(p) == policy' = p /\ UNCHANGED <<pool, job, opened>>
Closed(c) == pool' = pool \ {c} /\ UNCHANGED <<policy, job, opened>>

OutNext ==
    \/ \E f \in Fetches, host \in Hosts :
         \/ \E stack \in Stacks, via \in Vias, scheme \in Schemes, answers \in SUBSET Addresses :
              Start(f, stack, via, scheme, host, answers)
         \/ Redirected(f, host) \/ GoesOn(f, host)
    \/ \E f \in Fetches, answers \in SUBSET Addresses :
         JudgeProxied(f, answers) \/ Resolve(f, answers)
    \/ \E f \in Fetches, a \in Addresses :
         \/ Open(f, a) \/ OpenFails(f, a)
         \/ \E answers \in SUBSET Addresses : OpenSocks(f, a, answers)
    \/ \E f \in Fetches : Request(f) \/ Reuse(f) \/ RedirectedAside(f) \/ Return(f)
    \/ \E f \in Fetches, answer \in Answers : Answered(f, answer)
    \/ \E p \in Policies : Install(p)
    \/ \E c \in pool : Closed(c)

-----------------------------------------------------------------------------
\* Every connection goes to an address the policy in force accepted, whatever
\* the name resolves to afterwards, and nothing is sent through a proxy to a
\* destination that was not judged at this hop.
NothingInsideReached ==
    /\ \A o \in opened : o.peer \in o.policy.hosts \/ ~Refusal(o.policy, o.address)
    /\ \A f \in Fetches : job[f].at = "sent" /\ job[f].via # "direct" => job[f].host \in job[f].judged

\* A fetch that ends on a refused connection, whatever yt-dlp tried before it and
\* wherever a redirect led, and a listing that found nothing after one, is never
\* reported as a failure worth a retry.
RefusalIsFinal ==
    \A f \in Fetches : job[f].at = "returned" =>
        \/ job[f].outcome \notin {"unreachable", "rejected"}
        \/ ~job[f].refused
        \/ job[f].stack = "fetch" /\ job[f].error # "refused"
=============================================================================
