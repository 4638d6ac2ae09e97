--------------------------- MODULE PerimeterProofs ---------------------------
(***************************************************************************)
(* What is proved of the perimeter: Outbound, EngineCalls, Access, Health, *)
(* Accounts, Registry, Probe and Selections, by invariants of their own.   *)
(* The theorems are at the end.                                            *)
(***************************************************************************)
EXTENDS Perimeter, TLAPS, FiniteSetTheorems, WellFoundedInduction

-----------------------------------------------------------------------------
(* Outbound: the fetch guard.                                               *)

FetchPhases == {"idle", "request", "connect", "opening", "sent", "done", "returned"}
Errors == Answers \cup Failures \cup {"none"}
Destinations == Hosts \cup {ProxyHost}
KnownPolicies == Policies \cup {NoExemption}
FetchJobs == [at : FetchPhases, stack : Stacks, via : Vias, host : Destinations, hops : Nat,
              left : SUBSET Addresses, policy : KnownPolicies, judged : SUBSET Destinations,
              refused : BOOLEAN, error : Errors, outcome : Errors]
PeerOf(j) == IF j.via = "direct" THEN j.host ELSE ProxyHost

\* What was judged is what is opened, or sent through the proxy.
JudgedFirst(j) ==
    /\ j.at = "opening" => Passes(j.policy, PeerOf(j), j.left)
    /\ j.via = "http" /\ j.at \in {"connect", "opening", "sent"} => j.host \in j.judged
    /\ j.via = "socks" /\ j.at = "sent" => j.host \in j.judged

\* The client, which has no proxy, stops at its first refusal, and what a caller
\* sees is what the fetch ended with.
RefusedOnce(j) ==
    /\ j.stack = "client" => j.via = "direct"
    /\ j.stack = "client" /\ j.refused => j.at \in {"done", "returned"} /\ j.error = "refused"
    /\ j.at = "returned" => j.outcome = Outcome(j)

SoundFetch(j) == j \in FetchJobs /\ JudgedFirst(j) /\ RefusedOnce(j)

\* The inductive invariant: each fetch for itself, and what was opened.
GuardInv ==
    /\ policy \in KnownPolicies
    /\ job \in [Fetches -> FetchJobs]
    /\ \A f \in Fetches : SoundFetch(job[f])
    /\ \A o \in opened : o.peer \in o.policy.hosts \/ ~Refusal(o.policy, o.address)

\* A step that replaces one fetch by a sound one, and opens nothing.
LEMMA OneFetchChanges ==
    ASSUME GuardInv, NEW f \in Fetches, NEW j, SoundFetch(j), Set(f, j), UNCHANGED <<policy, opened>>
    PROVE  GuardInv'
<1>1. j \in FetchJobs
  BY DEF SoundFetch
<1>2. job' = [job EXCEPT ![f] = j]
  BY DEF Set
<1>3. job' \in [Fetches -> FetchJobs]
  BY <1>1, <1>2 DEF GuardInv
<1>4. \A g \in Fetches : job'[g] = IF g = f THEN j ELSE job[g]
  BY <1>2 DEF GuardInv
<1>5. \A g \in Fetches : SoundFetch(job'[g])
  BY <1>4 DEF GuardInv
<1> QED
  BY <1>3, <1>5 DEF GuardInv

\* A step that opens a connection as well, to an address that was judged.
LEMMA OneFetchOpens ==
    ASSUME GuardInv, NEW f \in Fetches, NEW j, NEW a \in job[f].left,
           job[f].at = "opening", SoundFetch(j), Set(f, j), Opened(f, a), policy' = policy
    PROVE  GuardInv'
<1>1. job' = [job EXCEPT ![f] = j] /\ j \in FetchJobs
  BY DEF Set, SoundFetch
<1>2. job' \in [Fetches -> FetchJobs]
  BY <1>1 DEF GuardInv
<1>3. \A g \in Fetches : job'[g] = IF g = f THEN j ELSE job[g]
  BY <1>1 DEF GuardInv
<1>4. \A g \in Fetches : SoundFetch(job'[g])
  BY <1>3 DEF GuardInv
<1>5. SoundFetch(job[f])
  BY DEF GuardInv
<1>6. Peer(f) \in job[f].policy.hosts \/ ~Refusal(job[f].policy, a)
  BY <1>5 DEF SoundFetch, JudgedFirst, Passes, Peer, PeerOf
<1>7. \A o \in opened' : o.peer \in o.policy.hosts \/ ~Refusal(o.policy, o.address)
  BY <1>6 DEF Opened, GuardInv
<1> QED
  BY <1>2, <1>4, <1>7 DEF GuardInv

\* The steps before a connection.
LEMMA AskingIsSound ==
    ASSUME GuardInv, NEW f \in Fetches, NEW host \in Destinations, NEW answers \in SUBSET Addresses,
           NEW stack \in Stacks, NEW via \in Vias, NEW scheme \in Schemes,
           \/ Start(f, stack, via, scheme, host, answers)
           \/ Redirected(f, host) \/ GoesOn(f, host)
           \/ JudgeProxied(f, answers) \/ Resolve(f, answers) \/ Request(f) \/ Reuse(f)
    PROVE  GuardInv'
<1> DEFINE j == job[f]
<1>1. j \in FetchJobs /\ JudgedFirst(j) /\ RefusedOnce(j)
  BY DEF GuardInv, SoundFetch
<1> USE <1>1 DEF FetchJobs, FetchPhases, Errors, Answers, Failures, Destinations, Stacks, Vias,
        SoundFetch, JudgedFirst, RefusedOnce
<1> HIDE DEF j
<1>2. CASE Start(f, stack, via, scheme, host, answers)
  <2> DEFINE asks == [NoJob EXCEPT !.at = "request", !.stack = stack, !.via = via, !.host = host]
             bars == [[asks EXCEPT !.refused = TRUE] EXCEPT !.at = "done", !.error = "refused", !.left = {}]
  <2>1. NoExemption \in KnownPolicies
    BY DEF KnownPolicies
  <2>2. stack # "client" \/ via = "direct"
    BY <1>2 DEF Start
  <2>3. asks \in FetchJobs /\ bars \in FetchJobs
    <3>1. NoJob \in FetchJobs
      BY <2>1 DEF NoJob
    <3>2. /\ {"request", "done"} \subseteq FetchPhases /\ "refused" \in Errors
          /\ {} \in SUBSET Addresses /\ host \in Destinations /\ stack \in Stacks /\ via \in Vias
      OBVIOUS
    <3> HIDE DEF FetchPhases, Errors, Answers, Failures, Destinations, Stacks, Vias, NoJob
    <3>3. asks \in FetchJobs
      BY <3>1, <3>2
    <3> HIDE DEF asks
    <3> QED
      BY <3>2, <3>3
  <2>4. asks.at = "request" /\ asks.via = via /\ asks.stack = stack /\ ~asks.refused
    BY DEF NoJob
  <2>5. bars.at = "done" /\ bars.via = via /\ bars.stack = stack /\ bars.error = "refused"
    BY DEF NoJob
  <2>6. SoundFetch(asks) /\ SoundFetch(bars)
    <3> HIDE DEF asks, bars, FetchJobs
    <3> QED
      BY <2>2, <2>3, <2>4, <2>5
  <2>7. (Set(f, asks) \/ Set(f, bars)) /\ UNCHANGED <<policy, opened>>
    BY <1>2 DEF Start, Refuses, Settles
  <2> HIDE DEF asks, bars
  <2> QED
    BY <2>6, <2>7, OneFetchChanges
<1>3. CASE Redirected(f, host)
  <2> DEFINE next == [j EXCEPT !.at = "request", !.host = host, !.hops = @ + 1, !.judged = {}]
             fails == [j EXCEPT !.at = "done", !.error = "unreachable", !.left = {}]
  <2>1. j.at = "sent" /\ (Set(f, next) \/ Set(f, fails)) /\ UNCHANGED <<policy, opened>>
    BY <1>3 DEF Redirected, Settles, j
  <2>2. SoundFetch(next)
    <3>1. next \in FetchJobs
      <4>1. "request" \in FetchPhases /\ "none" \in Errors /\ {} \in SUBSET Destinations /\ j.hops + 1 \in Nat
        OBVIOUS
      <4> HIDE DEF FetchPhases, Errors, Answers, Failures, Destinations, Stacks, Vias
      <4> QED
        BY <4>1
    <3>2. next.at = "request" /\ next.stack = j.stack /\ next.via = j.via /\ next.refused = j.refused
      OBVIOUS
    <3> HIDE DEF next, FetchJobs
    <3> QED
      BY <2>1, <3>1, <3>2
  <2>3. SoundFetch(fails)
    BY <2>1
  <2> HIDE DEF next, fails
  <2> QED
    BY <2>1, <2>2, <2>3, OneFetchChanges
<1>4. CASE GoesOn(f, host)
  <2> DEFINE next == [j EXCEPT !.at = "request", !.host = host, !.hops = @ + 1,
                               !.judged = {}, !.error = "none"]
  <2>1. j.stack # "client" /\ Set(f, next) /\ UNCHANGED <<policy, opened>>
    BY <1>4 DEF GoesOn, j
  <2>2. SoundFetch(next)
    <3>1. next \in FetchJobs
      <4>1. "request" \in FetchPhases /\ "none" \in Errors /\ {} \in SUBSET Destinations /\ j.hops + 1 \in Nat
        OBVIOUS
      <4> HIDE DEF FetchPhases, Errors, Answers, Failures, Destinations, Stacks, Vias
      <4> QED
        BY <4>1
    <3>2. next.at = "request" /\ next.stack = j.stack
      OBVIOUS
    <3> HIDE DEF next, FetchJobs
    <3> QED
      BY <2>1, <3>1, <3>2
  <2> HIDE DEF next
  <2> QED
    BY <2>1, <2>2, OneFetchChanges
<1>5. CASE JudgeProxied(f, answers)
  <2> DEFINE next == [j EXCEPT !.at = "connect", !.judged = {j.host}]
             bars == [[j EXCEPT !.refused = TRUE] EXCEPT !.at = "done", !.error = "refused", !.left = {}]
  <2>1. j.at = "request" /\ (Set(f, next) \/ Set(f, bars)) /\ UNCHANGED <<policy, opened>>
    BY <1>5 DEF JudgeProxied, Refuses, Settles, j
  <2>2. SoundFetch(bars)
    BY <2>1
  <2>3. SoundFetch(next)
    <3>1. next \in FetchJobs
      OBVIOUS
    <3>2. /\ next.at = "connect" /\ next.stack = j.stack /\ next.via = j.via /\ next.refused = j.refused
          /\ next.host \in next.judged
      OBVIOUS
    <3> HIDE DEF next, FetchJobs
    <3> QED
      BY <2>1, <3>1, <3>2
  <2> HIDE DEF next, bars
  <2> QED
    BY <2>1, <2>2, <2>3, OneFetchChanges
<1>6. CASE Resolve(f, answers)
  <2> DEFINE next == [j EXCEPT !.at = "opening", !.left = answers, !.policy = policy]
             bars == [[j EXCEPT !.refused = TRUE] EXCEPT !.at = "done", !.error = "refused", !.left = {}]
             fails == [j EXCEPT !.at = "done", !.error = "unreachable", !.left = {}]
  <2>1. j.at = "connect" /\ UNCHANGED <<policy, opened>>
    BY <1>6 DEF Resolve, j
  <2>2. Set(f, fails) \/ Set(f, bars) \/ (Set(f, next) /\ Passes(policy, Peer(f), answers))
    BY <1>6 DEF Resolve, Refuses, Settles, j
  <2>3. SoundFetch(fails) /\ SoundFetch(bars)
    BY ZenonT(40), <2>1
  <2>4. Passes(policy, Peer(f), answers) => SoundFetch(next)
    <3>1. next \in FetchJobs
      BY DEF GuardInv
    <3>2. PeerOf(next) = Peer(f)
      BY DEF PeerOf, Peer, j
    <3> QED
      BY <2>1, <3>1, <3>2
  <2> HIDE DEF next, bars, fails
  <2> QED
    BY <2>1, <2>2, <2>3, <2>4, OneFetchChanges
<1>7. CASE Request(f)
  <2> DEFINE next == [j EXCEPT !.at = "connect"]
  <2>1. j.at = "request" /\ j.via # "http" /\ Set(f, next) /\ UNCHANGED <<policy, opened>>
    BY <1>7 DEF Request, j
  <2>2. SoundFetch(next)
    BY <2>1
  <2> HIDE DEF next
  <2> QED
    BY <2>1, <2>2, OneFetchChanges
<1>8. CASE Reuse(f)
  <2> DEFINE next == [j EXCEPT !.at = "sent"]
  <2>1. j.at = "connect" /\ j.via # "socks" /\ Set(f, next) /\ UNCHANGED <<policy, opened>>
    BY <1>8 DEF Reuse, j
  <2>2. SoundFetch(next)
    BY <2>1
  <2> HIDE DEF next
  <2> QED
    BY <2>1, <2>2, OneFetchChanges
<1> QED
  BY <1>2, <1>3, <1>4, <1>5, <1>6, <1>7, <1>8

\* The steps of a connection.
LEMMA ConnectingIsSound ==
    ASSUME GuardInv, NEW f \in Fetches, NEW a \in Addresses, NEW answers \in SUBSET Addresses,
           Open(f, a) \/ OpenFails(f, a) \/ OpenSocks(f, a, answers)
    PROVE  GuardInv'
<1> DEFINE j == job[f]
           sent == [j EXCEPT !.at = "sent", !.left = {}]
           judged == [j EXCEPT !.at = "sent", !.left = {}, !.judged = {j.host}]
           bars == [[j EXCEPT !.refused = TRUE] EXCEPT !.at = "done", !.error = "refused", !.left = {}]
           fails == [j EXCEPT !.at = "done", !.error = "unreachable", !.left = {}]
           fewer == [j EXCEPT !.left = @ \ {a}]
           refused1 == [j EXCEPT !.left = @ \ {a}, !.refused = TRUE]
<1>1. j \in FetchJobs /\ JudgedFirst(j) /\ RefusedOnce(j)
  BY DEF GuardInv, SoundFetch
<1>2. j.at = "opening" => Passes(j.policy, PeerOf(j), j.left \ {a})
  BY <1>1 DEF JudgedFirst, Passes
<1> USE <1>1 DEF FetchJobs, FetchPhases, Errors, Answers, Failures, Destinations, Stacks, Vias,
        SoundFetch, JudgedFirst, RefusedOnce
<1> HIDE DEF j
<1>3. j.at = "opening" => SoundFetch(bars) /\ SoundFetch(fails) /\ SoundFetch(judged)
  OBVIOUS
<1>4. j.at = "opening" /\ j.via # "socks" => SoundFetch(sent)
  OBVIOUS
<1>5. j.at = "opening" => SoundFetch(fewer)
  <2>1. fewer \in FetchJobs
    OBVIOUS
  <2>2. PeerOf(fewer) = PeerOf(j)
    BY DEF PeerOf
  <2> QED
    BY <1>2, <2>1, <2>2
<1>6. j.at = "opening" /\ j.via = "socks" => SoundFetch(refused1)
  <2>1. refused1 \in FetchJobs
    OBVIOUS
  <2>2. PeerOf(refused1) = PeerOf(j)
    BY DEF PeerOf
  <2> QED
    BY <1>2, <2>1, <2>2
<1>8. CASE Open(f, a)
  <2>1. /\ j.at = "opening" /\ j.via # "socks" /\ a \in job[f].left
        /\ Opened(f, a) /\ Set(f, sent) /\ policy' = policy
    BY <1>8 DEF Open, j
  <2> HIDE DEF sent
  <2> QED
    BY <2>1, <1>4, OneFetchOpens DEF j
<1>9. CASE OpenFails(f, a)
  <2>1. j.at = "opening" /\ (Set(f, fails) \/ Set(f, fewer)) /\ UNCHANGED <<policy, opened>>
    BY <1>9 DEF OpenFails, Settles, j
  <2> HIDE DEF fails, fewer
  <2> QED
    BY <2>1, <1>3, <1>5, OneFetchChanges
<1>10. CASE OpenSocks(f, a, answers)
  <2>1. j.at = "opening" /\ j.via = "socks" /\ a \in job[f].left /\ policy' = policy
    BY <1>10 DEF OpenSocks, j
  <2>2. \/ Opened(f, a) /\ Set(f, judged)
        \/ (Set(f, bars) \/ Set(f, refused1)) /\ UNCHANGED opened
    BY <1>10 DEF OpenSocks, Refuses, Settles, j
  <2> HIDE DEF judged, bars, refused1
  <2>3. CASE Opened(f, a) /\ Set(f, judged)
    BY <2>1, <2>3, <1>3, OneFetchOpens DEF j
  <2>4. CASE (Set(f, bars) \/ Set(f, refused1)) /\ UNCHANGED opened
    BY <2>1, <2>4, <1>3, <1>6, OneFetchChanges
  <2> QED
    BY <2>2, <2>3, <2>4
<1> QED
  BY <1>8, <1>9, <1>10

\* The steps that end a fetch.
LEMMA EndingIsSound ==
    ASSUME GuardInv, NEW f \in Fetches, NEW answer \in Answers,
           RedirectedAside(f) \/ Answered(f, answer) \/ Return(f)
    PROVE  GuardInv'
<1> DEFINE j == job[f]
           bars == [[j EXCEPT !.refused = TRUE] EXCEPT !.at = "done", !.error = "refused", !.left = {}]
           fails == [j EXCEPT !.at = "done", !.error = "unreachable", !.left = {}]
           ends == [j EXCEPT !.at = "done", !.error = answer, !.left = {}]
           handed == [j EXCEPT !.at = "returned", !.outcome = Outcome(j)]
<1>1. j \in FetchJobs /\ JudgedFirst(j) /\ RefusedOnce(j)
  BY DEF GuardInv, SoundFetch
<1> USE <1>1 DEF FetchJobs, FetchPhases, Errors, Answers, Failures, Destinations, Stacks, Vias,
        SoundFetch, JudgedFirst, RefusedOnce
<1> HIDE DEF j
<1>2. j.at = "sent" => SoundFetch(bars) /\ SoundFetch(fails) /\ SoundFetch(ends)
  OBVIOUS
<1>3. j.at = "done" => SoundFetch(handed)
  <2>1. Outcome(j) \in Errors
    BY DEF Outcome
  <2>2. handed \in FetchJobs
    BY ZenonT(40), <2>1
  <2>3. handed.at = "returned" /\ handed.stack = j.stack /\ handed.via = j.via /\ handed.refused = j.refused
          /\ handed.error = j.error /\ handed.outcome = Outcome(j)
    BY <2>1
  <2>4. Outcome(handed) = Outcome(j)
    BY <2>3 DEF Outcome
  <2> HIDE DEF handed, FetchJobs
  <2> QED
    BY <2>2, <2>3, <2>4
<1>4. CASE RedirectedAside(f) \/ Answered(f, answer)
  <2>1. /\ j.at = "sent" /\ UNCHANGED <<policy, opened>>
        /\ Set(f, bars) \/ Set(f, fails) \/ Set(f, ends)
    BY <1>4 DEF RedirectedAside, Answered, Refuses, Settles, j
  <2> HIDE DEF bars, fails, ends
  <2> QED
    BY <2>1, <1>2, OneFetchChanges
<1>5. CASE Return(f)
  <2>1. j.at = "done" /\ Set(f, handed) /\ UNCHANGED <<policy, opened>>
    BY <1>5 DEF Return, j
  <2> HIDE DEF handed
  <2> QED
    BY <2>1, <1>3, OneFetchChanges
<1> QED
  BY <1>4, <1>5

\* Every step of the guard and the stacks above it keeps the invariant.
LEMMA GuardHolds == GuardInv /\ [OutNext]_outVars => GuardInv'
<1> SUFFICES ASSUME GuardInv, [OutNext]_outVars PROVE GuardInv'
  OBVIOUS
<1>1. ASSUME NEW f \in Fetches, NEW host \in Hosts,
             \/ \E stack \in Stacks, via \in Vias, scheme \in Schemes, answers \in SUBSET Addresses :
                  Start(f, stack, via, scheme, host, answers)
             \/ Redirected(f, host) \/ GoesOn(f, host)
      PROVE  GuardInv'
  <2>1. "client" \in Stacks /\ "direct" \in Vias /\ "http" \in Schemes /\ {} \in SUBSET Addresses
    BY DEF Stacks, Vias, Schemes
  <2>2. host \in Destinations
    BY DEF Destinations
  <2> QED
    BY <1>1, <2>1, <2>2, AskingIsSound
<1>2. ASSUME NEW f \in Fetches, NEW answers \in SUBSET Addresses,
             JudgeProxied(f, answers) \/ Resolve(f, answers) \/ Request(f) \/ Reuse(f)
      PROVE  GuardInv'
  <2>1. "client" \in Stacks /\ "direct" \in Vias /\ "http" \in Schemes /\ ProxyHost \in Destinations
    BY DEF Stacks, Vias, Schemes, Destinations
  <2> QED
    BY <1>2, <2>1, AskingIsSound
<1>3. ASSUME NEW f \in Fetches, NEW a \in Addresses, NEW answers \in SUBSET Addresses,
             Open(f, a) \/ OpenFails(f, a) \/ OpenSocks(f, a, answers)
      PROVE  GuardInv'
  BY <1>3, ConnectingIsSound
<1>4. ASSUME NEW f \in Fetches, NEW answer \in Answers,
             RedirectedAside(f) \/ Answered(f, answer) \/ Return(f)
      PROVE  GuardInv'
  BY <1>4, EndingIsSound
<1>5. ASSUME NEW p \in Policies, Install(p)
      PROVE  GuardInv'
  BY <1>5 DEF Install, GuardInv, KnownPolicies
<1>6. ASSUME NEW c \in pool, Closed(c)
      PROVE  GuardInv'
  BY <1>6 DEF Closed, GuardInv
<1>7. CASE UNCHANGED outVars
  BY <1>7 DEF outVars, GuardInv
<1>8. CASE OutNext
  <2>1. {} \in SUBSET Addresses /\ "fetched" \in Answers
    BY DEF Answers
  <2> QED
    BY <1>8, <1>1, <1>2, <1>3, <1>4, <1>5, <1>6, <2>1 DEF OutNext
<1> QED
  BY <1>7, <1>8

\* It holds at the start.
LEMMA GuardStarts == OutInit => GuardInv
<1> SUFFICES ASSUME OutInit PROVE GuardInv
  OBVIOUS
<1>1. SoundFetch(NoJob)
  BY DEF SoundFetch, FetchJobs, FetchPhases, NoJob, JudgedFirst, RefusedOnce, Stacks, Vias, Destinations,
         KnownPolicies, Errors
<1> QED
  BY <1>1 DEF OutInit, GuardInv, SoundFetch, KnownPolicies

\* It gives the two properties.
LEMMA GuardSuffices == GuardInv => NothingInsideReached /\ RefusalIsFinal
<1> SUFFICES ASSUME GuardInv PROVE NothingInsideReached /\ RefusalIsFinal
  OBVIOUS
<1>1. \A f \in Fetches : job[f] \in FetchJobs /\ JudgedFirst(job[f]) /\ RefusedOnce(job[f])
  BY DEF GuardInv, SoundFetch
<1>2. NothingInsideReached
  BY <1>1 DEF NothingInsideReached, GuardInv, JudgedFirst, FetchJobs, Vias
<1>3. RefusalIsFinal
  BY <1>1 DEF RefusalIsFinal, RefusedOnce, Outcome, FetchJobs, Stacks, Failures
<1> QED
  BY <1>2, <1>3

-----------------------------------------------------------------------------
(* EngineCalls: one call of yt-dlp after the other.                          *)

CallSteps == {"idle", "extracting", "listed", "nothing", "filtering", "converting", "downloading",
              "processing", "collecting", "raised", "over"}
Media == {"downloading", "processing", "collecting"}
Chains == {<<>>, <<"stopped">>, <<"transport">>, <<"unexpected", "http_4xx">>, <<"unexpected", "http_5xx">>,
           <<"no_space">>, <<"other">>, <<"unexpected", "refusal">>, <<"quotes_refusal">>, <<"expected">>,
           <<"flaky">>, <<"expected", "http_5xx">>, <<"upcoming">>, <<"postprocessing">>, <<"unsupported">>}
Outcomes == {"none", "done", "Cancelled", "StorageFull", "PermanentError", "TransientError", "NotReady",
             "QuotaExceeded", "DestinationNotAllowed"}
Clips == [status : Range(Statuses), size : Sizes]
HookStates == [downloaded : BOOLEAN, notReady : Range(Statuses) \cup {"no"}, estimate : Nat]
EngineTypes ==
    /\ clip \in Clips
    /\ layers \in [config : Configs, feed : Stored]
    /\ token \in BOOLEAN
    /\ call \in [at : CallSteps, kind : FetchKinds, saw : Clips \cup {NoCall.saw}, artwork : BOOLEAN,
                 raised : Chains, outcome : Outcomes]
    /\ hooks \in HookStates

\* Which steps a call of each kind is at, and what the filters have let through.
OnItsWay ==
    /\ call.kind = "listing" => call.at \in {"idle", "extracting", "listed", "nothing", "raised", "over"}
    /\ call.kind = "direct" => call.at \notin {"listed", "nothing", "filtering"}
    /\ call.kind = "ytdlp" => call.at \notin {"listed", "nothing"}
    /\ call.kind = "ytdlp" /\ call.at \in {"converting"} \cup Media =>
         call.saw.status = "recorded" /\ (QuotaLeft # 0 => call.saw.size <= QuotaLeft)

\* What the filters left behind is true of this call, or of none.
HooksTrue ==
    /\ call.at \in {"extracting", "listed", "nothing", "filtering"} => hooks = NoHooks
    /\ call.at # "idle" /\ hooks.notReady # "no" => call.kind = "ytdlp" /\ call.saw.status # "recorded"
    /\ call.at # "idle" /\ hooks.estimate # 0 =>
         call.kind = "ytdlp" /\ call.saw.status = "recorded" /\ QuotaLeft # 0 /\ call.saw.size > QuotaLeft

\* Why the call raised what it raised.
RaisedFor ==
    /\ call.at \notin {"raised", "over", "nothing"} => call.raised = <<>>
    /\ call.raised = <<"stopped">> => token \/ hooks.notReady # "no" \/ hooks.estimate # 0
    /\ Contains(call.raised, "refusal") => refused # {}
    /\ call.raised = <<"upcoming">> => call.saw.status = "is_upcoming" /\ hooks.estimate = 0

\* The inductive invariant.
EngineInv ==
    /\ EngineTypes /\ OnItsWay /\ HooksTrue /\ RaisedFor
    /\ call.at # "over" => call.outcome = "none"
    /\ OutcomeTruthful

\* What a chain of exceptions is classified as.
LEMMA Classified ==
    ASSUME NEW chain \in Chains
    PROVE  /\ Classify(chain) \in {"Cancelled", "StorageFull", "PermanentError", "TransientError", "none"}
           /\ Classify(chain) = "Cancelled" => chain = <<"stopped">>
           /\ Classify(chain) = "StorageFull" => Contains(chain, "no_space")
           /\ chain = <<"upcoming">> => Classify(chain) = "PermanentError"
<1> DEFINE I == {i \in 1..Len(chain) : ByClass(chain[i]) # "none"}
           first == SelectInSeq(chain, LAMBDA e : ByClass(e) # "none")
           classes == {ByClass(chain[i]) : i \in DOMAIN chain}
<1>1. Len(chain) \in 0..2 /\ DOMAIN chain = 1..Len(chain)
  BY DEF Chains
<1>2. first = IF I # {} THEN Min(I) ELSE 0
  BY DEF SelectInSeq
<1>3. I # {} => Min(I) \in I
  <2>1. I \in SUBSET {1, 2}
    BY <1>1
  <2>2. I # {} => \E x \in I : \A y \in I : x <= y
    BY <2>1
  <2> QED
    BY <2>2 DEF Min
<1>4. first # 0 => first \in DOMAIN chain /\ ByClass(chain[first]) \in classes
  BY <1>1, <1>2, <1>3
<1>5. Classify(chain) = IF "Cancelled" \in classes THEN "Cancelled"
                        ELSE IF "StorageFull" \in classes THEN "StorageFull"
                        ELSE IF first # 0 THEN ByClass(chain[first]) ELSE "TransientError"
  BY DEF Classify
<1>6. \A e : /\ ByClass(e) \in {"Cancelled", "StorageFull", "PermanentError", "TransientError", "none"}
             /\ ByClass(e) = "Cancelled" => e = "stopped"
             /\ ByClass(e) = "StorageFull" => e = "no_space"
  BY DEF ByClass
<1>7. Classify(chain) \in {"Cancelled", "StorageFull", "PermanentError", "TransientError", "none"}
  BY <1>5, <1>6
<1>8. ASSUME Classify(chain) = "Cancelled" PROVE chain = <<"stopped">>
  <2>1. "Cancelled" \in classes
    BY <1>4, <1>5, <1>8
  <2>2. PICK i \in 1..Len(chain) : chain[i] = "stopped"
    BY <2>1, <1>1, <1>6
  <2> QED
    BY <2>2 DEF Chains
<1>9. ASSUME Classify(chain) = "StorageFull" PROVE Contains(chain, "no_space")
  <2>1. "StorageFull" \in classes
    BY <1>4, <1>5, <1>9
  <2> QED
    BY <2>1, <1>1, <1>6 DEF Contains
<1>10. ASSUME chain = <<"upcoming">> PROVE Classify(chain) = "PermanentError"
  <2>1. ByClass("upcoming") = "PermanentError"
    BY DEF ByClass
  <2>2. Len(chain) = 1 /\ chain[1] = "upcoming" /\ DOMAIN chain = {1}
    BY <1>10
  <2>3. classes = {"PermanentError"} /\ 1 \in I
    BY <2>1, <2>2
  <2> HIDE DEF classes, first, I
  <2>4. first # 0
    BY <2>3, <1>2, <1>3, <1>1 DEF I
  <2> QED
    BY <2>3, <2>4, <1>4, <1>5
<1> QED
  BY <1>7, <1>8, <1>9, <1>10

\* Which links a chain of the model contains.
LEMMA Linked ==
    ASSUME NEW chain \in Chains
    PROVE  /\ Contains(chain, "stopped") <=> chain = <<"stopped">>
           /\ Contains(chain, "upcoming") <=> chain = <<"upcoming">>
           /\ Contains(chain, "refusal") <=> chain = <<"unexpected", "refusal">>
           /\ Contains(chain, "quotes_refusal") <=> chain = <<"quotes_refusal">>
BY DEF Chains, Contains

\* What can be raised at a step is one of the chains, and its reasons hold.
LEMMA Raised ==
    ASSUME NEW at, NEW chain \in Raisable(at)
    PROVE  /\ chain \in Chains /\ chain # <<"stopped">>
           /\ Contains(chain, "refusal") => refused # {}
           /\ chain = <<"upcoming">> => call.saw.status = "is_upcoming" /\ at = "extracting"
<1>1. chain \in Chains /\ chain # <<"stopped">>
  BY DEF Raisable, Chains
<1>2. chain = <<"unexpected", "refusal">> => refused # {}
  BY DEF Raisable
<1>3. chain = <<"upcoming">> => call.saw.status = "is_upcoming" /\ at = "extracting"
  BY DEF Raisable
<1> QED
  BY <1>1, <1>2, <1>3, Linked

\* Before yt-dlp runs, and what runs beside a call.
LEMMA AroundACall ==
    ASSUME EngineInv,
           \/ \E kind \in FetchKinds, url \in {"accepted", "refused"}, artwork \in {"none", "refused", "accepted"} :
                 StartCall(kind, url, artwork)
           \/ \E what \in {"media", "artwork"} : Refuse(what)
           \/ CallAgain \/ Cancel \/ Air
    PROVE  EngineInv'
<1> USE DEF EngineInv, EngineTypes, OnItsWay, HooksTrue, RaisedFor, OutcomeTruthful, CallSteps, Media
<1>1. <<>> \in Chains /\ ~Contains(<<>>, "upcoming") /\ ~Contains(<<>>, "refusal")
      /\ <<>> # <<"stopped">> /\ <<>> # <<"upcoming">>
  BY DEF Chains, Contains
<1>2. ASSUME NEW kind \in FetchKinds, NEW url \in {"accepted", "refused"},
             NEW artwork \in {"none", "refused", "accepted"}, StartCall(kind, url, artwork)
      PROVE  EngineInv'
  <2> DEFINE at == IF token \/ url = "refused" THEN "over" ELSE IF kind = "direct" THEN "converting" ELSE "extracting"
             outcome == IF token THEN "Cancelled" ELSE IF url = "refused" THEN "DestinationNotAllowed" ELSE "none"
  <2>1. call' = [at |-> at, kind |-> kind, saw |-> clip, artwork |-> (artwork = "accepted"),
                 raised |-> <<>>, outcome |-> outcome]
    BY <1>2 DEF StartCall, NoCall
  <2>2. /\ hooks' = NoHooks /\ UNCHANGED <<clip, layers, token>>
        /\ outcome = "DestinationNotAllowed" => refused' # {}
    BY <1>2 DEF StartCall
  <2>3. EngineTypes'
    <3>1. clip \in Clips \cup {NoCall.saw} /\ at \in CallSteps /\ outcome \in Outcomes
      BY DEF Outcomes
    <3> HIDE DEF at, outcome
    <3>2. NoHooks \in HookStates
      BY DEF NoHooks, HookStates
    <3> HIDE DEF CallSteps
    <3>3. call' \in [at : CallSteps, kind : FetchKinds, saw : Clips \cup {NoCall.saw}, artwork : BOOLEAN,
                     raised : Chains, outcome : Outcomes]
      BY <1>1, <2>1, <3>1
    <3> QED
      BY <2>2, <3>2, <3>3
  <2>4. /\ call'.at = at /\ call'.kind = kind /\ call'.raised = <<>> /\ call'.outcome = outcome
        /\ hooks'.notReady = "no" /\ hooks'.estimate = 0
    BY <2>1, <2>2 DEF NoHooks
  <2>5. OnItsWay' /\ HooksTrue'
    BY <2>2, <2>4 DEF FetchKinds
  <2>6. RaisedFor' /\ OutcomeTruthful' /\ (call'.at # "over" => call'.outcome = "none")
    BY <1>1, <2>2, <2>4
  <2> QED
    BY <2>3, <2>5, <2>6
<1>3. ASSUME NEW what \in {"media", "artwork"}, Refuse(what) PROVE EngineInv'
  BY <1>3 DEF Refuse
<1>4. CASE CallAgain
  <2>1. call' = NoCall /\ token' = FALSE /\ UNCHANGED <<clip, layers, hooks, refused>>
    BY <1>4 DEF CallAgain
  <2>2. EngineTypes'
    <3>1. NoCall \in [at : CallSteps, kind : FetchKinds, saw : Clips \cup {NoCall.saw}, artwork : BOOLEAN,
                      raised : Chains, outcome : Outcomes]
      <4>1. "idle" \in CallSteps /\ "listing" \in FetchKinds /\ "none" \in Outcomes
        BY DEF FetchKinds, Outcomes
      <4> HIDE DEF CallSteps
      <4>2. NoCall.saw = [status |-> "recorded", size |-> 0]
        BY DEF NoCall
      <4>3. [status |-> "recorded", size |-> 0] \in Clips \cup {NoCall.saw}
        BY <4>2
      <4> DEFINE S == Clips \cup {NoCall.saw}
      <4> HIDE DEF S
      <4> QED
        BY <1>1, <4>1, <4>3 DEF NoCall, S
    <3> QED
      BY <2>1, <3>1
  <2>3. call'.at = "idle" /\ call'.kind = "listing" /\ call'.raised = <<>> /\ call'.outcome = "none"
    BY <2>1 DEF NoCall
  <2>4. OnItsWay' /\ HooksTrue'
    BY <2>1, <2>3
  <2>5. RaisedFor' /\ OutcomeTruthful'
    BY <1>1, <2>1, <2>3
  <2> QED
    BY <2>2, <2>3, <2>4, <2>5
<1>5. CASE Cancel
  BY <1>5 DEF Cancel
<1>6. CASE Air
  <2>1. \A i \in 1..3 : Statuses[i + 1] \in Range(Statuses)
    BY DEF Statuses, Range
  <2>2. clip' \in Clips
    BY <1>6, <2>1 DEF Air, Clips
  <2> QED
    BY <1>6, <2>2 DEF Air
<1> QED
  BY <1>2, <1>3, <1>4, <1>5, <1>6

\* A step that raises, ends, or only goes on, and keeps the types of the hooks.
Steps(at, raised, outcome) ==
    /\ \/ call' = [call EXCEPT !.at = at] /\ raised = call.raised /\ outcome = call.outcome
       \/ call' = [call EXCEPT !.at = at, !.raised = raised] /\ outcome = call.outcome
       \/ call' = [call EXCEPT !.at = at, !.outcome = outcome] /\ raised = call.raised
    /\ UNCHANGED <<clip, layers, token>>

\* It keeps the types, and what the call was started with.
LEMMA StepTypes ==
    ASSUME EngineTypes, NEW at \in CallSteps, NEW raised \in Chains, NEW outcome \in Outcomes,
           Steps(at, raised, outcome), hooks' \in HookStates
    PROVE  /\ EngineTypes'
           /\ call'.at = at /\ call'.kind = call.kind /\ call'.saw = call.saw
           /\ call'.raised = raised /\ call'.outcome = outcome
BY DEF EngineTypes, Steps

\* Extraction, the listing, and the filters.
LEMMA BeforeTheMedia ==
    ASSUME EngineInv, Extract \/ ListingEnds \/ Filter
    PROVE  EngineInv'
<1> USE DEF EngineInv, OnItsWay, HooksTrue, RaisedFor, OutcomeTruthful, CallSteps, Media
<1>1. /\ <<"stopped">> \in Chains /\ <<"stopped">> # <<"upcoming">>
      /\ ~Contains(<<"stopped">>, "refusal") /\ ~Contains(<<"stopped">>, "upcoming")
      /\ ~Contains(<<>>, "refusal") /\ ~Contains(<<>>, "upcoming") /\ ~Contains(<<>>, "no_space")
      /\ <<>> \in Chains /\ <<>> # <<"stopped">> /\ <<>> # <<"upcoming">>
  BY Linked DEF Chains, Contains
<1>2. /\ call.at \in CallSteps /\ call.kind \in FetchKinds /\ call.raised \in Chains /\ call.outcome \in Outcomes
      /\ hooks \in HookStates
  BY DEF EngineTypes
<1>3. CASE Extract
  <2>1. call.at = "extracting" /\ UNCHANGED <<clip, layers, token, hooks, refused>>
    BY <1>3 DEF Extract
  <2>2. call.raised = <<>> /\ call.outcome = "none" /\ hooks = NoHooks
    BY <2>1
  <2>3. CASE call.kind = "listing" /\ Goes("listed")
    <3>1. EngineTypes' /\ call'.at = "listed" /\ call'.kind = "listing" /\ call'.saw = call.saw
          /\ call'.raised = <<>> /\ call'.outcome = "none"
      <4>1. Steps("listed", <<>>, "none")
        BY <2>1, <2>2, <2>3 DEF Goes, Steps
      <4> QED
        BY <1>1, <1>2, <2>1, <2>2, <2>3, <4>1, StepTypes DEF Outcomes
    <3> QED
      BY <1>1, <2>1, <2>2, <3>1 DEF NoHooks
  <2>4. CASE call.kind = "ytdlp" /\ Goes("filtering")
    <3>1. EngineTypes' /\ call'.at = "filtering" /\ call'.kind = "ytdlp" /\ call'.saw = call.saw
          /\ call'.raised = <<>> /\ call'.outcome = "none"
      <4>1. Steps("filtering", <<>>, "none")
        BY <2>1, <2>2, <2>4 DEF Goes, Steps
      <4> QED
        BY <1>1, <1>2, <2>1, <2>2, <2>4, <4>1, StepTypes DEF Outcomes
    <3> QED
      BY <1>1, <2>1, <2>2, <3>1 DEF NoHooks
  <2>5. ASSUME NEW chain \in Raisable("extracting"),
               IF call.kind = "listing" /\ chain # <<"no_space">>
               THEN call' = [call EXCEPT !.at = "nothing", !.raised = chain]
               ELSE Raises(chain)
        PROVE  EngineInv'
    <3>1. chain \in Chains /\ chain # <<"stopped">> /\ (Contains(chain, "refusal") => refused # {})
          /\ (chain = <<"upcoming">> => call.saw.status = "is_upcoming")
      BY Raised
    <3>2. PICK at \in CallSteps : /\ at = "raised" \/ (at = "nothing" /\ call.kind = "listing")
                                  /\ call' = [call EXCEPT !.at = at, !.raised = chain]
      BY <2>5 DEF Raises
    <3>3. EngineTypes' /\ call'.at = at /\ call'.kind = call.kind /\ call'.saw = call.saw
          /\ call'.raised = chain /\ call'.outcome = "none"
      <4>1. Steps(at, chain, "none")
        BY <2>1, <2>2, <3>2 DEF Steps
      <4> QED
        BY <1>2, <2>1, <3>1, <4>1, StepTypes DEF Outcomes
    <3>4. OnItsWay'
      BY <2>1, <3>2, <3>3 DEF FetchKinds
    <3>5. HooksTrue'
      BY <2>1, <2>2, <3>3 DEF NoHooks
    <3>6. RaisedFor'
      BY <2>1, <2>2, <3>1, <3>2, <3>3 DEF NoHooks
    <3>7. OutcomeTruthful'
      BY <3>3
    <3> QED
      BY <3>3, <3>4, <3>5, <3>6, <3>7
  <2> QED
    BY <1>3, <2>3, <2>4, <2>5 DEF Extract
<1>4. CASE ListingEnds
  <2>1. call.at \in {"nothing", "listed"} /\ call.kind = "listing" /\ hooks = NoHooks
        /\ UNCHANGED <<clip, layers, token, hooks, refused>>
    BY <1>2, <1>4 DEF ListingEnds, FetchKinds
  <2>2. PICK outcome \in {"DestinationNotAllowed", "PermanentError", "Cancelled", "done"} :
          /\ Finishes(outcome)
          /\ outcome = "DestinationNotAllowed" => refused # {}
          /\ outcome = "Cancelled" => token
    BY <1>4 DEF ListingEnds
  <2>3. EngineTypes' /\ call'.at = "over" /\ call'.kind = "listing" /\ call'.saw = call.saw
        /\ call'.raised = call.raised /\ call'.outcome = outcome
    <3>1. Steps("over", call.raised, outcome)
      BY <2>1, <2>2 DEF Finishes, Steps
    <3> QED
      BY <1>2, <2>1, <3>1, StepTypes DEF Outcomes
  <2>4. OnItsWay' /\ HooksTrue'
    BY <2>1, <2>3 DEF NoHooks
  <2>5. RaisedFor' /\ OutcomeTruthful'
    BY <2>1, <2>2, <2>3
  <2> QED
    BY <2>3, <2>4, <2>5
<1>5. CASE Filter
  <2>1. call.at = "filtering" /\ call.kind = "ytdlp" /\ hooks = NoHooks /\ call.raised = <<>>
        /\ call.outcome = "none" /\ UNCHANGED <<clip, layers, token, refused>>
    BY <1>2, <1>5 DEF Filter, FetchKinds
  <2>2. call.saw \in [status : Range(Statuses), size : Nat]
    <3>1. "recorded" \in Range(Statuses)
      <4>1. Statuses[4] = "recorded" /\ 4 \in DOMAIN Statuses
        BY DEF Statuses
      <4> QED
        BY <4>1 DEF Range
    <3>2. call.saw \in Clips \/ call.saw = [status |-> "recorded", size |-> 0]
      BY DEF EngineTypes, NoCall
    <3>3. Clips \subseteq [status : Range(Statuses), size : Nat]
      BY EngineAssumption DEF Clips
    <3> QED
      BY <3>1, <3>2, <3>3
  <2>3. CASE call.saw.status # "recorded" /\ Raises(<<"stopped">>)
             /\ hooks' = [hooks EXCEPT !.notReady = call.saw.status]
    <3>1. hooks' \in HookStates
          /\ hooks'.notReady = call.saw.status /\ hooks'.estimate = 0
      BY <2>1, <2>2, <2>3 DEF NoHooks, HookStates
    <3>2. EngineTypes' /\ call'.at = "raised" /\ call'.kind = "ytdlp" /\ call'.saw = call.saw
          /\ call'.raised = <<"stopped">> /\ call'.outcome = "none"
      <4>1. Steps("raised", <<"stopped">>, "none")
        BY <2>1, <2>3 DEF Raises, Steps
      <4> QED
        BY <1>1, <2>1, <3>1, <4>1, StepTypes DEF Outcomes
    <3>3. "no" \notin Range(Statuses)
      BY DEF Statuses, Range
    <3> QED
      BY <1>1, <2>1, <2>2, <2>3, <3>1, <3>2, <3>3
  <2>4. CASE call.saw.status = "recorded" /\ QuotaLeft # 0 /\ call.saw.size > QuotaLeft /\ Raises(<<"stopped">>)
             /\ hooks' = [hooks EXCEPT !.estimate = call.saw.size]
    <3>1. hooks' \in HookStates
          /\ hooks'.notReady = "no" /\ hooks'.estimate = call.saw.size /\ call.saw.size # 0
      <4>1. call.saw.size \in Nat /\ call.saw.size # 0
        BY <2>2, <2>4, EngineAssumption
      <4> QED
        BY <2>1, <2>4, <4>1 DEF NoHooks, HookStates
    <3>2. EngineTypes' /\ call'.at = "raised" /\ call'.kind = "ytdlp" /\ call'.saw = call.saw
          /\ call'.raised = <<"stopped">> /\ call'.outcome = "none"
      <4>1. Steps("raised", <<"stopped">>, "none")
        BY <2>1, <2>4 DEF Raises, Steps
      <4> QED
        BY <1>1, <2>1, <3>1, <4>1, StepTypes DEF Outcomes
    <3> QED
      BY <1>1, <2>1, <2>2, <2>4, <3>1, <3>2
  <2>5. CASE call.saw.status = "recorded" /\ ~(QuotaLeft # 0 /\ call.saw.size > QuotaLeft)
             /\ Goes("converting") /\ UNCHANGED hooks
    <3>1. EngineTypes' /\ call'.at = "converting" /\ call'.kind = "ytdlp" /\ call'.saw = call.saw
          /\ call'.raised = <<>> /\ call'.outcome = "none"
      <4>1. Steps("converting", <<>>, "none")
        BY <2>1, <2>5 DEF Goes, Steps
      <4> QED
        BY <1>1, <1>2, <2>1, <2>5, <4>1, StepTypes DEF Outcomes
    <3>2. QuotaLeft # 0 => call.saw.size <= QuotaLeft
      BY <2>2, <2>5, EngineAssumption
    <3> QED
      BY <1>1, <2>1, <2>2, <2>5, <3>1, <3>2 DEF NoHooks
  <2> QED
    BY <1>5, <2>3, <2>4, <2>5 DEF Filter
<1> QED
  BY <1>3, <1>4, <1>5

\* The media: its hooks, its errors, what is collected of it.
LEMMA WithTheMedia ==
    ASSUME EngineInv, Convert \/ Download \/ Process \/ Fail \/ Collect
    PROVE  EngineInv'
<1> USE DEF EngineInv, OnItsWay, HooksTrue, RaisedFor, OutcomeTruthful, CallSteps, Media
<1>1. /\ <<"stopped">> \in Chains /\ <<"stopped">> # <<"upcoming">>
      /\ ~Contains(<<"stopped">>, "refusal") /\ ~Contains(<<"stopped">>, "upcoming")
      /\ ~Contains(<<>>, "refusal") /\ ~Contains(<<>>, "upcoming") /\ ~Contains(<<>>, "no_space")
      /\ <<>> \in Chains /\ <<>> # <<"stopped">> /\ <<>> # <<"upcoming">>
  BY Linked DEF Chains, Contains
<1>2. /\ call.at \in CallSteps /\ call.kind \in FetchKinds /\ call.raised \in Chains /\ call.outcome \in Outcomes
      /\ hooks \in HookStates
  BY DEF EngineTypes
<1>3. call.at \in {"converting"} \cup Media
  BY DEF Convert, Download, Process, Fail, Collect
<1>4. call.kind # "listing" /\ call.raised = <<>> /\ call.outcome = "none"
  BY <1>3
<1>5. /\ UNCHANGED <<clip, layers, token, refused>>
      /\ hooks' \in HookStates
      /\ hooks'.notReady = hooks.notReady /\ hooks'.estimate = hooks.estimate
  BY <1>2 DEF Convert, Download, Process, Fail, Collect, Hook, HookStates
<1>6. \/ \E at \in Media : Goes(at)
      \/ \E chain \in Raisable(call.at) : Raises(chain)
      \/ token /\ Raises(<<"stopped">>)
      \/ \E outcome \in {"PermanentError", "done"} : Finishes(outcome)
  BY DEF Convert, Download, Process, Fail, Collect, Hook
<1>7. ASSUME NEW at \in Media, Goes(at) PROVE EngineInv'
  <2>1. EngineTypes' /\ call'.at = at /\ call'.kind = call.kind /\ call'.saw = call.saw
        /\ call'.raised = <<>> /\ call'.outcome = "none"
    <3>1. Steps(at, <<>>, "none")
      BY <1>4, <1>5, <1>7 DEF Goes, Steps
    <3> QED
      BY <1>1, <1>5, <3>1, StepTypes DEF Outcomes
  <2> QED
    BY <1>1, <1>2, <1>3, <1>4, <1>5, <2>1 DEF FetchKinds
<1>8. ASSUME NEW chain \in Chains, chain # <<"upcoming">>, chain = <<"stopped">> => token,
             Contains(chain, "refusal") => refused # {}, Raises(chain)
      PROVE  EngineInv'
  <2>1. EngineTypes' /\ call'.at = "raised" /\ call'.kind = call.kind /\ call'.saw = call.saw
        /\ call'.raised = chain /\ call'.outcome = "none"
    <3>1. Steps("raised", chain, "none")
      BY <1>4, <1>5, <1>8 DEF Raises, Steps
    <3> QED
      BY <1>5, <3>1, StepTypes DEF Outcomes
  <2> QED
    BY <1>2, <1>3, <1>4, <1>5, <1>8, <2>1 DEF FetchKinds
<1>9. ASSUME NEW outcome \in {"PermanentError", "done"}, Finishes(outcome) PROVE EngineInv'
  <2>1. EngineTypes' /\ call'.at = "over" /\ call'.kind = call.kind /\ call'.saw = call.saw
        /\ call'.raised = <<>> /\ call'.outcome = outcome
    <3>1. Steps("over", <<>>, outcome)
      BY <1>4, <1>5, <1>9 DEF Finishes, Steps
    <3> QED
      BY <1>1, <1>5, <3>1, StepTypes DEF Outcomes
  <2> QED
    BY <1>1, <1>2, <1>3, <1>4, <1>5, <2>1 DEF FetchKinds
<1>10. ASSUME NEW chain \in Raisable(call.at), Raises(chain) PROVE EngineInv'
  BY <1>3, <1>8, <1>10, Raised
<1>11. CASE token /\ Raises(<<"stopped">>)
  BY <1>1, <1>8, <1>11
<1> QED
  BY <1>6, <1>7, <1>9, <1>10, <1>11

\* What Copycast makes of what was raised.
LEMMA TranslatedTruly ==
    ASSUME EngineInv, Translate
    PROVE  EngineInv'
<1> DEFINE chain == call.raised
           outcome == IF call.kind = "listing"
                      THEN IF DestinationRefusal(chain) THEN "DestinationNotAllowed" ELSE Classify(chain)
                      ELSE Verdict(chain)
<1>1. /\ call.at = "raised" /\ chain \in Chains /\ Finishes(outcome)
      /\ UNCHANGED <<clip, layers, token, hooks, refused, told, spent>>
  BY DEF Translate, EngineInv, EngineTypes
<1>2. /\ Classify(chain) \in {"Cancelled", "StorageFull", "PermanentError", "TransientError", "none"}
      /\ Classify(chain) = "Cancelled" => chain = <<"stopped">>
      /\ Classify(chain) = "StorageFull" => Contains(chain, "no_space")
      /\ chain = <<"upcoming">> => Classify(chain) = "PermanentError"
      /\ Contains(chain, "upcoming") <=> chain = <<"upcoming">>
      /\ DestinationRefusal(chain) => refused # {}
      /\ chain = <<"upcoming">> => ~DestinationRefusal(chain)
  <2>1. <<"upcoming">> # <<"unexpected", "refusal">> /\ <<"upcoming">> # <<"quotes_refusal">>
    OBVIOUS
  <2> QED
    BY <1>1, <2>1, Classified, Linked DEF DestinationRefusal, EngineInv, RaisedFor
<1>3. /\ call.kind = "listing" => outcome = IF DestinationRefusal(chain) THEN "DestinationNotAllowed"
                                            ELSE Classify(chain)
      /\ call.kind # "listing" =>
           outcome = IF hooks.estimate # 0 THEN "QuotaExceeded"
                     ELSE IF hooks.notReady # "no" THEN "NotReady"
                     ELSE IF DestinationRefusal(chain) THEN "DestinationNotAllowed"
                     ELSE IF call.kind = "ytdlp" /\ chain = <<"upcoming">> /\ Classify(chain) = "PermanentError"
                     THEN "NotReady" ELSE Classify(chain)
  BY <1>2 DEF Verdict
<1>4. outcome \in Outcomes
  <2>1. CASE call.kind = "listing"
    BY <1>2, <1>3, <2>1 DEF Outcomes
  <2>2. CASE call.kind # "listing"
    BY <1>2, <1>3, <2>2 DEF Outcomes
  <2> QED
    BY <2>1, <2>2
<1>5. /\ hooks \in HookStates
      /\ EngineTypes
  BY DEF EngineInv, EngineTypes
<1> HIDE DEF outcome
<1>6. EngineTypes' /\ call'.at = "over" /\ call'.kind = call.kind /\ call'.saw = call.saw
      /\ call'.raised = chain /\ call'.outcome = outcome
  <2>1. Steps("over", chain, outcome)
    BY <1>1 DEF Finishes, Steps
  <2> QED
    BY <1>1, <1>4, <1>5, <2>1, StepTypes DEF CallSteps
<1>7. OnItsWay' /\ HooksTrue' /\ RaisedFor'
  BY <1>1, <1>6 DEF EngineInv, OnItsWay, HooksTrue, RaisedFor, Media
<1>8. /\ outcome = "Cancelled" => token
      /\ outcome = "NotReady" => call.kind = "ytdlp" /\ call.saw.status # "recorded"
      /\ outcome = "QuotaExceeded" => call.saw.status = "recorded" /\ QuotaLeft # 0 /\ call.saw.size > QuotaLeft
  <2>1. /\ hooks.notReady # "no" => call.kind = "ytdlp" /\ call.saw.status # "recorded"
        /\ hooks.estimate # 0 => /\ call.kind = "ytdlp" /\ call.saw.status = "recorded"
                                  /\ QuotaLeft # 0 /\ call.saw.size > QuotaLeft
        /\ chain = <<"stopped">> => token \/ hooks.notReady # "no" \/ hooks.estimate # 0
        /\ chain = <<"upcoming">> => call.saw.status = "is_upcoming"
    BY <1>1 DEF EngineInv, HooksTrue, RaisedFor
  <2>2. CASE call.kind = "listing"
    BY <1>2, <1>3, <2>1, <2>2
  <2>3. CASE call.kind # "listing"
    BY <1>2, <1>3, <2>1, <2>3
  <2> QED
    BY <2>2, <2>3
<1>9. /\ outcome = "DestinationNotAllowed" => refused # {}
      /\ outcome = "StorageFull" => Contains(chain, "no_space")
      /\ Contains(chain, "upcoming") /\ call.kind = "ytdlp" => outcome = "NotReady"
  BY <1>1, <1>2, <1>3 DEF EngineInv, HooksTrue, RaisedFor
<1> QED
  BY <1>1, <1>6, <1>7, <1>8, <1>9 DEF EngineInv, OutcomeTruthful

\* Every step of a call keeps the invariant.
LEMMA EngineHolds == EngineInv /\ [EngineNext]_engineVars => EngineInv'
<1> SUFFICES ASSUME EngineInv, [EngineNext]_engineVars PROVE EngineInv'
  OBVIOUS
<1>1. CASE UNCHANGED engineVars
  BY <1>1 DEF engineVars, EngineInv, EngineTypes, OnItsWay, HooksTrue, RaisedFor, OutcomeTruthful
<1>2. CASE EngineNext
  BY <1>2, AroundACall, BeforeTheMedia, WithTheMedia, TranslatedTruly DEF EngineNext
<1> QED
  BY <1>1, <1>2

\* It holds at the start.
LEMMA EngineStarts == EngineInit => EngineInv
<1> SUFFICES ASSUME EngineInit PROVE EngineInv
  OBVIOUS
<1>1. <<>> \in Chains /\ ~Contains(<<>>, "upcoming") /\ ~Contains(<<>>, "refusal")
      /\ <<>> # <<"stopped">> /\ <<>> # <<"upcoming">>
  BY DEF Chains, Contains
<1>2. EngineTypes
  <2>1. "idle" \in CallSteps /\ "listing" \in FetchKinds /\ "none" \in Outcomes
    BY DEF FetchKinds, Outcomes, CallSteps
  <2>2. NoCall.saw = [status |-> "recorded", size |-> 0]
    BY DEF NoCall
  <2>3. [status |-> "recorded", size |-> 0] \in Clips \cup {NoCall.saw}
    BY <2>2
  <2> DEFINE S == Clips \cup {NoCall.saw}
  <2> HIDE DEF S
  <2>4. NoCall \in [at : CallSteps, kind : FetchKinds, saw : S, artwork : BOOLEAN,
                    raised : Chains, outcome : Outcomes]
    BY <1>1, <2>1, <2>3 DEF NoCall, S
  <2>5. NoHooks \in HookStates
    BY DEF NoHooks, HookStates
  <2> QED
    BY <2>4, <2>5 DEF EngineInit, EngineTypes, Clips, S
<1> QED
  BY <1>1, <1>2 DEF EngineInit, EngineInv, OnItsWay, HooksTrue, RaisedFor, OutcomeTruthful, NoCall, NoHooks, Media

\* With what merge_options makes of the layers, it gives the property.
LEMMA EngineSuffices == EngineInv => CallTruthful
<1> SUFFICES ASSUME EngineInv PROVE CallTruthful
  OBVIOUS
<1>1. layers.config \in Configs
  BY DEF EngineInv, EngineTypes
<1>2. layers.config \cap Owned = {}
  BY <1>1, EngineAssumption
<1>3. \A key \in OptionKeys :
         /\ Param(key) = "feed" => key \in FeedOptions
         /\ key \in layers.config \ (Base \cup FeedOptions) => Param(key) = "config"
         /\ key \in Owned => Param(key) \in {"copycast", "default"}
  BY <1>2, EngineAssumption DEF Param, Merged, StripOwned, Sanitized
<1> QED
  BY <1>3 DEF EngineInv, CallTruthful, NothingUnfitFetched, OnItsWay, Media

-----------------------------------------------------------------------------
(* Access: what a request may do.                                            *)

Acting == [user : Users, admin : BOOLEAN, via : {"open", "session", "api_key"}, key : KeyIds \cup {None},
           scope : Scopes \cup {None}]
Requests == [at : {"service"}, page : {"none", "blind", "shown"}, p : Acting, name : Routed,
             target : Feeds, deleting : BOOLEAN]
ForKeys == {"get_feed", "create_mirror", "update_mirror", "delete_feed"}

TableTypes ==
    /\ sessions \subseteq Users
    /\ keys \in [KeyIds -> [owner : Users, scope : Scopes] \cup {None}]
    /\ feeds \in [Feeds -> [owner : Users, pair : 1..MaxPair] \cup {None}]
    /\ pairs \in 0..MaxPair
    /\ hands \in [1..MaxPair -> SUBSET (Persons \X Scopes)]
    /\ minted \in [1..MaxPair -> Feeds \cup {None}]
    /\ \A k \in KeyIds : Live(k) => k \in issued

\* The key of a request under way still is what it was, or its end was noted.
KeyStands(p) ==
    \/ Live(p.key) /\ keys[p.key].owner = p.user /\ keys[p.key].scope = p.scope
    \/ \A w \in Scopes : ScopeAllows(p.scope, w) => <<p.key, w>> \in reprieved

\* What was judged of a request when it arrived still holds while it is under way: a
\* start of the api, the only change of roles, ends every request.
Judged(r) ==
    /\ Configured(r.p.user) /\ (r.p.admin <=> conf[r.p.user] = "admin")
    /\ r.p.via = "api_key" =>
         /\ r.p.key \in KeyIds /\ r.p.scope \in Scopes /\ r.name \in ForKeys
         /\ r.name = "delete_feed" => ScopeAllows(r.p.scope, "full")
         /\ r.name \in {"create_mirror", "update_mirror"} => ScopeAllows(r.p.scope, "write")
         /\ KeyStands(r.p)
    /\ r.page # "shown" /\ (r.page = "blind" => r.name = "get_feed")
CallsJudged ==
    /\ calls \in [Calls -> Requests \cup {Idle}]
    /\ \A c \in Calls : calls[c].at = "service" => Judged(calls[c])

\* A Feed has a pair of its own, minted for it.
PairsKept == \A f \in Feeds : feeds[f] # None => feeds[f].pair <= pairs /\ minted[feeds[f].pair] = f

\* Who may is written down as soon as they may.
EntitledNow ==
    /\ entitled = [n \in 1..MaxPair |-> entitled[n]]
    /\ \A f \in Feeds, x \in Persons, w \in Scopes : May(x, w, f) => <<x, w>> \in entitled[feeds[f].pair]

\* The inductive invariant.
AccessInv == TableTypes /\ CallsJudged /\ PairsKept /\ EntitledNow /\ OnlyTheEntitled

\* A right to the Feeds of an Owner.
RightOver(x, what, owner) ==
    \/ x \in Users /\ Configured(x) /\ (x = owner \/ conf[x] = "admin")
    \/ /\ x \in KeyIds /\ Live(x) /\ Configured(keys[x].owner) /\ keys[x].owner = owner
       /\ ScopeAllows(keys[x].scope, what)

\* The table of capabilities, as far as rights depend on it.
LEMMA CapabilityTable ==
    /\ Tools = ForKeys
    /\ \A n \in {"create_mirror", "update_mirror", "delete_feed"} :
         Capability[n].method # "GET" /\ ~Capability[n].reads
    /\ \A n \in Routed : Capability[n].method = "GET" => n = "get_feed"
<1> DEFINE Names8 == {"get_feed", "create_mirror", "update_mirror", "delete_feed",
                     "rotate_feed_credentials", "create_api_key", "revoke_api_key", "purge_episodes"}
<1>1. Routed = Names8
  BY DEF Routed, Capability, SystemOnly
<1>2. /\ Capability["get_feed"] = [access |-> "owner_of_feed", method |-> "GET", tool |-> TRUE, reads |-> TRUE]
      /\ Capability["create_mirror"] = [access |-> "member", method |-> "POST", tool |-> TRUE, reads |-> FALSE]
  BY DEF Capability, Is
<1>3. /\ Capability["update_mirror"] = [access |-> "owner_of_feed", method |-> "PATCH", tool |-> TRUE, reads |-> FALSE]
      /\ Capability["delete_feed"] = [access |-> "owner_of_feed", method |-> "DELETE", tool |-> TRUE, reads |-> FALSE]
      /\ Capability["rotate_feed_credentials"] = [access |-> "owner_of_feed", method |-> "POST", tool |-> FALSE, reads |-> FALSE]
  BY DEF Capability, Is
<1>4. /\ Capability["create_api_key"] = [access |-> "member", method |-> "POST", tool |-> FALSE, reads |-> FALSE]
      /\ Capability["revoke_api_key"] = [access |-> "member", method |-> "DELETE", tool |-> FALSE, reads |-> FALSE]
      /\ Capability["purge_episodes"] = [access |-> "admin", method |-> "POST", tool |-> FALSE, reads |-> FALSE]
  BY DEF Capability, Is
<1>5. \A n \in Names8 : Capability[n].tool <=> n \in ForKeys
  BY <1>2, <1>3, <1>4 DEF ForKeys
<1>6. \A n \in ForKeys : n \in Names8
  BY DEF ForKeys
<1>7. Tools = ForKeys
  BY <1>1, <1>5, <1>6 DEF Tools
<1>8. \A n \in {"create_mirror", "update_mirror", "delete_feed"} :
         Capability[n].method # "GET" /\ ~Capability[n].reads
  BY <1>2, <1>3
<1>9. \A n \in Routed : Capability[n].method = "GET" => n = "get_feed"
  BY <1>1, <1>2, <1>3, <1>4
<1> QED
  BY <1>7, <1>8, <1>9

\* Every scope lets its key read.
LEMMA ReadAllowed == \A s \in Scopes : ScopeAllows(s, "read")
BY DEF ScopeAllows, Rank, Scopes

\* What a principal is, whatever named it.
LEMMA PrincipalIsSomebody ==
    ASSUME AccessInv, NEW surface, NEW p \in Principals(surface)
    PROVE  /\ p \in Acting /\ Configured(p.user) /\ (p.admin <=> conf[p.user] = "admin")
           /\ p.via = "api_key" =>
                /\ p.key \in KeyIds /\ p.scope \in Scopes
                /\ Live(p.key) /\ keys[p.key].owner = p.user /\ keys[p.key].scope = p.scope
<1> USE DEF AccessInv, TableTypes
<1>1. ASSUME NEW u \in Users, NEW via \in {"open", "session", "api_key"}, NEW key \in KeyIds \cup {None},
             NEW scope \in Scopes \cup {None}, Of(u, via, key, scope) # Nobody
      PROVE  LET q == Of(u, via, key, scope) IN
             /\ q \in Acting /\ Configured(q.user) /\ (q.admin <=> conf[q.user] = "admin")
             /\ q.scope = scope /\ q.via = via /\ q.key = key /\ q.user = u
  <2>1. /\ Configured(u)
        /\ Of(u, via, key, scope) = [user |-> u, admin |-> conf[u] = "admin", via |-> via, key |-> key, scope |-> scope]
    BY <1>1 DEF Of
  <2> DEFINE q == Of(u, via, key, scope)
  <2>2. q \in Acting
    BY <2>1 DEF Acting
  <2>3. q.user = u /\ q.admin = (conf[u] = "admin") /\ q.via = via /\ q.scope = scope /\ q.key = key
    BY <2>1
  <2> QED
    BY <2>1, <2>2, <2>3
<1>2. PICK cookie \in Users \cup {None}, bearer \in KeyIds \cup {None} :
        p = ResolvePrincipal(surface, cookie, bearer) /\ p # Nobody
  BY DEF Principals
<1>3. CASE p = Of(LegacyOwner, "open", None, None)
  BY <1>1, <1>2, <1>3, AccessAssumption
<1>4. CASE p = ResolveKey(bearer)
  <2>1. bearer \in KeyIds /\ Live(bearer) /\ keys[bearer] \in [owner : Users, scope : Scopes]
    BY <1>2, <1>4 DEF ResolveKey, Live, Nobody
  <2>2. p = Of(keys[bearer].owner, "api_key", bearer, keys[bearer].scope)
    BY <1>2, <1>4 DEF ResolveKey
  <2>3. keys[bearer].owner \in Users /\ keys[bearer].scope \in Scopes
    BY <2>1
  <2> QED
    BY <1>1, <1>2, <2>1, <2>2, <2>3
<1>5. CASE p = ResolveSession(cookie)
  <2>1. cookie \in Users /\ p = Of(cookie, "session", None, None) /\ p # Nobody
    BY <1>2, <1>5 DEF ResolveSession
  <2> HIDE DEF AccessInv
  <2>2. p \in Acting /\ Configured(p.user) /\ (p.admin <=> conf[p.user] = "admin") /\ p.via = "session"
    BY <1>1, <2>1
  <2> QED
    BY <2>2
<1> QED
  BY <1>2, <1>3, <1>4, <1>5 DEF ResolvePrincipal

\* A request that arrives is judged.
LEMMA ArrivalJudged ==
    ASSUME AccessInv, NEW c \in Calls, NEW surface \in {"api", "mcp"}, NEW name \in Routed, NEW target \in Feeds,
           NEW p \in Principals(surface), NEW sender \in Senders, NEW deleting \in BOOLEAN,
           Arrive(c, surface, sender, p, name, target, deleting)
    PROVE  CallsJudged'
<1> DEFINE method == IF surface = "mcp" THEN "POST" ELSE Capability[name].method
           r == [at |-> "service", page |-> Page(sender), p |-> p, name |-> name, target |-> target,
                 deleting |-> deleting]
<1>1. /\ calls' = [calls EXCEPT ![c] = r] /\ Fits(surface, p, name)
      /\ \E h \in Headers(sender, method) : ~GuardRefuses(method, h)
      /\ UNCHANGED <<conf, keys, reprieved>>
  BY DEF Arrive, rightsHistory
<1>2. /\ p \in Acting /\ Configured(p.user) /\ (p.admin <=> conf[p.user] = "admin")
      /\ p.via = "api_key" => p.key \in KeyIds /\ p.scope \in Scopes /\ KeyStands(p)
  BY PrincipalIsSomebody DEF KeyStands
<1>3. p.via = "api_key" =>
        /\ name \in ForKeys
        /\ name = "delete_feed" => ScopeAllows(p.scope, "full")
        /\ name \in {"create_mirror", "update_mirror"} => ScopeAllows(p.scope, "write")
  <2> SUFFICES ASSUME p.via = "api_key"
               PROVE  /\ name \in ForKeys
                      /\ name = "delete_feed" => ScopeAllows(p.scope, "full")
                      /\ name \in {"create_mirror", "update_mirror"} => ScopeAllows(p.scope, "write")
    OBVIOUS
  <2>1. "delete_feed" \in Destructive /\ ~("create_mirror" \in Destructive) /\ ~("update_mirror" \in Destructive)
    BY DEF Destructive
  <2>2. CASE surface = "api"
    <3>1. ScopeAllows(p.scope, RequiredScope(name \in Destructive, Capability[name].method = "GET")) /\ name \in Tools
      BY <1>1, <2>2 DEF Fits
    <3> QED
      BY <2>1, <3>1, CapabilityTable DEF RequiredScope
  <2>3. CASE surface = "mcp"
    <3>1. ScopeAllows(p.scope, RequiredScope(name \in Destructive, Capability[name].reads)) /\ name \in Tools
      BY <1>1, <2>3 DEF Fits
    <3> QED
      BY <2>1, <3>1, CapabilityTable DEF RequiredScope
  <2> QED
    BY <2>2, <2>3
<1>4. sender # "rebound_page" /\ (sender = "other_page" => method = "GET")
  BY <1>1 DEF Headers, GuardRefuses, ForeignHostRefusal, CrossSiteRefusal, Senders
<1>5. /\ Page(sender) \in {"none", "blind", "shown"} /\ Page(sender) # "shown"
      /\ Page(sender) = "blind" => name = "get_feed"
  BY <1>4, CapabilityTable DEF Page, Senders
<1>6. r \in Requests
  BY <1>2, <1>5 DEF Requests
<1>7. r.p = p /\ r.name = name /\ r.page = Page(sender) /\ r.at = "service"
  OBVIOUS
<1> HIDE DEF r
<1>8. calls' \in [Calls -> Requests \cup {Idle}] /\ \A d \in Calls : calls'[d] = IF d = c THEN r ELSE calls[d]
  BY <1>1, <1>6 DEF AccessInv, CallsJudged
<1>9. Judged(r)
  BY <1>2, <1>3, <1>5, <1>7 DEF Judged
<1>10. \A s : Judged(s)' <=> Judged(s)
  BY <1>1 DEF Judged, KeyStands, Configured, Live
<1>11. (\A d \in Calls : calls[d].at = "service" => Judged(calls[d]))'
  BY <1>8, <1>9, <1>10 DEF AccessInv, CallsJudged
<1> QED
  BY <1>8, <1>11 DEF CallsJudged

\* A request that is over, whether served or refused, or ended by a start.
LEMMA EndJudged ==
    ASSUME AccessInv, NEW c \in Calls, Ends(c),
           \A s \in Requests : (\E d \in Calls : d # c /\ calls[d] = s) /\ s.at = "service" /\ Judged(s) => Judged(s)'
    PROVE  CallsJudged'
<1>1. calls' \in [Calls -> Requests \cup {Idle}] /\ \A d \in Calls : calls'[d] = IF d = c THEN Idle ELSE calls[d]
  BY DEF Ends, AccessInv, CallsJudged
<1>2. Idle.at # "service"
  BY DEF Idle
<1>3. (\A d \in Calls : calls[d].at = "service" => Judged(calls[d]))'
  <2> SUFFICES ASSUME NEW d \in Calls, calls'[d].at = "service" PROVE Judged(calls[d])'
    OBVIOUS
  <2>1. d # c /\ calls'[d] = calls[d] /\ calls[d] \in Requests /\ Judged(calls[d])
    BY <1>1, <1>2 DEF AccessInv, CallsJudged
  <2>2. PICK s \in Requests : s = calls[d]
    BY <2>1
  <2>3. Judged(s)' /\ s = calls'[d]
    BY <2>1, <2>2
  <2> QED
    BY <2>3 DEF Judged, KeyStands, Live, Configured
<1> QED
  BY <1>1, <1>3 DEF CallsJudged

\* A key of a request under way that ends, or changes hands, is noted.
LEMMA JudgedOn ==
    ASSUME AccessInv, NEW s \in Requests, NEW d \in Calls, calls[d] = s, s.at = "service", Judged(s),
           conf' = conf, reprieved \subseteq reprieved',
           \A k \in KeyIds : Live(k) => keys'[k] = keys[k] \/ Reprieve(k) \subseteq reprieved'
    PROVE  Judged(s)'
<1>1. s.p.via = "api_key" => s.p.key \in KeyIds /\ s.p.scope \in Scopes /\ KeyStands(s.p)
  BY DEF Judged
<1>2. ASSUME s.p.via = "api_key" PROVE KeyStands(s.p)'
  <2>1. CASE \A w \in Scopes : ScopeAllows(s.p.scope, w) => <<s.p.key, w>> \in reprieved
    BY <2>1 DEF KeyStands
  <2>2. CASE /\ Live(s.p.key) /\ keys[s.p.key].owner = s.p.user /\ keys[s.p.key].scope = s.p.scope
             /\ keys'[s.p.key] = keys[s.p.key]
    BY <2>2 DEF KeyStands, Live
  <2>3. CASE /\ Live(s.p.key) /\ keys[s.p.key].owner = s.p.user /\ keys[s.p.key].scope = s.p.scope
             /\ Reprieve(s.p.key) \subseteq reprieved'
    <3>1. \A w \in Scopes : ScopeAllows(s.p.scope, w) => <<s.p.key, w>> \in Reprieve(s.p.key)
      BY <2>3 DEF Reprieve
    <3> QED
      BY <2>3, <3>1 DEF KeyStands
  <2> QED
    BY <1>1, <1>2, <2>1, <2>2, <2>3 DEF KeyStands
<1> QED
  BY <1>2 DEF Judged, Configured

\* The keys, and what is noted of them, over a step of a service.
LEMMA KeysNoted ==
    ASSUME AccessInv, NEW c \in Calls,
           \/ GetFeed(c) \/ Updates(c) \/ CreateMirror(c) \/ DeleteFeed(c) \/ Rotate(c) \/ Refused(c)
           \/ \E k \in KeyIds : RevokeKey(c, k) \/ \E scope \in Scopes : CreateKey(c, k, scope)
    PROVE  /\ Ends(c) /\ conf' = conf /\ sessions' = sessions /\ reprieved \subseteq reprieved'
           /\ \A k \in KeyIds : Live(k) => keys'[k] = keys[k] \/ Reprieve(k) \subseteq reprieved'
<1>1. CASE GetFeed(c) \/ Updates(c) \/ CreateMirror(c) \/ DeleteFeed(c) \/ Rotate(c) \/ Refused(c)
  BY <1>1 DEF GetFeed, Updates, CreateMirror, DeleteFeed, Rotate, Refused, Service, rightsHistory
<1>2. ASSUME NEW k \in KeyIds, RevokeKey(c, k)
      PROVE  /\ Ends(c) /\ conf' = conf /\ sessions' = sessions /\ reprieved' = reprieved \cup Reprieve(k)
             /\ \A j \in KeyIds : j # k => keys'[j] = keys[j]
  BY <1>2 DEF RevokeKey, Service, AccessInv, TableTypes
<1>3. ASSUME NEW k \in KeyIds, NEW scope \in Scopes, CreateKey(c, k, scope)
      PROVE  /\ Ends(c) /\ conf' = conf /\ sessions' = sessions /\ reprieved' = reprieved /\ ~Live(k)
             /\ \A j \in KeyIds : j # k => keys'[j] = keys[j]
  BY <1>3 DEF CreateKey, Service, AccessInv, TableTypes, rightsHistory
<1> QED
  BY <1>1, <1>2, <1>3

LEMMA CallsHold == ASSUME AccessInv, AccessStep PROVE CallsJudged'
<1>1. ASSUME NEW c \in Calls, NEW surface \in {"api", "mcp"}, NEW name \in Routed, NEW target \in Feeds,
             NEW p \in Principals(surface), NEW sender \in Senders,
             NEW deleting \in {FALSE} \cup {name = "update_mirror"},
             Arrive(c, surface, sender, p, name, target, deleting)
      PROVE  CallsJudged'
  <2>1. deleting \in BOOLEAN
    OBVIOUS
  <2> QED
    BY <1>1, <2>1, ArrivalJudged
<1>2. ASSUME NEW c \in Calls,
             \/ GetFeed(c) \/ Updates(c) \/ CreateMirror(c) \/ DeleteFeed(c) \/ Rotate(c) \/ Refused(c)
             \/ \E k \in KeyIds : RevokeKey(c, k) \/ \E scope \in Scopes : CreateKey(c, k, scope)
      PROVE  CallsJudged'
  <2>1. /\ Ends(c) /\ conf' = conf /\ reprieved \subseteq reprieved'
        /\ \A k \in KeyIds : Live(k) => keys'[k] = keys[k] \/ Reprieve(k) \subseteq reprieved'
    BY <1>2, KeysNoted
  <2>2. \A s \in Requests : (\E d \in Calls : d # c /\ calls[d] = s) /\ s.at = "service" /\ Judged(s) => Judged(s)'
    BY <2>1, JudgedOn
  <2> QED
    BY <2>1, <2>2, EndJudged
<1>3. ASSUME UNCHANGED calls, conf' = conf, reprieved \subseteq reprieved',
             \A k \in KeyIds : Live(k) => keys'[k] = keys[k] \/ Reprieve(k) \subseteq reprieved'
      PROVE  CallsJudged'
  <2> SUFFICES ASSUME NEW d \in Calls, calls'[d].at = "service" PROVE Judged(calls[d])'
    BY <1>3 DEF CallsJudged, AccessInv
  <2>1. calls[d] \in Requests /\ Judged(calls[d])
    BY <1>3 DEF AccessInv, CallsJudged, Idle
  <2>2. PICK s \in Requests : s = calls[d]
    BY <2>1
  <2>3. Judged(s)' /\ s = calls'[d]
    BY <1>3, <2>1, <2>2, JudgedOn
  <2> QED
    BY <2>3 DEF Judged, KeyStands, Live, Configured
<1>4. ASSUME NEW u \in Users, Login(u) \/ Logout(u) PROVE CallsJudged'
  BY <1>3, <1>4 DEF Login, Logout, rightsHistory
<1>5. ASSUME NEW m \in Modes, NEW named \in Confs(m), Restart(m, named) PROVE CallsJudged'
  BY <1>5 DEF Restart, CallsJudged, Idle
<1>6. ASSUME NEW old \in Users, NEW new \in Users, NEW moveKeys \in BOOLEAN, Reassign(old, new, moveKeys)
      PROVE  CallsJudged'
  <2>1. UNCHANGED calls /\ conf' = conf /\ reprieved \subseteq reprieved'
    BY <1>6 DEF Reassign
  <2>2. \A k \in KeyIds : Live(k) => keys'[k] = keys[k] \/ Reprieve(k) \subseteq reprieved'
    BY <1>6 DEF Reassign
  <2> QED
    BY <1>3, <2>1, <2>2
<1> QED
  BY <1>1, <1>2, <1>4, <1>5, <1>6 DEF AccessStep

\* What a service leaves and finds.
LEMMA ServiceFound ==
    ASSUME AccessInv, NEW c \in Calls, NEW names, Service(c, names)
    PROVE  /\ calls[c] \in Requests /\ calls[c].at = "service" /\ calls[c].name \in names /\ Judged(calls[c])
           /\ calls[c].p \in Acting /\ calls[c].p.user \in Users /\ calls[c].target \in Feeds
           /\ calls[c].deleting /\ calls[c].p.via = "api_key" => ScopeAllows(calls[c].p.scope, "full")
           /\ UNCHANGED <<mode, conf, sessions>>
<1>1. calls[c] \in Requests /\ calls[c].at = "service" /\ calls[c].name \in names /\ Judged(calls[c])
  BY DEF Service, AccessInv, CallsJudged, Idle
<1>2. calls[c].p \in Acting /\ calls[c].p.user \in Users /\ calls[c].target \in Feeds
  BY <1>1 DEF Requests, Acting
<1> QED
  BY <1>1, <1>2 DEF Service, Enforced

\* The tables keep their types, and the pairs their Feeds.
LEMMA TablesHold == ASSUME AccessInv, AccessStep PROVE TableTypes' /\ PairsKept'
<1> DEFINE Row == [owner : Users, pair : 1..MaxPair]
           KeyRow == [owner : Users, scope : Scopes]
           Map(S) == [1..MaxPair -> S]
           Hands == SUBSET (Persons \X Scopes)
<1>0. /\ sessions \subseteq Users /\ keys \in [KeyIds -> KeyRow \cup {None}]
      /\ feeds \in [Feeds -> Row \cup {None}] /\ pairs \in 0..MaxPair
      /\ hands \in Map(Hands) /\ minted \in Map(Feeds \cup {None}) /\ \A k \in KeyIds : Live(k) => k \in issued
  BY DEF AccessInv, TableTypes
<1>10. /\ \A f \in Feeds : feeds[f] # None => feeds[f].pair <= pairs /\ minted[feeds[f].pair] = f
       /\ \A f \in Feeds : feeds[f] # None => feeds[f] \in Row
  BY <1>0 DEF AccessInv, PairsKept
<1>11. None \notin Feeds
  BY AccessAssumption
<1>20. ASSUME sessions' \subseteq Users, keys' \in [KeyIds -> KeyRow \cup {None}],
              \A k \in KeyIds : keys'[k] # None => k \in issued',
              feeds' \in [Feeds -> Row \cup {None}], pairs' \in 0..MaxPair, hands' \in Map(Hands),
              minted' \in Map(Feeds \cup {None}),
              \A f \in Feeds : feeds'[f] # None => feeds'[f].pair <= pairs' /\ minted'[feeds'[f].pair] = f
       PROVE  TableTypes' /\ PairsKept'
  BY <1>20 DEF TableTypes, PairsKept, Live
<1>21. ASSUME UNCHANGED <<feeds, pairs, minted>>, sessions' \subseteq Users, keys' \in [KeyIds -> KeyRow \cup {None}],
              \A k \in KeyIds : keys'[k] # None => k \in issued', hands' \in Map(Hands)
       PROVE  TableTypes' /\ PairsKept'
  BY <1>0, <1>10, <1>20, <1>21
<1>22. ASSUME NEW c \in Calls, calls[c] \in Requests, NEW n \in 1..MaxPair, NEW w \in Scopes, Judged(calls[c]), Done(calls[c], n, w)
       PROVE  hands' \in Map(Hands)
  <2>1. calls[c].p \in Acting /\ (calls[c].p.via = "api_key" => calls[c].p.key \in KeyIds)
    BY <1>22 DEF Requests, Judged
  <2>2. Who(calls[c]) \in Persons
    BY <2>1 DEF Who, Persons, Acting
  <2> QED
    BY <1>0, <1>22, <2>2 DEF Done
<1>1. ASSUME NEW c \in Calls, GetFeed(c) \/ Updates(c) \/ DeleteFeed(c) \/ Rotate(c)
      PROVE  /\ calls[c].target \in Feeds /\ feeds[calls[c].target] \in Row
             /\ calls[c] \in Requests /\ Judged(calls[c])
  <2>1. \E names : Service(c, names) /\ Visible(calls[c].p, calls[c].target)
    BY <1>1 DEF GetFeed, Updates, DeleteFeed, Rotate
  <2> QED
    BY <2>1, <1>10, ServiceFound DEF Visible
<1>2. ASSUME NEW c \in Calls, GetFeed(c) \/ Updates(c) PROVE TableTypes' /\ PairsKept'
  <2>1. UNCHANGED <<sessions, keys, issued, feeds, pairs, minted>>
    BY <1>2 DEF GetFeed, Updates, Service
  <2>2. feeds[calls[c].target].pair \in 1..MaxPair
    BY <1>1, <1>2
  <2>3. hands' \in Map(Hands)
    BY <1>0, <1>1, <1>2, <1>22, <2>2 DEF GetFeed, Updates, Showing, Scopes
  <2> QED
    BY <1>0, <1>21, <2>1, <2>3 DEF Live
<1>3. ASSUME NEW c \in Calls, CreateMirror(c) PROVE TableTypes' /\ PairsKept'
  <2> DEFINE f == calls[c].target
             granted == [owner |-> calls[c].p.user, pair |-> pairs + 1]
  <2>1. /\ UNCHANGED <<sessions, keys, issued>> /\ pairs < MaxPair /\ pairs' = pairs + 1
        /\ feeds' = [feeds EXCEPT ![f] = granted] /\ minted' = [minted EXCEPT ![pairs + 1] = f]
        /\ Done(calls[c], pairs + 1, "write")
    BY <1>3 DEF CreateMirror, Service
  <2>2. f \in Feeds /\ calls[c].p.user \in Users /\ calls[c] \in Requests /\ Judged(calls[c])
    BY <1>3, ServiceFound DEF CreateMirror
  <2>3. pairs + 1 \in 1..MaxPair /\ pairs' \in 0..MaxPair /\ pairs \in Nat
    BY <1>0, <2>1, AccessAssumption
  <2>4. granted \in Row /\ granted.pair = pairs + 1
    BY <2>2, <2>3
  <2> HIDE DEF f, granted
  <2>5. hands' \in Map(Hands)
    BY <1>22, <2>1, <2>2, <2>3 DEF Scopes
  <2>6. minted' \in Map(Feeds \cup {None}) /\ feeds' \in [Feeds -> Row \cup {None}]
    BY <1>0, <2>1, <2>2, <2>3, <2>4
  <2>7. /\ feeds'[f] = granted /\ \A g \in Feeds : g # f => feeds'[g] = feeds[g]
        /\ minted'[pairs + 1] = f /\ \A n \in 1..MaxPair : n # pairs + 1 => minted'[n] = minted[n]
    BY <1>0, <2>1, <2>2, <2>3
  <2>8. ASSUME NEW g \in Feeds, feeds'[g] # None
        PROVE  feeds'[g].pair <= pairs' /\ minted'[feeds'[g].pair] = g
    <3>1. CASE g = f
      BY <2>1, <2>3, <2>4, <2>7, <3>1
    <3>2. CASE g # f
      <4>1. feeds'[g] = feeds[g] /\ feeds[g].pair \in 1..MaxPair /\ feeds[g].pair <= pairs /\ minted[feeds[g].pair] = g
        BY <1>10, <2>7, <2>8, <3>2
      <4>2. feeds[g].pair # pairs + 1 /\ feeds[g].pair <= pairs'
        BY <2>1, <2>3, <4>1
      <4> QED
        BY <2>7, <4>1, <4>2
    <3> QED
      BY <3>1, <3>2
  <2> QED
    BY <1>0, <1>20, <2>1, <2>3, <2>5, <2>6, <2>8 DEF Live
<1>4. ASSUME NEW c \in Calls, DeleteFeed(c) PROVE TableTypes' /\ PairsKept'
  <2> DEFINE f == calls[c].target
             old == feeds[f].pair
  <2>1. /\ UNCHANGED <<sessions, keys, issued, pairs>>
        /\ feeds' = [feeds EXCEPT ![f] = None] /\ minted' = [minted EXCEPT ![old] = None]
        /\ Done(calls[c], old, "full") /\ feeds[f] # None
    BY <1>4 DEF DeleteFeed, Service, Visible
  <2>2. f \in Feeds /\ old \in 1..MaxPair /\ calls[c] \in Requests /\ Judged(calls[c]) /\ minted[old] = f
    BY <1>1, <1>4, <1>10, <2>1
  <2> HIDE DEF f, old
  <2>3. hands' \in Map(Hands)
    BY <1>22, <2>1, <2>2 DEF Scopes
  <2>4. minted' \in Map(Feeds \cup {None}) /\ feeds' \in [Feeds -> Row \cup {None}]
    BY <1>0, <2>1, <2>2
  <2>5. /\ feeds'[f] = None /\ \A g \in Feeds : g # f => feeds'[g] = feeds[g]
        /\ \A n \in 1..MaxPair : n # old => minted'[n] = minted[n]
    BY <1>0, <2>1, <2>2
  <2>6. ASSUME NEW g \in Feeds, feeds'[g] # None
        PROVE  feeds'[g].pair <= pairs' /\ minted'[feeds'[g].pair] = g
    <3>1. g # f /\ feeds'[g] = feeds[g] /\ feeds[g].pair \in 1..MaxPair /\ feeds[g].pair <= pairs /\ minted[feeds[g].pair] = g
      BY <1>10, <2>5, <2>6
    <3>2. feeds[g].pair # old
      BY <2>2, <3>1
    <3> QED
      BY <2>1, <2>5, <3>1, <3>2
  <2> QED
    BY <1>0, <1>20, <2>1, <2>3, <2>4, <2>6 DEF Live
<1>5. ASSUME NEW c \in Calls, Rotate(c) PROVE TableTypes' /\ PairsKept'
  <2> DEFINE f == calls[c].target
             old == feeds[f].pair
             granted == [feeds[f] EXCEPT !.pair = pairs + 1]
  <2>1. /\ UNCHANGED <<sessions, keys, issued>> /\ pairs < MaxPair /\ pairs' = pairs + 1
        /\ feeds' = [feeds EXCEPT ![f] = granted]
        /\ minted' = [[minted EXCEPT ![pairs + 1] = f] EXCEPT ![old] = None]
        /\ Done(calls[c], pairs + 1, "write") /\ feeds[f] # None
    BY <1>5 DEF Rotate, Service, Visible
  <2>2. f \in Feeds /\ feeds[f] \in Row /\ calls[c] \in Requests /\ Judged(calls[c]) /\ minted[old] = f /\ old <= pairs
    BY <1>1, <1>5, <1>10, <2>1
  <2>3. pairs + 1 \in 1..MaxPair /\ pairs' \in 0..MaxPair /\ pairs \in Nat
    BY <1>0, <2>1, AccessAssumption
  <2>4. granted \in Row /\ granted.pair = pairs + 1 /\ old \in 1..MaxPair /\ old # pairs + 1
    BY <2>2, <2>3
  <2> HIDE DEF f, granted, old
  <2>5. hands' \in Map(Hands)
    BY <1>22, <2>1, <2>2, <2>3 DEF Scopes
  <2>6. minted' \in Map(Feeds \cup {None}) /\ feeds' \in [Feeds -> Row \cup {None}]
    BY <1>0, <2>1, <2>2, <2>3, <2>4
  <2>7. /\ feeds'[f] = granted /\ \A g \in Feeds : g # f => feeds'[g] = feeds[g]
        /\ minted'[pairs + 1] = f /\ \A n \in 1..MaxPair : n # pairs + 1 /\ n # old => minted'[n] = minted[n]
    BY <1>0, <2>1, <2>2, <2>3, <2>4
  <2>8. ASSUME NEW g \in Feeds, feeds'[g] # None
        PROVE  feeds'[g].pair <= pairs' /\ minted'[feeds'[g].pair] = g
    <3>1. CASE g = f
      BY <2>1, <2>3, <2>4, <2>7, <3>1
    <3>2. CASE g # f
      <4>1. feeds'[g] = feeds[g] /\ feeds[g].pair \in 1..MaxPair /\ feeds[g].pair <= pairs /\ minted[feeds[g].pair] = g
        BY <1>10, <2>7, <2>8, <3>2
      <4>2. feeds[g].pair # pairs + 1 /\ feeds[g].pair <= pairs'
        BY <2>1, <2>3, <4>1
      <4>3. feeds[g].pair # old
        BY <2>2, <3>2, <4>1
      <4> QED
        BY <2>7, <4>1, <4>2, <4>3
    <3> QED
      BY <3>1, <3>2
  <2> QED
    BY <1>0, <1>20, <2>1, <2>3, <2>5, <2>6, <2>8 DEF Live
<1>6. ASSUME NEW c \in Calls, NEW k \in KeyIds, RevokeKey(c, k) \/ \E scope \in Scopes : CreateKey(c, k, scope)
      PROVE  TableTypes' /\ PairsKept'
  <2>1. /\ UNCHANGED <<sessions, feeds, pairs, minted, hands>> /\ issued \subseteq issued'
        /\ \E granted \in [owner : {calls[c].p.user}, scope : Scopes] \cup {None} :
             keys' = [keys EXCEPT ![k] = granted] /\ (granted # None => k \in issued')
    BY <1>6 DEF CreateKey, RevokeKey, Service, rightsHistory
  <2>2. calls[c].p.user \in Users
    BY <1>6, ServiceFound DEF RevokeKey, CreateKey
  <2>3. keys' \in [KeyIds -> KeyRow \cup {None}] /\ \A j \in KeyIds : keys'[j] # None => j \in issued'
    BY <1>0, <2>1, <2>2 DEF Live
  <2> QED
    BY <1>0, <1>21, <2>1, <2>3
<1>7. ASSUME UNCHANGED <<keys, issued, feeds, pairs, minted, hands>>, sessions' \subseteq Users PROVE TableTypes' /\ PairsKept'
  BY <1>0, <1>7, <1>21 DEF Live
<1>8. ASSUME NEW c \in Calls, NEW surface, NEW name, NEW target, NEW p, NEW sender, NEW deleting,
             Arrive(c, surface, sender, p, name, target, deleting)
      PROVE  TableTypes' /\ PairsKept'
  BY <1>0, <1>7, <1>8 DEF Arrive, rightsHistory
<1>9. ASSUME NEW c \in Calls, Refused(c) PROVE TableTypes' /\ PairsKept'
  BY <1>0, <1>7, <1>9 DEF Refused, rightsHistory
<1>12. ASSUME NEW u \in Users, Login(u) \/ Logout(u) PROVE TableTypes' /\ PairsKept'
  BY <1>0, <1>7, <1>12 DEF Login, Logout, rightsHistory
<1>13. ASSUME NEW m, NEW named, Restart(m, named) PROVE TableTypes' /\ PairsKept'
  BY <1>0, <1>7, <1>13 DEF Restart, rightsHistory
<1>14. ASSUME NEW old \in Users, NEW new \in Users, NEW moveKeys \in BOOLEAN, Reassign(old, new, moveKeys)
       PROVE  TableTypes' /\ PairsKept'
  <2>1. /\ keys' = [k \in KeyIds |-> IF moveKeys /\ Live(k) /\ keys[k].owner = old
                                     THEN [keys[k] EXCEPT !.owner = new] ELSE keys[k]]
        /\ feeds' = [f \in Feeds |-> IF feeds[f] # None /\ feeds[f].owner = old
                                     THEN [feeds[f] EXCEPT !.owner = new] ELSE feeds[f]]
        /\ UNCHANGED <<sessions, issued, pairs, hands, minted>>
    BY <1>14 DEF Reassign
  <2>2. \A k \in KeyIds : Live(k) => [keys[k] EXCEPT !.owner = new] \in KeyRow
    BY <1>0 DEF Live
  <2>3. keys' \in [KeyIds -> KeyRow \cup {None}] /\ \A k \in KeyIds : keys'[k] # None => k \in issued'
    BY <1>0, <2>1, <2>2 DEF Live
  <2>4. \A f \in Feeds : feeds[f] # None =>
          [feeds[f] EXCEPT !.owner = new] \in Row /\ [feeds[f] EXCEPT !.owner = new].pair = feeds[f].pair
    BY <1>10
  <2>5. feeds' \in [Feeds -> Row \cup {None}]
    BY <1>0, <2>1, <2>4
  <2>6. \A f \in Feeds : feeds'[f] # None => feeds[f] # None /\ feeds'[f].pair = feeds[f].pair
    BY <2>1, <2>4
  <2>7. \A f \in Feeds : feeds'[f] # None => feeds'[f].pair <= pairs' /\ minted'[feeds'[f].pair] = f
    BY <1>10, <2>1, <2>6
  <2> QED
    BY <1>0, <1>20, <2>1, <2>3, <2>5, <2>7
<1> QED
  BY <1>2, <1>3, <1>4, <1>5, <1>6, <1>8, <1>9, <1>12, <1>13, <1>14 DEF AccessStep

\* What is written down of rights only grows, and covers those that there are after the step.
LEMMA RightsGrow ==
    ASSUME Entitles, EntitledNow, TableTypes'
    PROVE  EntitledNow' /\ \A n \in 1..MaxPair : entitled[n] \subseteq entitled'[n]
<1>1. entitled' = [n \in 1..MaxPair |-> entitled[n] \cup
         {d \in Persons \X Scopes : \E f \in Feeds : (May(d[1], d[2], f) /\ feeds[f].pair = n)'}]
  BY DEF Entitles
<1>2. ASSUME NEW f \in Feeds, NEW x \in Persons, NEW w \in Scopes, May(x, w, f)'
      PROVE  <<x, w>> \in entitled'[feeds'[f].pair]
  <2>1. feeds'[f].pair \in 1..MaxPair
    BY <1>2 DEF May, TableTypes
  <2>2. PICK d \in Persons \X Scopes : d = <<x, w>>
    OBVIOUS
  <2>3. d[1] = x /\ d[2] = w
    BY <2>2
  <2>4. (May(d[1], d[2], f) /\ feeds[f].pair = feeds[f].pair)'
    BY <1>2, <2>3
  <2> QED
    BY <1>1, <2>1, <2>2, <2>4
<1>3. entitled' = [n \in 1..MaxPair |-> entitled'[n]]
  BY <1>1
<1>4. (\A f \in Feeds, x \in Persons, w \in Scopes : May(x, w, f) => <<x, w>> \in entitled[feeds[f].pair])'
  BY <1>2
<1> QED
  BY <1>1, <1>3, <1>4 DEF EntitledNow

\* Somebody with a request under way has the right that it was judged by.
LEMMA ActsByRight ==
    ASSUME AccessInv, NEW c \in Calls, calls[c].at = "service", calls[c].page = "none", NEW w \in Scopes,
           calls[c].p.via = "api_key" => ScopeAllows(calls[c].p.scope, w),
           NEW owner, \/ owner = calls[c].p.user
                      \/ calls[c].p.admin /\ calls[c].p.via # "api_key"
    PROVE  /\ Who(calls[c]) \in Persons
           /\ RightOver(Who(calls[c]), w, owner) \/ <<Who(calls[c]), w>> \in reprieved
<1> DEFINE r == calls[c]
<1>1. r \in Requests /\ Judged(r)
  BY DEF AccessInv, CallsJudged, Idle
<1>2. r.p.user \in Users /\ Configured(r.p.user) /\ (r.p.admin <=> conf[r.p.user] = "admin")
  BY <1>1 DEF Requests, Acting, Judged
<1> HIDE DEF r
<1>3. CASE r.p.via = "api_key"
  <2>1. Who(r) = r.p.key /\ r.p.key \in KeyIds /\ KeyStands(r.p) /\ ScopeAllows(r.p.scope, w) /\ owner = r.p.user
    BY <1>1, <1>3 DEF Who, Judged, r
  <2> QED
    BY <1>2, <2>1 DEF RightOver, KeyStands, Persons, r
<1>4. CASE r.p.via # "api_key"
  <2>1. Who(r) = r.p.user
    BY <1>4 DEF Who, r
  <2> QED
    BY <1>2, <1>4, <2>1 DEF RightOver, Persons, r
<1> QED
  BY <1>3, <1>4

\* One more that has seen a pair, or acted under it.
LEMMA OneMore ==
    ASSUME AccessInv, NEW c \in Calls, NEW n \in 1..MaxPair, NEW w \in Scopes, Done(calls[c], n, w),
           <<Who(calls[c]), w>> \in entitled'[n] \cup reprieved', reprieved \subseteq reprieved',
           \A m \in 1..MaxPair : entitled[m] \subseteq entitled'[m]
    PROVE  OnlyTheEntitled'
<1>1. PICK d : d = <<Who(calls[c]), w>>
  OBVIOUS
<1>2. \A m \in 1..MaxPair : hands'[m] \subseteq hands[m] \cup {d} /\ (m # n => hands'[m] = hands[m])
  BY <1>1 DEF Done, AccessInv, TableTypes
<1>3. d \in entitled'[n] \cup reprieved' /\ \A m \in 1..MaxPair : hands[m] \subseteq entitled[m] \cup reprieved
  BY <1>1 DEF AccessInv, OnlyTheEntitled
<1> QED
  BY <1>2, <1>3 DEF OnlyTheEntitled

LEMMA HandsHold == ASSUME AccessInv, AccessStep, Entitles, TableTypes', EntitledNow' PROVE OnlyTheEntitled'
<1>1. \A n \in 1..MaxPair : entitled[n] \subseteq entitled'[n]
  BY RightsGrow DEF AccessInv
<1>2. ASSUME UNCHANGED hands, reprieved \subseteq reprieved' PROVE OnlyTheEntitled'
  BY <1>1, <1>2 DEF AccessInv, OnlyTheEntitled
<1>3. ASSUME NEW c \in Calls, NEW names, Service(c, names), Visible(calls[c].p, calls[c].target),
             NEW w \in Scopes, calls[c].p.via = "api_key" => ScopeAllows(calls[c].p.scope, w),
             calls[c].page = "none", Done(calls[c], feeds[calls[c].target].pair, w), UNCHANGED reprieved
      PROVE  OnlyTheEntitled'
  <2> DEFINE f == calls[c].target
  <2>1. f \in Feeds /\ calls[c].at = "service" /\ feeds[f] # None
        /\ ((calls[c].p.admin /\ calls[c].p.via # "api_key") \/ feeds[f].owner = calls[c].p.user)
    BY <1>3, ServiceFound DEF Visible
  <2>2. feeds[f].pair \in 1..MaxPair
    BY <2>1 DEF AccessInv, TableTypes
  <2> HIDE DEF f
  <2>3. /\ Who(calls[c]) \in Persons
        /\ RightOver(Who(calls[c]), w, feeds[f].owner) \/ <<Who(calls[c]), w>> \in reprieved
    BY <1>3, <2>1, ActsByRight
  <2>4. RightOver(Who(calls[c]), w, feeds[f].owner) => May(Who(calls[c]), w, f)
    BY <2>1 DEF RightOver, May
  <2>5. <<Who(calls[c]), w>> \in entitled[feeds[f].pair] \cup reprieved
    BY <2>1, <2>3, <2>4 DEF AccessInv, EntitledNow
  <2>6. <<Who(calls[c]), w>> \in entitled'[feeds[f].pair] \cup reprieved'
    BY <1>1, <1>3, <2>2, <2>5
  <2>7. Done(calls[c], feeds[f].pair, w)
    BY <1>3 DEF f
  <2> QED
    BY <1>1, <1>3, <2>2, <2>6, <2>7, OneMore
<1>4. ASSUME NEW c \in Calls, NEW names, Service(c, names), calls[c].page = "none",
             calls[c].p.via = "api_key" => ScopeAllows(calls[c].p.scope, "write"),
             NEW f \in Feeds, NEW n \in 1..MaxPair, feeds'[f] # None, feeds'[f].pair = n,
             \/ feeds'[f].owner = calls[c].p.user
             \/ calls[c].p.admin /\ calls[c].p.via # "api_key",
             Done(calls[c], n, "write"), UNCHANGED <<keys, reprieved>>
      PROVE  OnlyTheEntitled'
  <2>1. conf' = conf /\ calls[c].at = "service" /\ "write" \in Scopes
    BY <1>4, ServiceFound DEF Service, Scopes
  <2>2. PICK x : x = Who(calls[c])
    OBVIOUS
  <2>3. PICK owner : owner = feeds'[f].owner
    OBVIOUS
  <2>4. x \in Persons /\ (RightOver(x, "write", owner) \/ <<x, "write">> \in reprieved)
    BY <1>4, <2>1, <2>2, <2>3, ActsByRight
  <2>5. RightOver(x, "write", owner) => May(x, "write", f)'
    BY <1>4, <2>1, <2>3 DEF RightOver, May, Configured, Live
  <2>6. <<x, "write">> \in entitled'[n] \cup reprieved'
    BY <1>4, <2>1, <2>4, <2>5 DEF EntitledNow
  <2>7. <<Who(calls[c]), "write">> \in entitled'[n] \cup reprieved'
    BY <2>2, <2>6
  <2> QED
    BY <1>1, <1>4, <2>1, <2>7, OneMore
<1>5. ASSUME NEW c \in Calls, GetFeed(c) PROVE OnlyTheEntitled'
  <2>1. Service(c, {"get_feed"}) /\ Visible(calls[c].p, calls[c].target) /\ UNCHANGED reprieved
        /\ Showing(calls[c], feeds[calls[c].target].pair)
    BY <1>5 DEF GetFeed
  <2>2. calls[c] \in Requests /\ Judged(calls[c])
    BY <2>1, ServiceFound
  <2>3. CASE hands' = hands
    BY <1>2, <2>1, <2>3
  <2>4. CASE calls[c].page # "blind" /\ Done(calls[c], feeds[calls[c].target].pair, "read")
    <3>1. calls[c].page = "none" /\ "read" \in Scopes
      BY <2>2, <2>4 DEF Judged, Requests, Scopes
    <3>2. calls[c].p.via = "api_key" => ScopeAllows(calls[c].p.scope, "read")
      BY <2>2, ReadAllowed DEF Judged
    <3> QED
      BY <1>3, <2>1, <2>4, <3>1, <3>2
  <2> QED
    BY <2>1, <2>3, <2>4 DEF Showing
<1>6. ASSUME NEW c \in Calls, NEW names, Service(c, names), "get_feed" \notin names
      PROVE  /\ calls[c].page = "none"
             /\ calls[c].p.via = "api_key" =>
                  /\ calls[c].name \in ForKeys
                  /\ calls[c].name = "delete_feed" => ScopeAllows(calls[c].p.scope, "full")
                  /\ calls[c].name \in {"create_mirror", "update_mirror"} => ScopeAllows(calls[c].p.scope, "write")
                  /\ calls[c].deleting => ScopeAllows(calls[c].p.scope, "full")
  <2>1. /\ calls[c] \in Requests /\ Judged(calls[c]) /\ calls[c].name \in names
        /\ calls[c].deleting /\ calls[c].p.via = "api_key" => ScopeAllows(calls[c].p.scope, "full")
    BY <1>6, ServiceFound
  <2>2. calls[c].page = "none"
    BY <1>6, <2>1 DEF Judged, Requests
  <2> QED
    BY <2>1, <2>2 DEF Judged
<1>7. ASSUME NEW c \in Calls, Updates(c) PROVE OnlyTheEntitled'
  <2>1. Service(c, {"update_mirror", "purge_episodes"}) /\ Visible(calls[c].p, calls[c].target) /\ UNCHANGED reprieved
        /\ Done(calls[c], feeds[calls[c].target].pair, IF calls[c].deleting THEN "full" ELSE "write")
    BY <1>7 DEF Updates
  <2>2. calls[c].page = "none" /\ calls[c].name \in {"update_mirror", "purge_episodes"}
    BY <1>6, <2>1, ServiceFound
  <2>3. calls[c].p.via = "api_key" =>
          ScopeAllows(calls[c].p.scope, IF calls[c].deleting THEN "full" ELSE "write")
    BY <1>6, <2>1, <2>2 DEF ForKeys
  <2>4. PICK w \in Scopes : w = IF calls[c].deleting THEN "full" ELSE "write"
    BY DEF Scopes
  <2> QED
    BY <1>3, <2>1, <2>2, <2>3, <2>4
<1>8. ASSUME NEW c \in Calls, DeleteFeed(c) PROVE OnlyTheEntitled'
  <2>1. Service(c, {"delete_feed"}) /\ Visible(calls[c].p, calls[c].target) /\ UNCHANGED reprieved
        /\ Done(calls[c], feeds[calls[c].target].pair, "full") /\ "full" \in Scopes
    BY <1>8 DEF DeleteFeed, Scopes
  <2>2. calls[c].page = "none" /\ (calls[c].p.via = "api_key" => ScopeAllows(calls[c].p.scope, "full"))
    BY <1>6, <2>1, ServiceFound
  <2> QED
    BY <1>3, <2>1, <2>2
<1>9. ASSUME NEW c \in Calls, CreateMirror(c) PROVE OnlyTheEntitled'
  <2>1. /\ Service(c, {"create_mirror"}) /\ UNCHANGED <<keys, reprieved>> /\ Done(calls[c], pairs + 1, "write")
        /\ feeds' = [feeds EXCEPT ![calls[c].target] = [owner |-> calls[c].p.user, pair |-> pairs + 1]]
        /\ feeds[calls[c].target] = None /\ pairs < MaxPair
    BY <1>9 DEF CreateMirror
  <2>2. calls[c].page = "none" /\ (calls[c].p.via = "api_key" => ScopeAllows(calls[c].p.scope, "write"))
    BY <1>6, <2>1, ServiceFound
  <2>3. PICK f \in Feeds : f = calls[c].target
    BY <2>1, ServiceFound
  <2>4. PICK n \in 1..MaxPair : n = pairs + 1
    BY <2>1, AccessAssumption DEF AccessInv, TableTypes
  <2>5. PICK granted : granted = [owner |-> calls[c].p.user, pair |-> n]
    OBVIOUS
  <2>6. calls[c].p.user \in Users
    BY <2>1, ServiceFound
  <2>7. feeds'[f] = granted /\ granted.owner = calls[c].p.user /\ granted.pair = n
    BY <2>1, <2>3, <2>4, <2>5 DEF AccessInv, TableTypes
  <2>8. granted # None
    <3>1. granted \in [owner : Users, pair : 1..MaxPair]
      BY <2>4, <2>5, <2>6
    <3> QED
      BY <3>1, AccessAssumption
  <2> QED
    BY <1>4, <2>1, <2>2, <2>4, <2>7, <2>8
<1>10. ASSUME NEW c \in Calls, Rotate(c) PROVE OnlyTheEntitled'
  <2>1. /\ Service(c, {"rotate_feed_credentials"}) /\ UNCHANGED <<keys, reprieved>>
        /\ Done(calls[c], pairs + 1, "write") /\ Visible(calls[c].p, calls[c].target)
        /\ feeds' = [feeds EXCEPT ![calls[c].target] = [feeds[calls[c].target] EXCEPT !.pair = pairs + 1]]
        /\ pairs < MaxPair
    BY <1>10 DEF Rotate
  <2>2. calls[c].page = "none" /\ calls[c].p.via # "api_key"
    BY <1>6, <2>1, ServiceFound DEF ForKeys
  <2>3. PICK f \in Feeds : f = calls[c].target
    BY <2>1, ServiceFound
  <2>4. PICK n \in 1..MaxPair : n = pairs + 1
    BY <2>1, AccessAssumption DEF AccessInv, TableTypes
  <2>5. feeds[f] # None /\ (calls[c].p.admin \/ feeds[f].owner = calls[c].p.user)
    BY <2>1, <2>3 DEF Visible
  <2>6. feeds[f] \in [owner : Users, pair : 1..MaxPair]
    BY <2>5 DEF AccessInv, TableTypes
  <2>7. PICK granted : granted = [feeds[f] EXCEPT !.pair = n]
    OBVIOUS
  <2>8. feeds'[f] = granted
    BY <2>1, <2>3, <2>4, <2>7 DEF AccessInv, TableTypes
  <2>9. granted \in [owner : Users, pair : 1..MaxPair] /\ granted.owner = feeds[f].owner /\ granted.pair = n
    BY <2>4, <2>6, <2>7
  <2>10. granted # None
    BY <2>9, AccessAssumption
  <2> QED
    BY <1>4, <2>1, <2>2, <2>4, <2>5, <2>8, <2>9, <2>10
<1>11. ASSUME NEW c \in Calls, NEW k \in KeyIds, RevokeKey(c, k) \/ \E scope \in Scopes : CreateKey(c, k, scope)
       PROVE  OnlyTheEntitled'
  BY <1>2, <1>11 DEF RevokeKey, CreateKey, rightsHistory
<1>12. ASSUME NEW c \in Calls, NEW surface, NEW name, NEW target, NEW p, NEW sender, NEW deleting,
              Refused(c) \/ Arrive(c, surface, sender, p, name, target, deleting)
       PROVE  OnlyTheEntitled'
  BY <1>2, <1>12 DEF Refused, Arrive, rightsHistory
<1>13. ASSUME NEW u \in Users, Login(u) \/ Logout(u) PROVE OnlyTheEntitled'
  BY <1>2, <1>13 DEF Login, Logout, rightsHistory
<1>14. ASSUME NEW m, NEW named, Restart(m, named) PROVE OnlyTheEntitled'
  BY <1>2, <1>14 DEF Restart, rightsHistory
<1>15. ASSUME NEW old \in Users, NEW new \in Users, NEW moveKeys \in BOOLEAN, Reassign(old, new, moveKeys)
       PROVE  OnlyTheEntitled'
  BY <1>2, <1>15 DEF Reassign
<1> QED
  BY <1>5, <1>7, <1>8, <1>9, <1>10, <1>11, <1>12, <1>13, <1>14, <1>15 DEF AccessStep

\* Every step keeps the invariant.
LEMMA AccessHolds == AccessInv /\ [AccessNext]_accessVars => AccessInv'
<1>1. ASSUME AccessInv, AccessNext PROVE AccessInv'
  <2>1. AccessStep /\ Entitles
    BY <1>1 DEF AccessNext
  <2>2. TableTypes' /\ PairsKept'
    BY <1>1, <2>1, TablesHold
  <2>3. CallsJudged'
    BY <1>1, <2>1, CallsHold
  <2>4. EntitledNow'
    BY <1>1, <2>1, <2>2, RightsGrow DEF AccessInv
  <2>5. OnlyTheEntitled'
    BY <1>1, <2>1, <2>2, <2>4, HandsHold
  <2> QED
    BY <2>2, <2>3, <2>4, <2>5 DEF AccessInv
<1>2. ASSUME AccessInv, UNCHANGED accessVars PROVE AccessInv'
  <2>1. UNCHANGED <<mode, conf, sessions, keys, feeds, calls, pairs, issued, hands, minted, reprieved, entitled>>
    BY <1>2 DEF accessVars, rightsHistory
  <2>2. TableTypes' /\ PairsKept' /\ OnlyTheEntitled'
    BY <1>2, <2>1 DEF AccessInv, TableTypes, PairsKept, OnlyTheEntitled, Live
  <2>3. CallsJudged'
    BY <1>2, <2>1 DEF AccessInv, CallsJudged, Judged, KeyStands, Configured, Live
  <2>4. EntitledNow'
    BY <1>2, <2>1 DEF AccessInv, EntitledNow, May, Configured, Live
  <2> QED
    BY <2>2, <2>3, <2>4 DEF AccessInv
<1> QED
  BY <1>1, <1>2

\* It holds at the start.
LEMMA AccessStarts == AccessInit => AccessInv
<1> SUFFICES ASSUME AccessInit PROVE AccessInv
  OBVIOUS
<1>1. TableTypes
  BY AccessAssumption DEF AccessInit, TableTypes, Live
<1>2. CallsJudged
  BY DEF AccessInit, CallsJudged, Idle
<1>3. PairsKept /\ EntitledNow /\ OnlyTheEntitled
  BY DEF AccessInit, PairsKept, EntitledNow, OnlyTheEntitled, May
<1> QED
  BY <1>1, <1>2, <1>3 DEF AccessInv

\* It gives the property.
LEMMA AccessSuffices == AccessInv => EffectsByRight
<1> SUFFICES ASSUME AccessInv, mode # "open", NEW f \in Feeds, NEW xml \in BOOLEAN
             PROVE  /\ \A n \in 1..MaxPair : FeedAccess(f, xml, n, None, None) =>
                         minted[n] = f /\ Configured(feeds[f].owner)
                    /\ \A key \in MediaKeys \ {None} : FeedAccess(f, xml, NoPair, key, None) =>
                         minted[key.pair] = f /\ key.feed = f /\ Configured(feeds[f].owner)
                    /\ \A u \in Users : FeedAccess(f, xml, NoPair, None, u) =>
                         xml /\ <<u, "read">> \in entitled[feeds[f].pair]
  BY DEF AccessInv, EffectsByRight, OpensByRight
<1>1. feeds[f] # None => feeds[f].pair \in 1..MaxPair /\ feeds[f].owner \in Users /\ minted[feeds[f].pair] = f
  BY DEF AccessInv, TableTypes, PairsKept
<1>2. ResolvePrincipal("feeds", None, None) = Nobody
  BY AccessAssumption DEF ResolvePrincipal, ResolveSession, AccessInv, TableTypes
<1>3. \A n \in 1..MaxPair : n # Operator /\ n # NoPair
  BY DEF Operator, NoPair
<1>4. ~KeyOk(f, None)
  <2> SUFFICES ASSUME feeds[f] # None, None = [feed |-> f, pair |-> feeds[f].pair] PROVE FALSE
    BY DEF KeyOk
  <2>1. None \in [feed : Feeds, pair : 1..MaxPair]
    BY <1>1
  <2> QED
    BY <2>1, AccessAssumption
<1>5. ASSUME NEW n \in 1..MaxPair, FeedAccess(f, xml, n, None, None)
      PROVE  minted[n] = f /\ Configured(feeds[f].owner)
  BY <1>1, <1>2, <1>3, <1>4, <1>5 DEF FeedAccess, PairOk
<1>6. ~PairOk(f, NoPair) /\ NoPair # Operator
  BY <1>1, <1>3 DEF PairOk, NoPair, Operator
<1>7. ASSUME NEW key \in MediaKeys \ {None}, FeedAccess(f, xml, NoPair, key, None)
      PROVE  minted[key.pair] = f /\ key.feed = f /\ Configured(feeds[f].owner)
  BY <1>1, <1>2, <1>6, <1>7 DEF FeedAccess, KeyOk
<1>8. ASSUME NEW u \in Users, FeedAccess(f, xml, NoPair, None, u)
      PROVE  xml /\ <<u, "read">> \in entitled[feeds[f].pair]
  <2> DEFINE p == ResolvePrincipal("feeds", u, None)
  <2>1. feeds[f] # None /\ xml /\ p # Nobody /\ (p.admin \/ p.user = feeds[f].owner)
    BY <1>4, <1>6, <1>8 DEF FeedAccess
  <2>2. p = ResolveSession(u)
    BY DEF ResolvePrincipal
  <2>3. Configured(u) /\ p = [user |-> u, admin |-> conf[u] = "admin", via |-> "session", key |-> None, scope |-> None]
    BY <2>1, <2>2 DEF ResolveSession, Of
  <2> HIDE DEF p
  <2>4. u = feeds[f].owner \/ conf[u] = "admin"
    <3>1. p.user = u /\ p.admin = (conf[u] = "admin")
      BY <2>3
    <3> QED
      BY Zenon, <2>1, <3>1
  <2>5. May(u, "read", f) /\ u \in Persons /\ "read" \in Scopes
    BY <2>1, <2>3, <2>4 DEF May, Persons, Scopes
  <2> QED
    BY <2>1, <2>5 DEF AccessInv, EntitledNow
<1> QED
  BY <1>5, <1>7, <1>8

-----------------------------------------------------------------------------
(* Health: what the api says of the worker.                                  *)

AgesOrNever == Ages \cup {Never}
HealthTypes ==
    /\ worker \in [at : {"up", "draining", "down"}, started : AgesOrNever, beaten : AgesOrNever,
                   ticked : AgesOrNever, full : BOOLEAN, stuck : BOOLEAN, ffmpeg : BOOLEAN]
    /\ row \in [age : AgesOrNever, started : AgesOrNever, ticked : AgesOrNever,
                full : BOOLEAN, stuck : BOOLEAN, ffmpeg : BOOLEAN]
    /\ known \in [gone : Ages, calm : Ages]
    /\ infra \in [db : {"up", "down"}, schema : {"head", "old"}, store : {"1", "2", "down"}]

\* The row is the last worker's that beat: this one's, with its ages, or that of one
\* which was gone before this one started.  A heartbeat is never younger than the
\* silence that followed it, and nothing it tells of is younger than it is.
RowTellsOf ==
    /\ worker.beaten # Never => row.age = worker.beaten /\ row.ticked = worker.ticked /\ row.started = worker.started
    /\ worker.beaten = Never => row.age >= worker.started
    /\ row.ticked >= row.age /\ row.started >= row.age
    /\ row.age >= known.gone
    /\ known.calm > 0 => row.age = 0

\* The inductive invariant.
HealthInv == HealthTypes /\ RowTellsOf

\* Ages grow in step, and stop at the bound together.
LEMMA AgesGrow ==
    /\ \A x \in AgesOrNever : Older(x) \in AgesOrNever /\ (Older(x) = Never <=> x = Never) /\ Older(x) >= 0
    /\ \A x \in Ages : Older(x) \in Ages
    /\ \A x, y \in AgesOrNever : x >= y => Older(x) >= Older(y)
    /\ 0 \in Ages /\ Never \notin Ages /\ Never \in Nat /\ \A x \in Ages : x \in Nat /\ x < Never
BY HealthAssumption DEF AgesOrNever, Ages, Older

\* A tick: the ages, and perhaps a heartbeat.
LEMMA TickTells ==
    ASSUME HealthInv, Tick
    PROVE  HealthInv'
<1> DEFINE older == [worker EXCEPT !.started = Older(@), !.beaten = Older(@), !.ticked = Older(@)]
           ticked == IF Schedules(worker) /\ worker.ticked \notin {0} THEN [older EXCEPT !.ticked = 0] ELSE older
<1>1. /\ worker' = IF Beats(worker) THEN [ticked EXCEPT !.beaten = 0] ELSE ticked
      /\ row' = IF Beats(worker) THEN Told(ticked)
                ELSE [row EXCEPT !.age = Older(@), !.started = Older(@), !.ticked = Older(@)]
      /\ known' = [gone |-> IF worker.at = "down" \/ "loop" \in wedged THEN Older(known.gone) ELSE 0,
                   calm |-> IF Beats(worker) THEN Older(known.calm) ELSE 0]
      /\ infra' = infra
  BY DEF Tick
<1>2. HealthTypes /\ RowTellsOf
  BY DEF HealthInv
<1>3. /\ worker.started \in AgesOrNever /\ worker.beaten \in AgesOrNever /\ worker.ticked \in AgesOrNever
      /\ row.started \in AgesOrNever /\ row.age \in AgesOrNever /\ row.ticked \in AgesOrNever
      /\ known.gone \in Ages /\ known.calm \in Ages
  BY <1>2 DEF HealthTypes
<1>4. /\ ticked \in [at : {"up", "draining", "down"}, started : AgesOrNever, beaten : AgesOrNever,
                     ticked : AgesOrNever, full : BOOLEAN, stuck : BOOLEAN, ffmpeg : BOOLEAN]
      /\ ticked.started = Older(worker.started) /\ ticked.beaten = Older(worker.beaten)
      /\ ticked.ticked \in {0, Older(worker.ticked)}
      /\ ~Beats(worker) => ticked.ticked = Older(worker.ticked)
  <2>1. older \in [at : {"up", "draining", "down"}, started : AgesOrNever, beaten : AgesOrNever,
                   ticked : AgesOrNever, full : BOOLEAN, stuck : BOOLEAN, ffmpeg : BOOLEAN]
        /\ older.started = Older(worker.started) /\ older.beaten = Older(worker.beaten)
        /\ older.ticked = Older(worker.ticked)
    BY <1>2, <1>3, AgesGrow DEF HealthTypes
  <2>2. Schedules(worker) => Beats(worker)
    BY DEF Schedules, Beats
  <2>3. 0 \in AgesOrNever
    BY AgesGrow DEF AgesOrNever
  <2> HIDE DEF older
  <2> QED
    BY <2>1, <2>2, <2>3
<1> HIDE DEF ticked
<1>5. known' \in [gone : Ages, calm : Ages]
  BY <1>1, <1>3, AgesGrow
<1>6. CASE Beats(worker)
  <2>1. /\ worker' = [ticked EXCEPT !.beaten = 0] /\ row' = Told(ticked) /\ known'.gone = 0
    BY <1>1, <1>6 DEF Beats
  <2>2. /\ worker'.beaten = 0 /\ worker'.ticked = ticked.ticked /\ worker'.started = ticked.started
        /\ row'.age = 0 /\ row'.ticked = ticked.ticked /\ row'.started = ticked.started
    BY <1>4, <2>1 DEF Told
  <2>3. 0 \in AgesOrNever /\ 0 # Never /\ 0 >= 0
    BY AgesGrow DEF AgesOrNever
  <2>4. HealthTypes'
    BY <1>1, <1>2, <1>4, <1>5, <2>1, <2>3 DEF HealthTypes, Told
  <2>5. ticked.ticked >= 0 /\ ticked.started >= 0
    BY <1>3, <1>4, AgesGrow
  <2>6. RowTellsOf'
    BY <2>1, <2>2, <2>3, <2>5 DEF RowTellsOf
  <2> QED
    BY <2>4, <2>6 DEF HealthInv
<1>7. CASE ~Beats(worker)
  <2>1. /\ worker' = ticked /\ row' = [row EXCEPT !.age = Older(@), !.started = Older(@), !.ticked = Older(@)]
        /\ known'.calm = 0 /\ known'.gone \in {0, Older(known.gone)}
    BY <1>1, <1>7
  <2>2. /\ worker'.beaten = Older(worker.beaten) /\ worker'.ticked = Older(worker.ticked)
        /\ worker'.started = Older(worker.started)
    BY <1>4, <1>7, <2>1
  <2>3. row'.age = Older(row.age) /\ row'.ticked = Older(row.ticked) /\ row'.started = Older(row.started)
    BY <1>2, <2>1 DEF HealthTypes
  <2>4. row' \in [age : AgesOrNever, started : AgesOrNever, ticked : AgesOrNever,
                  full : BOOLEAN, stuck : BOOLEAN, ffmpeg : BOOLEAN]
    BY <1>2, <1>3, <2>1, AgesGrow DEF HealthTypes
  <2>5. HealthTypes'
    BY <1>1, <1>2, <1>4, <1>5, <2>1, <2>4 DEF HealthTypes
  <2>6. worker'.beaten # Never => row'.age = worker'.beaten /\ row'.ticked = worker'.ticked
                                   /\ row'.started = worker'.started
    BY <1>2, <1>3, <2>2, <2>3, AgesGrow DEF RowTellsOf
  <2>7. worker'.beaten = Never => row'.age >= worker'.started
    BY <1>2, <1>3, <2>2, <2>3, AgesGrow DEF RowTellsOf
  <2>8. row'.ticked >= row'.age /\ row'.started >= row'.age
    BY <1>2, <1>3, <2>3, AgesGrow DEF RowTellsOf
  <2>9. row'.age >= known'.gone
    <3>1. Older(row.age) >= 0 /\ known.gone \in AgesOrNever
      BY <1>3, AgesGrow DEF AgesOrNever
    <3> QED
      BY <1>2, <1>3, <2>1, <2>3, <3>1, AgesGrow DEF RowTellsOf
  <2> QED
    BY <2>1, <2>5, <2>6, <2>7, <2>8, <2>9 DEF RowTellsOf, HealthInv
<1> QED
  BY <1>6, <1>7

\* Every step keeps the invariant.
LEMMA HealthHolds == HealthInv /\ [HealthNext]_healthVars => HealthInv'
<1> SUFFICES ASSUME HealthInv, [HealthNext]_healthVars PROVE HealthInv'
  OBVIOUS
<1>1. HealthTypes /\ RowTellsOf
  BY DEF HealthInv
<1>2. CASE WorkerStarts
  <2>1. /\ \E ffmpeg \in BOOLEAN :
             worker' = [at |-> "up", started |-> 0, beaten |-> Never, ticked |-> Never,
                        full |-> FALSE, stuck |-> FALSE, ffmpeg |-> ffmpeg]
        /\ UNCHANGED <<row, infra, known>>
    BY <1>2 DEF WorkerStarts
  <2>2. row.age >= 0 /\ 0 \in AgesOrNever /\ Never \in AgesOrNever
    BY <1>1, AgesGrow DEF HealthTypes, AgesOrNever
  <2> QED
    BY <1>1, <2>1, <2>2 DEF HealthTypes, RowTellsOf, HealthInv
<1>3. CASE Tick
  BY <1>3, TickTells
<1>4. CASE Drains \/ DrainEnds \/ Dies
  BY <1>1, <1>4 DEF Drains, DrainEnds, Dies, HealthTypes, RowTellsOf, HealthInv
<1>5. CASE Wedges \/ Unwedges
  BY <1>1, <1>5 DEF Wedges, Unwedges, HealthTypes, RowTellsOf, HealthInv
<1>6. CASE Pauses
  BY ZenonT(40), <1>1, <1>6 DEF Pauses, HealthTypes, RowTellsOf, HealthInv
<1>7. CASE InfraChanges
  BY <1>1, <1>7 DEF InfraChanges, HealthTypes, RowTellsOf, HealthInv
<1>8. CASE UNCHANGED healthVars
  BY <1>1, <1>8 DEF healthVars, HealthTypes, RowTellsOf, HealthInv
<1> QED
  BY <1>2, <1>3, <1>4, <1>5, <1>6, <1>7, <1>8 DEF HealthNext

\* It holds at the start.
LEMMA HealthStarts == HealthInit => HealthInv
<1> SUFFICES ASSUME HealthInit PROVE HealthInv
  OBVIOUS
<1>1. Never >= 0 /\ Never >= Never /\ Never \in AgesOrNever /\ 0 \in Ages /\ ~(0 > 0)
  BY AgesGrow DEF AgesOrNever
<1> QED
  BY <1>1 DEF HealthInit, NoStatus, HealthTypes, RowTellsOf, HealthInv

\* One component in trouble is the trouble of the whole.
LEMMA StatusIsWorst ==
    /\ Database = "error" => Status \in {"error", "none"}
    /\ WorkerState = "error" => Status \in {"error", "none"}
    /\ SchedulerState = "error" => Status \in {"error", "none"}
    /\ StorageState = "error" => Status \in {"error", "none"}
    /\ SchedulerState = "warn" => Status \in {"warn", "error", "none"}
    /\ Status = "none" => ~CookiesListed
<1> DEFINE S == {Database, WorkerState, SchedulerState, StorageState, Ffmpeg}
<1>1. Severity("error") = 2 /\ Severity("warn") = 1
  BY DEF Severity
<1>2. Status = (IF ~CookiesListed THEN "none" ELSE Worst(S)) /\ Worst(S) \in {"ok", "warn", "error"}
  BY DEF Status, Worst
<1>3. ASSUME "error" \in S PROVE Worst(S) = "error"
  BY <1>1, <1>3 DEF Worst
<1>4. ASSUME "warn" \in S PROVE Worst(S) \in {"warn", "error"}
  BY <1>1, <1>4 DEF Worst
<1> QED
  BY <1>2, <1>3, <1>4

\* It gives the property.
LEMMA HealthSuffices == HealthInv => StatusTellsTheTruth
<1> SUFFICES ASSUME HealthInv PROVE StatusTellsTheTruth
  OBVIOUS
<1>1. HealthTypes /\ RowTellsOf
  BY DEF HealthInv
<1>2. /\ worker.started \in AgesOrNever /\ worker.beaten \in AgesOrNever /\ worker.ticked \in AgesOrNever
      /\ row.started \in AgesOrNever /\ row.age \in AgesOrNever /\ row.ticked \in AgesOrNever
      /\ known.gone \in Ages /\ known.calm \in Ages
  BY <1>1 DEF HealthTypes
<1>3. /\ worker.started \in Nat /\ worker.ticked \in Nat
      /\ row.started \in Nat /\ row.age \in Nat /\ row.ticked \in Nat
      /\ known.gone \in Nat /\ Stale \in Nat /\ SchedulerStale \in Nat
  BY <1>2, AgesGrow, HealthAssumption DEF AgesOrNever
<1>4. ASSUME infra.db = "up", known.gone > Stale + 1
      PROVE  Status \in {"error", "none"} /\ ~WorkerSeen
  <2>1. row.age > Stale /\ ~(row.age <= Stale)
    <3>1. row.age >= known.gone
      BY <1>1 DEF RowTellsOf
    <3> QED
      BY <1>3, <1>4, <3>1
  <2> QED
    BY <1>4, <2>1, StatusIsWorst DEF WorkerState, WorkerSeen
<1>5. ASSUME worker.at = "up", worker.ticked > SchedulerStale + 1, worker.started > SchedulerStale + 1
      PROVE  Status \in {"warn", "error", "none"} /\ ~WorkerReady
  <2>1. ~WorkerReady
    <3>1. ~(worker.ticked <= SchedulerStale)
      BY <1>3, <1>5
    <3> QED
      BY <3>1 DEF WorkerReady
  <2>2. row.ticked > SchedulerStale /\ row.started > SchedulerStale
    <3>1. CASE worker.beaten # Never
      BY <1>1, <1>3, <1>5, <3>1 DEF RowTellsOf
    <3>2. CASE worker.beaten = Never
      BY <1>1, <1>3, <1>5, <3>2 DEF RowTellsOf
    <3> QED
      BY <3>1, <3>2
  <2>3. CASE infra.db # "up"
    <3>1. Database = "error"
      BY <2>3 DEF Database
    <3> QED
      BY <2>1, <3>1, StatusIsWorst
  <2>4. CASE infra.db = "up" /\ (row.age = Never \/ row.age > Stale)
    <3>1. infra.db # "down"
      BY <2>4
    <3>2. WorkerState = "error"
      BY <2>4, <3>1 DEF WorkerState
    <3> QED
      BY <2>1, <3>2, StatusIsWorst
  <2>5. CASE infra.db = "up" /\ ~(row.age = Never \/ row.age > Stale)
    <3>1. infra.db # "down" /\ ~(row.started <= SchedulerStale)
      BY <1>3, <2>2, <2>5
    <3>2. SchedulerState \in {"warn", "error"}
      BY <2>2, <2>5, <3>1 DEF SchedulerState
    <3>3. CASE SchedulerState = "warn"
      BY <2>1, <3>3, StatusIsWorst
    <3>4. CASE SchedulerState = "error"
      BY <2>1, <3>4, StatusIsWorst
    <3> QED
      BY <3>2, <3>3, <3>4
  <2> QED
    BY <2>1, <2>3, <2>4, <2>5
<1>6. /\ ~ApiReady => Status \in {"error", "none"}
      /\ Status = "none" => ~ApiReady
  BY StatusIsWorst DEF ApiReady, Database, StorageState, CookiesListed
<1>7. ASSUME infra.db = "up", known.calm > 0
      PROVE  /\ WorkerSeen /\ (WorkerState = "error" => row.full)
             /\ SchedulerState = "error" => worker.ticked > SchedulerStale \/ row.ticked > SchedulerStale
  <2>1. row.age = 0
    BY <1>1, <1>7 DEF RowTellsOf
  <2>2. 0 # Never /\ 0 <= Stale /\ ~(0 > Stale)
    BY HealthAssumption
  <2> QED
    BY <1>7, <2>1, <2>2 DEF WorkerSeen, WorkerState, SchedulerState
<1> QED
  BY <1>4, <1>5, <1>6, <1>7 DEF StatusTellsTheTruth, TroubleIsTold, NoFalseAlarm

-----------------------------------------------------------------------------
(* Accounts: sign-in.                                                        *)

LoginSteps == {"idle", "wait", "hold", "verify", "dummy", "code", "spend", "open"}
Cards == [login : [at : LoginSteps, user : Names, code : Int, now : Nat], cookie : Nat]
AccountTypes == /\ clock \in Nat /\ made \in [tokens : Nat, version : Nat]
                /\ browser \in [Browsers -> Cards]

\* A login moves on; the other browsers are not concerned.
LEMMA LoginMoves ==
    ASSUME AccountTypes, NEW b \in Browsers, NEW step \in LoginSteps, Continues(b, step)
    PROVE  /\ browser' \in [Browsers -> Cards]
           /\ \A c \in Browsers \ {b} : browser'[c] = browser[c]
           /\ LoginOf(b)'.at = step
           /\ step # "idle" => LoginOf(b)'.user = LoginOf(b).user /\ LoginOf(b)'.code = LoginOf(b).code
<1> USE DEF AccountTypes, Cards, LoginOf
<1>1. NoLogin \in [at : LoginSteps, user : Names, code : Int, now : Nat] /\ NoLogin.at = "idle"
  BY AccountsAssumption DEF NoLogin, LoginSteps
<1>2. CASE step = "idle"
  <2>1. browser' = [browser EXCEPT ![b].login = NoLogin]
    BY <1>2 DEF Continues
  <2> QED
    BY <1>1, <1>2, <2>1
<1>3. CASE step # "idle"
  <2>1. browser' = [browser EXCEPT ![b].login = [@ EXCEPT !.at = step]]
    BY <1>3 DEF Continues
  <2> QED
    BY <1>3, <2>1
<1> QED
  BY <1>2, <1>3

\* A login gets a slot in the queue, the clock's time, or a code that was matched.
LEMMA LoginFilled ==
    ASSUME AccountTypes, NEW b \in Browsers
    PROVE  /\ \A u \in Names : AskSlot(b, u) =>
                /\ browser' \in [Browsers -> Cards] /\ \A c \in Browsers \ {b} : browser'[c] = browser[c]
                /\ LoginOf(b).at = "idle" /\ LoginOf(b)'.at = "wait"
           /\ Resume(b) =>
                /\ browser' \in [Browsers -> Cards] /\ \A c \in Browsers \ {b} : browser'[c] = browser[c]
                /\ LoginOf(b).at = "wait" /\ LoginOf(b)'.at = "hold" /\ b \in borrowers
           /\ \A code \in 0 .. clock + WINDOW : Match(b, code) =>
                /\ browser' \in [Browsers -> Cards] /\ \A c \in Browsers \ {b} : browser'[c] = browser[c]
                /\ LoginOf(b).at = "code" /\ LoginOf(b)'.at \in {"spend", "idle"}
                /\ LoginOf(b)'.at = "spend" => LoginOf(b)'.user = LoginOf(b).user
           /\ OpenSession(b) =>
                /\ browser' \in [Browsers -> Cards] /\ \A c \in Browsers \ {b} : browser'[c] = browser[c]
                /\ LoginOf(b)'.at = "idle"
<1> USE DEF AccountTypes, Cards
<1>1. NoLogin \in [at : LoginSteps, user : Names, code : Int, now : Nat] /\ NoLogin.at = "idle"
  BY AccountsAssumption DEF NoLogin, LoginSteps
<1>2. ASSUME NEW u \in Names, AskSlot(b, u)
      PROVE  /\ browser' \in [Browsers -> Cards] /\ \A c \in Browsers \ {b} : browser'[c] = browser[c]
             /\ LoginOf(b).at = "idle" /\ LoginOf(b)'.at = "wait"
  <2>1. browser' = [browser EXCEPT ![b].login = [NoLogin EXCEPT !.at = "wait", !.user = u]] /\ LoginOf(b).at = "idle"
    BY <1>2 DEF AskSlot, LoginAt
  <2>2. [NoLogin EXCEPT !.at = "wait", !.user = u] \in [at : LoginSteps, user : Names, code : Int, now : Nat]
    BY <1>1 DEF LoginSteps
  <2>3. [NoLogin EXCEPT !.at = "wait", !.user = u].at = "wait"
    BY <1>1
  <2> QED
    BY <2>1, <2>2, <2>3 DEF LoginOf
<1>3. ASSUME Resume(b)
      PROVE  /\ browser' \in [Browsers -> Cards] /\ \A c \in Browsers \ {b} : browser'[c] = browser[c]
             /\ LoginOf(b).at = "wait" /\ LoginOf(b)'.at = "hold" /\ b \in borrowers
  <2>0. LoginOf(b).at = "wait" /\ b \in borrowers
    BY <1>3 DEF Resume, LoginAt
  <2>1. browser' = [browser EXCEPT ![b].login.at = "hold", ![b].login.now = clock]
    BY <1>3 DEF Resume
  <2>2. "hold" \in LoginSteps
    BY DEF LoginSteps
  <2>3. browser' \in [Browsers -> Cards] /\ (\A c \in Browsers \ {b} : browser'[c] = browser[c])
    BY ZenonT(40), <2>1, <2>2
  <2>4. browser'[b].login.at = "hold"
    BY <2>1
  <2> QED
    BY <2>0, <2>3, <2>4 DEF LoginOf
<1>4. ASSUME NEW code \in 0 .. clock + WINDOW, Match(b, code)
      PROVE  /\ browser' \in [Browsers -> Cards] /\ \A c \in Browsers \ {b} : browser'[c] = browser[c]
             /\ LoginOf(b).at = "code" /\ LoginOf(b)'.at \in {"spend", "idle"}
             /\ LoginOf(b)'.at = "spend" => LoginOf(b)'.user = LoginOf(b).user
  <2>1. CASE browser' = [browser EXCEPT ![b].login.at = "spend", ![b].login.code = code]
    <3>1. code \in Int /\ "spend" \in LoginSteps
      BY AccountsAssumption DEF LoginSteps
    <3>2. browser' \in [Browsers -> Cards] /\ (\A c \in Browsers \ {b} : browser'[c] = browser[c])
      BY ZenonT(40), <2>1, <3>1
    <3>3. browser'[b].login.at = "spend" /\ browser'[b].login.user = browser[b].login.user
      BY <2>1
    <3>4. LoginOf(b).at = "code"
      BY <1>4 DEF Match, LoginAt
    <3> QED
      BY <3>2, <3>3, <3>4 DEF LoginOf
  <2>2. CASE Continues(b, "idle")
    BY <1>4, <2>2, LoginMoves DEF Match, LoginAt, LoginSteps
  <2> QED
    BY <1>4, <2>1, <2>2 DEF Match
<1>5. ASSUME OpenSession(b)
      PROVE  /\ browser' \in [Browsers -> Cards] /\ \A c \in Browsers \ {b} : browser'[c] = browser[c]
             /\ LoginOf(b)'.at = "idle"
  <2>1. browser' = [browser EXCEPT ![b] = [login |-> NoLogin, cookie |-> made.tokens + 1]]
    BY <1>5 DEF OpenSession
  <2> QED
    BY <1>1, <2>1 DEF LoginOf
<1> QED
  BY <1>2, <1>3, <1>4, <1>5

\* A browser's login is well typed at every step.
LEMMA LoginsTyped == AccountTypes /\ [AccountsNext]_accountVars => AccountTypes'
<1> SUFFICES ASSUME AccountTypes, [AccountsNext]_accountVars PROVE AccountTypes'
  OBVIOUS
<1>0. "idle" \in LoginSteps /\ "dummy" \in LoginSteps /\ "verify" \in LoginSteps /\ "open" \in LoginSteps /\ "code" \in LoginSteps
  BY DEF LoginSteps
<1>1. ASSUME NEW b \in Browsers, NEW u \in Names, AskSlot(b, u) PROVE AccountTypes'
  BY <1>1, LoginFilled DEF AskSlot, AccountTypes
<1>2. ASSUME NEW b \in Browsers, WaitedOut(b) \/ RefuseLocked(b) PROVE AccountTypes'
  BY <1>0, <1>2, LoginMoves DEF WaitedOut, RefuseLocked, AccountTypes
<1>3. ASSUME NEW b \in Browsers, Resume(b) PROVE AccountTypes'
  BY <1>3, LoginFilled DEF Resume, AccountTypes
<1>4. ASSUME NEW b \in Browsers, Spend(b) PROVE AccountTypes'
  <2>1. \E step \in {"open", "idle"} : Continues(b, step)
    BY <1>4 DEF Spend
  <2> QED
    BY <1>0, <1>4, <2>1, LoginMoves DEF Spend, AccountTypes
<1>5. ASSUME NEW b \in Browsers, OpenSession(b) PROVE AccountTypes'
  <2>1. made' = [made EXCEPT !.tokens = @ + 1] /\ clock' = clock
    BY <1>5 DEF OpenSession
  <2>2. made' \in [tokens : Nat, version : Nat]
    BY <2>1 DEF AccountTypes
  <2> QED
    BY <1>5, <2>1, <2>2, LoginFilled DEF AccountTypes
<1>6. ASSUME NEW b \in Browsers, NEW prunes \in BOOLEAN, Claim(b, prunes) PROVE AccountTypes'
  <2>1. \E step \in {"dummy", "verify"} : Continues(b, step)
    BY <1>6 DEF Claim
  <2> QED
    BY <1>0, <1>6, <2>1, LoginMoves DEF Claim, AccountTypes
<1>7. ASSUME NEW b \in Browsers, NEW right \in BOOLEAN, Verify(b, right) PROVE AccountTypes'
  <2>1. \E step \in {"idle", "open", "code"} : Continues(b, step)
    BY <1>7 DEF Verify
  <2> QED
    BY <1>0, <1>7, <2>1, LoginMoves DEF Verify, AccountTypes
<1>8. ASSUME NEW b \in Browsers, NEW code \in 0 .. clock + WINDOW, Match(b, code) PROVE AccountTypes'
  BY <1>8, LoginFilled DEF Match, AccountTypes
<1>9. ASSUME NEW b \in Browsers, UseSession(b) PROVE AccountTypes'
  BY <1>9 DEF UseSession, AccountTypes
<1>10. ASSUME NEW b \in Browsers, SignOut(b) PROVE AccountTypes'
  BY <1>10 DEF SignOut, AccountTypes, Cards
<1>11. ASSUME NEW u \in Names, NEW right \in BOOLEAN, Pair(u, right, clock) PROVE AccountTypes'
  BY <1>11 DEF Pair, AccountTypes
<1>12. ASSUME NEW u \in Names, NEW v \in Versions \cup {0}, EditCredentials(u, v) PROVE AccountTypes'
  <2>1. v \in Nat
    BY AccountsAssumption
  <2>2. made' = [made EXCEPT !.version = IF v = 0 THEN @ ELSE v] /\ UNCHANGED <<clock, browser>>
    BY <1>12 DEF EditCredentials
  <2> QED
    BY <2>1, <2>2 DEF AccountTypes
<1>13. ASSUME NEW p \in Processes, StartSync(p) PROVE AccountTypes'
  <2>1. NoLogin \in [at : LoginSteps, user : Names, code : Int, now : Nat]
    BY AccountsAssumption DEF NoLogin, LoginSteps
  <2>2. UNCHANGED <<clock, made>> /\ (UNCHANGED browser
          \/ browser' = [b \in Browsers |-> [browser[b] EXCEPT !.login = NoLogin]])
    BY <1>13 DEF StartSync
  <2> QED
    BY <2>1, <2>2 DEF AccountTypes, Cards
<1>14. ASSUME NEW p \in Processes, Ensure(p) \/ Sync(p) PROVE AccountTypes'
  BY <1>14 DEF Ensure, Sync, AccountTypes
<1>15. CASE TimePasses
  BY <1>15 DEF TimePasses, AccountTypes
<1>16. CASE UNCHANGED accountVars
  BY <1>16 DEF accountVars, AccountTypes
<1> QED
  BY <1>1, <1>2, <1>3, <1>4, <1>5, <1>6, <1>7, <1>8, <1>9, <1>10, <1>11, <1>12, <1>13, <1>14, <1>15, <1>16
     DEF AccountsNext, Answer

\* The slots: who holds one, and who waits for one, is a login that is there.
Queued == {"wait", "hold", "verify", "dummy"}
SlotInv ==
    /\ AccountTypes
    /\ queue \in Seq(Browsers) /\ borrowers \subseteq Browsers
    /\ \A i \in DOMAIN queue : LoginOf(queue[i]).at = "wait" /\ queue[i] \notin borrowers
    /\ \A i, j \in DOMAIN queue : queue[i] = queue[j] => i = j
    /\ \A b \in borrowers : LoginOf(b).at \in Queued
    /\ Cardinality(borrowers) <= HASH_SLOTS
    /\ queue # <<>> => Cardinality(borrowers) = HASH_SLOTS

\* A slot that is free goes to the head of the queue, which keeps the others waiting.
LEMMA SlotGranted ==
    ASSUME NEW set \in SUBSET Browsers, NEW q \in Seq(Browsers), Grants(set, q),
           \A i \in DOMAIN q : q[i] \notin set,
           \A i, j \in DOMAIN q : q[i] = q[j] => i = j,
           Cardinality(set) <= HASH_SLOTS,
           q # <<>> => Cardinality(set) >= HASH_SLOTS - 1 \/ Len(q) = 1
    PROVE  /\ queue' \in Seq(Browsers) /\ borrowers' \subseteq Browsers
           /\ \A i \in DOMAIN queue' : queue'[i] \notin borrowers' /\ \E j \in DOMAIN q : queue'[i] = q[j]
           /\ \A i, j \in DOMAIN queue' : queue'[i] = queue'[j] => i = j
           /\ \A b \in borrowers' : b \in set \/ \E j \in DOMAIN q : b = q[j]
           /\ Cardinality(borrowers') <= HASH_SLOTS
           /\ queue' # <<>> => Cardinality(borrowers') = HASH_SLOTS
<1>1. IsFiniteSet(set) /\ Cardinality(set) \in Nat /\ HASH_SLOTS \in Nat
  BY AccountsAssumption, FS_Subset, FS_CardinalityType
<1>2. CASE q # <<>> /\ Cardinality(set) < HASH_SLOTS
  <2>1. borrowers' = set \cup {Head(q)} /\ queue' = Tail(q)
    BY <1>2 DEF Grants
  <2>2. Head(q) = q[1] /\ 1 \in DOMAIN q /\ q[1] \in Browsers
    BY <1>2
  <2>3. Cardinality(borrowers') = Cardinality(set) + 1
    BY <1>1, <2>1, <2>2, FS_AddElement
  <2>4. /\ queue' \in Seq(Browsers) /\ Len(queue') = Len(q) - 1 /\ Len(q) \in Nat
        /\ \A i \in DOMAIN queue' : i + 1 \in DOMAIN q /\ queue'[i] = q[i + 1] /\ i \in Nat
    BY <1>2, <2>1
  <2>5. \A i \in DOMAIN queue' : queue'[i] \notin borrowers' /\ \E j \in DOMAIN q : queue'[i] = q[j]
    BY <2>1, <2>2, <2>4
  <2>6. \A i, j \in DOMAIN queue' : queue'[i] = queue'[j] => i = j
    BY <2>4
  <2>7. queue' # <<>> => Len(q) # 1
    BY <2>4
  <2> QED
    BY <1>1, <1>2, <2>1, <2>2, <2>3, <2>4, <2>5, <2>6, <2>7
<1>3. CASE ~(q # <<>> /\ Cardinality(set) < HASH_SLOTS)
  BY <1>1, <1>3 DEF Grants
<1> QED
  BY <1>2, <1>3

\* A login that is over, or whose password was looked at, gives its slot back.
LEMMA SlotReleased ==
    ASSUME SlotInv, NEW b \in Browsers, LoginOf(b).at \in Queued, Release(b),
           b \in borrowers \/ LoginOf(b).at # "wait",
           AccountTypes', \A c \in Browsers \ {b} : browser'[c] = browser[c]
    PROVE  SlotInv'
<1> DEFINE set == borrowers \ {b}
<1>1. IsFiniteSet(borrowers) /\ Cardinality(borrowers) \in Nat /\ HASH_SLOTS \in Nat
  BY AccountsAssumption, FS_Subset, FS_CardinalityType DEF SlotInv
<1>2. Cardinality(set) \in Nat /\ Cardinality(set) <= Cardinality(borrowers) /\ Cardinality(set) >= Cardinality(borrowers) - 1
  <2>1. Cardinality(set) = IF b \in borrowers THEN Cardinality(borrowers) - 1 ELSE Cardinality(borrowers)
    BY <1>1, FS_RemoveElement
  <2>2. b \in borrowers => Cardinality(borrowers) >= 1
    BY <1>1, FS_EmptySet
  <2>3. CASE b \in borrowers
    BY <1>1, <2>1, <2>2, <2>3
  <2>4. CASE b \notin borrowers
    BY <1>1, <2>1, <2>4
  <2> QED
    BY <2>3, <2>4
<1>3. set \in SUBSET Browsers /\ Grants(set, queue) /\ Cardinality(set) <= HASH_SLOTS
      /\ (queue # <<>> => Cardinality(set) >= HASH_SLOTS - 1)
  BY <1>1, <1>2 DEF SlotInv, Release
<1>4. \A i \in DOMAIN queue : queue[i] # b /\ queue[i] \in Browsers
  BY DEF SlotInv
<1>5. /\ queue' \in Seq(Browsers) /\ borrowers' \subseteq Browsers
      /\ \A i \in DOMAIN queue' : queue'[i] \notin borrowers' /\ \E j \in DOMAIN queue : queue'[i] = queue[j]
      /\ \A i, j \in DOMAIN queue' : queue'[i] = queue'[j] => i = j
      /\ \A c \in borrowers' : c \in set \/ \E j \in DOMAIN queue : c = queue[j]
      /\ Cardinality(borrowers') <= HASH_SLOTS
      /\ queue' # <<>> => Cardinality(borrowers') = HASH_SLOTS
  <2> HIDE DEF set
  <2>1. queue \in Seq(Browsers) /\ (\A i, j \in DOMAIN queue : queue[i] = queue[j] => i = j)
    BY DEF SlotInv
  <2>2. \A i \in DOMAIN queue : queue[i] \notin set
    BY DEF SlotInv, set
  <2> QED
    BY <1>3, <2>1, <2>2, SlotGranted
<1>6. \A i \in DOMAIN queue' : browser'[queue'[i]].login.at = "wait" /\ queue'[i] \notin borrowers'
  BY <1>4, <1>5 DEF SlotInv, LoginOf
<1>7. \A c \in borrowers' : browser'[c].login.at \in Queued
  BY <1>4, <1>5 DEF SlotInv, LoginOf, Queued
<1> QED
  BY <1>5, <1>6, <1>7 DEF SlotInv, LoginOf

\* A step of a login that has no part in the slots.
LEMMA SlotsAside ==
    ASSUME SlotInv, AccountTypes', UNCHANGED hashing,
           \A c \in Browsers : c \in borrowers => LoginOf(c)'.at \in Queued,
           \A c \in Browsers : LoginOf(c).at = "wait" => c \in borrowers \/ LoginOf(c)'.at = "wait"
    PROVE  SlotInv'
<1>1. queue' = queue /\ borrowers' = borrowers
  BY DEF hashing
<1>2. \A i \in DOMAIN queue : queue[i] \in Browsers
  BY DEF SlotInv
<1>3. \A i \in DOMAIN queue : browser'[queue[i]].login.at = "wait"
  BY <1>2 DEF SlotInv, LoginOf
<1>4. \A c \in borrowers : browser'[c].login.at \in Queued
  BY DEF SlotInv, LoginOf
<1> QED
  BY <1>1, <1>3, <1>4 DEF SlotInv, LoginOf

\* Every step keeps the slots.
LEMMA SlotsHold == SlotInv /\ [AccountsNext]_accountVars => SlotInv'
<1> SUFFICES ASSUME SlotInv, [AccountsNext]_accountVars PROVE SlotInv'
  OBVIOUS
<1>0. AccountTypes /\ AccountTypes'
  BY LoginsTyped DEF SlotInv
<1>1. ASSUME NEW b \in Browsers, NEW u \in Names, AskSlot(b, u) PROVE SlotInv'
  <2>1. /\ \A c \in Browsers \ {b} : browser'[c] = browser[c]
        /\ LoginOf(b).at = "idle" /\ LoginOf(b)'.at = "wait"
    BY <1>0, <1>1, LoginFilled
  <2> DEFINE q == Append(queue, b)
  <2>2. Grants(borrowers, q)
    BY <1>1 DEF AskSlot
  <2>3. b \notin borrowers /\ \A i \in DOMAIN queue : queue[i] # b /\ queue[i] \in Browsers
    BY <2>1 DEF SlotInv, Queued
  <2>4. /\ q \in Seq(Browsers) /\ Len(q) = Len(queue) + 1 /\ Len(queue) \in Nat
        /\ \A i \in DOMAIN q : (i \in DOMAIN queue /\ q[i] = queue[i]) \/ (i = Len(q) /\ q[i] = b)
    <3>1. queue \in Seq(Browsers) /\ Len(queue) \in Nat /\ DOMAIN queue = 1 .. Len(queue)
      BY DEF SlotInv
    <3>2. q \in Seq(Browsers) /\ Len(q) = Len(queue) + 1 /\ DOMAIN q = 1 .. Len(queue) + 1
      BY <3>1
    <3>3. q[Len(queue) + 1] = b /\ \A i \in 1 .. Len(queue) : q[i] = queue[i]
      BY <3>1
    <3> HIDE DEF q
    <3>4. ASSUME NEW i \in 1 .. Len(queue) + 1
          PROVE  (i \in DOMAIN queue /\ q[i] = queue[i]) \/ (i = Len(q) /\ q[i] = b)
      <4>1. CASE i = Len(queue) + 1
        BY <3>2, <3>3, <4>1
      <4>2. CASE i # Len(queue) + 1
        BY <3>1, <3>3, <4>2
      <4> QED
        BY <4>1, <4>2
    <3> QED
      BY <3>1, <3>2, <3>4
  <2>5. (\A i \in DOMAIN q : q[i] \notin borrowers) /\ (\A i, j \in DOMAIN q : q[i] = q[j] => i = j)
    <3> HIDE DEF q
    <3> QED
      BY <2>3, <2>4 DEF SlotInv
  <2>6. q # <<>> => Cardinality(borrowers) >= HASH_SLOTS - 1 \/ Len(q) = 1
    <3>1. CASE queue = <<>>
      BY <2>4, <3>1
    <3>2. CASE queue # <<>>
      BY <3>2, AccountsAssumption DEF SlotInv
    <3> QED
      BY <3>1, <3>2
  <2>7. /\ queue' \in Seq(Browsers) /\ borrowers' \subseteq Browsers
        /\ \A i \in DOMAIN queue' : queue'[i] \notin borrowers' /\ \E j \in DOMAIN q : queue'[i] = q[j]
        /\ \A i, j \in DOMAIN queue' : queue'[i] = queue'[j] => i = j
        /\ \A c \in borrowers' : c \in borrowers \/ \E j \in DOMAIN q : c = q[j]
        /\ Cardinality(borrowers') <= HASH_SLOTS
        /\ queue' # <<>> => Cardinality(borrowers') = HASH_SLOTS
    <3> HIDE DEF q
    <3>1. borrowers \in SUBSET Browsers /\ Cardinality(borrowers) <= HASH_SLOTS
      BY DEF SlotInv
    <3> QED
      BY <2>2, <2>4, <2>5, <2>6, <3>1, SlotGranted
  <2>8. \A j \in DOMAIN q : browser'[q[j]].login.at = "wait"
    <3> HIDE DEF q
    <3> QED
      BY <2>1, <2>3, <2>4 DEF SlotInv, LoginOf
  <2>9. \A i \in DOMAIN queue' : browser'[queue'[i]].login.at = "wait"
    <3> HIDE DEF q
    <3> QED
      BY <2>7, <2>8
  <2>10. \A c \in borrowers' : browser'[c].login.at \in Queued
    <3> HIDE DEF q
    <3> QED
      BY <2>1, <2>3, <2>7, <2>8 DEF SlotInv, LoginOf, Queued
  <2> HIDE DEF q
  <2> QED
    BY <1>0, <2>7, <2>9, <2>10 DEF SlotInv, LoginOf
<1>2. ASSUME NEW b \in Browsers, WaitedOut(b) PROVE SlotInv'
  <2>1. /\ LoginOf(b).at = "wait" /\ \A c \in Browsers \ {b} : browser'[c] = browser[c]
    BY <1>0, <1>2, LoginMoves DEF WaitedOut, LoginAt, LoginSteps
  <2>2. CASE b \in borrowers
    BY <1>0, <1>2, <2>1, <2>2, SlotReleased DEF WaitedOut, Queued
  <2>3. CASE b \notin borrowers
    <3>1. LeaveQueue(b)
      BY <1>2, <2>3 DEF WaitedOut
    <3>2. PICK i \in DOMAIN queue : queue[i] = b /\ queue' = RemoveAt(queue, i) /\ borrowers' = borrowers
      BY <3>1 DEF LeaveQueue
    <3>3. /\ queue' \in Seq(Browsers) /\ Len(queue) \in Nat /\ Len(queue') = Len(queue) - 1 /\ i \in 1 .. Len(queue)
          /\ \A j \in DOMAIN queue' : j \in 1 .. Len(queue) - 1 /\ queue'[j] = IF j < i THEN queue[j] ELSE queue[j + 1]
      <4> DEFINE before == SubSeq(queue, 1, i - 1)  after == SubSeq(queue, i + 1, Len(queue))
      <4>1. queue \in Seq(Browsers) /\ Len(queue) \in Nat /\ i \in 1 .. Len(queue)
        BY <3>2 DEF SlotInv
      <4>2. before \in Seq(Browsers) /\ Len(before) = i - 1 /\ \A j \in 1 .. i - 1 : before[j] = queue[j]
        BY <4>1
      <4>3. /\ after \in Seq(Browsers) /\ Len(after) = Len(queue) - i
            /\ \A j \in 1 .. Len(queue) - i : after[j] = queue[i + j]
        BY <4>1
      <4>4. queue' = before \o after
        BY <3>2 DEF RemoveAt
      <4> HIDE DEF before, after
      <4>5. queue' \in Seq(Browsers) /\ Len(queue') = Len(queue) - 1
        BY <4>1, <4>2, <4>3, <4>4
      <4>6. ASSUME NEW j \in DOMAIN queue'
            PROVE  j \in 1 .. Len(queue) - 1 /\ queue'[j] = IF j < i THEN queue[j] ELSE queue[j + 1]
        <5>1. j \in 1 .. Len(queue) - 1
          BY <4>1, <4>5
        <5>2. CASE j < i
          BY <4>1, <4>2, <4>3, <4>4, <5>1, <5>2
        <5>3. CASE ~(j < i)
          <6>1. queue'[j] = after[j - (i - 1)] /\ j - (i - 1) \in 1 .. Len(queue) - i
            BY <4>1, <4>2, <4>3, <4>4, <5>1, <5>3
          <6> QED
            BY <4>1, <4>3, <5>1, <5>3, <6>1
        <5> QED
          BY <5>1, <5>2, <5>3
      <4> QED
        BY <4>1, <4>5, <4>6
    <3>4. \A j, k \in DOMAIN queue' : queue'[j] = queue'[k] => j = k
      <4>1. PICK n \in Nat : n = Len(queue)
        BY <3>3
      <4>2. DOMAIN queue' = 1 .. n - 1 /\ DOMAIN queue = 1 .. n
        BY <3>3, <4>1 DEF SlotInv
      <4>3. \A j \in 1 .. n - 1 : queue'[j] = IF j < i THEN queue[j] ELSE queue[j + 1]
        BY <3>3, <4>1, <4>2
      <4>4. \A j, k \in 1 .. n : queue[j] = queue[k] => j = k
        BY <4>2 DEF SlotInv
      <4>5. i \in 1 .. n
        BY <4>2
      <4>6. ASSUME NEW j \in 1 .. n - 1, NEW k \in 1 .. n - 1, queue'[j] = queue'[k] PROVE j = k
        <5>1. PICK x \in 1 .. n : x = IF j < i THEN j ELSE j + 1
          BY <4>5
        <5>2. PICK y \in 1 .. n : y = IF k < i THEN k ELSE k + 1
          BY <4>5
        <5>3. queue'[j] = queue[x] /\ queue'[k] = queue[y]
          BY <4>3, <5>1, <5>2
        <5>4. x = y
          BY <4>4, <4>6, <5>3
        <5> QED
          BY <4>5, <5>1, <5>2, <5>4
      <4> QED
        BY <4>2, <4>6
    <3>5. \A j \in DOMAIN queue' : queue'[j] # b /\ queue'[j] \in Browsers /\ \E k \in DOMAIN queue : queue'[j] = queue[k]
      BY <3>2, <3>3 DEF SlotInv
    <3>6. \A j \in DOMAIN queue' : browser'[queue'[j]].login.at = "wait" /\ queue'[j] \notin borrowers
      BY <2>1, <3>5 DEF SlotInv, LoginOf
    <3>7. \A c \in borrowers : browser'[c].login.at \in Queued
      BY <2>1, <2>3 DEF SlotInv, LoginOf
    <3>8. queue # <<>>
      BY <3>3
    <3> QED
      BY <1>0, <3>2, <3>3, <3>4, <3>6, <3>7, <3>8 DEF SlotInv, LoginOf
  <2> QED
    BY <2>2, <2>3
<1>3. ASSUME NEW b \in Browsers, RefuseLocked(b) \/ \E right \in BOOLEAN : Verify(b, right) PROVE SlotInv'
  <2>1. \E step \in LoginSteps : Continues(b, step)
    BY <1>3 DEF RefuseLocked, Verify, LoginSteps
  <2>2. LoginOf(b).at \in {"dummy", "verify"} /\ Release(b)
    BY <1>3 DEF RefuseLocked, Verify, LoginAt
  <2> QED
    BY <1>0, <2>1, <2>2, LoginMoves, SlotReleased DEF Queued
<1>4. ASSUME NEW b \in Browsers, Resume(b) PROVE SlotInv'
  <2>1. UNCHANGED hashing
    BY <1>4 DEF Resume
  <2>2. \A c \in Browsers \ {b} : LoginOf(c)' = LoginOf(c)
    BY <1>0, <1>4, LoginFilled DEF LoginOf
  <2>3. LoginOf(b)'.at = "hold" /\ b \in borrowers
    BY <1>0, <1>4, LoginFilled
  <2> QED
    BY <1>0, <2>1, <2>2, <2>3, SlotsAside DEF SlotInv, Queued
<1>5. ASSUME NEW b \in Browsers, NEW prunes \in BOOLEAN, Claim(b, prunes) PROVE SlotInv'
  <2>1. UNCHANGED hashing /\ LoginOf(b).at = "hold" /\ \E step \in {"dummy", "verify"} : Continues(b, step)
    BY <1>5 DEF Claim, LoginAt
  <2>2. (\A c \in Browsers \ {b} : LoginOf(c)' = LoginOf(c)) /\ LoginOf(b)'.at \in {"dummy", "verify"}
    BY <1>0, <2>1, LoginMoves DEF LoginOf, LoginSteps
  <2> QED
    BY <1>0, <2>1, <2>2, SlotsAside DEF SlotInv, Queued
<1>6. ASSUME NEW b \in Browsers, \/ Spend(b) \/ OpenSession(b)
                                 \/ \E code \in 0 .. clock + WINDOW : Match(b, code)
      PROVE  SlotInv'
  <2>1. UNCHANGED hashing /\ LoginOf(b).at \in {"spend", "open", "code"}
    BY <1>6 DEF Spend, OpenSession, Match, LoginAt
  <2>2. \A c \in Browsers \ {b} : browser'[c] = browser[c]
    <3>1. CASE Spend(b)
      <4>1. \E step \in {"open", "idle"} : Continues(b, step)
        BY <3>1 DEF Spend
      <4> QED
        BY <1>0, <4>1, LoginMoves DEF LoginSteps
    <3>2. CASE OpenSession(b) \/ \E code \in 0 .. clock + WINDOW : Match(b, code)
      BY <1>0, <3>2, LoginFilled
    <3> QED
      BY <1>6, <3>1, <3>2
  <2>3. b \notin borrowers /\ LoginOf(b).at # "wait"
    BY <2>1 DEF SlotInv, Queued
  <2>4. \A c \in Browsers \ {b} : LoginOf(c)' = LoginOf(c)
    BY <2>2 DEF LoginOf
  <2> QED
    BY <1>0, <2>1, <2>3, <2>4, SlotsAside DEF SlotInv
<1>7. ASSUME UNCHANGED <<browser, hashing>> PROVE SlotInv'
  BY <1>0, <1>7 DEF SlotInv, LoginOf, hashing
<1>8. ASSUME NEW b \in Browsers, SignOut(b) PROVE SlotInv'
  <2>1. UNCHANGED hashing /\ browser' = [browser EXCEPT ![b].cookie = 0]
    BY <1>8 DEF SignOut
  <2>2. \A c \in Browsers : LoginOf(c)' = LoginOf(c)
    BY <1>0, <2>1 DEF LoginOf, AccountTypes, Cards
  <2> QED
    BY <1>0, <2>1, <2>2, SlotsAside DEF SlotInv
<1>9. ASSUME NEW p \in Processes, StartSync(p) PROVE SlotInv'
  <2>1. (browser' = browser /\ hashing' = hashing) \/ (queue' = <<>> /\ borrowers' = {})
    <3>1. CASE p = "api"
      BY <1>9, <3>1 DEF StartSync
    <3>2. CASE p # "api"
      BY <1>9, <3>2 DEF StartSync
    <3> QED
      BY <3>1, <3>2
  <2>2. CASE queue' = <<>> /\ borrowers' = {}
    BY <1>0, <2>2, FS_EmptySet, AccountsAssumption DEF SlotInv
  <2> QED
    BY <1>7, <2>1, <2>2
<1>10. ASSUME NEW b \in Browsers, UseSession(b) PROVE SlotInv'
  BY <1>7, <1>10 DEF UseSession
<1>11. ASSUME NEW u \in Names, \/ \E right \in BOOLEAN : Pair(u, right, clock)
                               \/ \E v \in Versions \cup {0} : EditCredentials(u, v)
       PROVE  SlotInv'
  BY <1>7, <1>11 DEF Pair, EditCredentials
<1>12. ASSUME NEW p \in Processes, Ensure(p) \/ Sync(p) PROVE SlotInv'
  BY <1>7, <1>12 DEF Ensure, Sync
<1>13. CASE TimePasses \/ UNCHANGED accountVars
  BY <1>7, <1>13 DEF TimePasses, accountVars
<1> QED
  BY <1>1, <1>2, <1>3, <1>4, <1>5, <1>6, <1>8, <1>9, <1>10, <1>11, <1>12, <1>13 DEF AccountsNext, Answer

\* The rows and the history: a row counts the attempts since its last reset, and its
\* lock is that of the last one.
Tracks(tally, tries) ==
    /\ tally.count = Len(tries)
    /\ tries # <<>> => /\ tally.at = tries[Len(tries)]
                       /\ tally.until = IF LockSeconds(Len(tries)) = 0 THEN 0 ELSE tally.at + LockSeconds(Len(tries))
Spaced(tries) ==
    \A i \in 1 .. Len(tries) - 1 : tries[i + 1] >= tries[i] + LockSeconds(i) \/ i < LOCK_THRESHOLD
Rows == [count : Nat, until : Nat, at : Nat]
Tells(rows, tries) ==
    /\ rows \in [Keys -> Rows] /\ tries \in [Keys -> Seq(Nat)]
    /\ \A k \in Keys : Tracks(rows[k], tries[k]) /\ Spaced(tries[k])
GuessInv == AccountTypes /\ Tells(attempts, allowed)

\* The locks are whole numbers up to the longest, and none is zero from the threshold on.
LEMMA LocksBounded ==
    /\ \A n \in Nat : LockSeconds(n) \in Nat /\ LockSeconds(n) <= LOCK_MAX_SECONDS
    /\ \A n \in Nat : n >= LOCK_THRESHOLD => LockSeconds(n) > 0
<1>0. LOCK_THRESHOLD \in Nat /\ LOCK_BASE_SECONDS \in Nat /\ LOCK_MAX_SECONDS \in Nat
      /\ LOCK_BASE_SECONDS > 0 /\ LOCK_MAX_SECONDS > 0
  BY AccountsAssumption
<1>1. ASSUME NEW a \in Int, NEW b \in Int PROVE Min({a, b}) = IF a <= b THEN a ELSE b
  <2>1. PICK m \in {a, b} : m <= a /\ m <= b
    OBVIOUS
  <2>2. \A x \in {a, b} : (\A y \in {a, b} : x <= y) => x = m
    BY <2>1
  <2>3. \A y \in {a, b} : m <= y
    BY <2>1
  <2>4. Min({a, b}) = m
    BY <2>2, <2>3 DEF Min
  <2> QED
    BY <2>1, <2>4
<1>2. /\ 2^0 > 0 /\ 2^1 > 0 /\ 2^2 > 0 /\ 2^3 > 0 /\ 2^4 > 0 /\ 2^5 > 0 /\ 2^6 > 0 /\ 2^7 > 0 /\ 2^8 > 0
      /\ 2^9 > 0 /\ 2^10 > 0 /\ 2^11 > 0 /\ 2^12 > 0 /\ 2^13 > 0 /\ 2^14 > 0 /\ 2^15 > 0 /\ 2^16 > 0
  OBVIOUS
<1>3. \A e \in 0 .. 16 : 2^e > 0 /\ 2^e \in Int
  <2>1. \A e \in 0 .. 16 : 2^e \in Int
    OBVIOUS
  <2>2. \A e \in 0 .. 16 : \/ e = 0 \/ e = 1 \/ e = 2 \/ e = 3 \/ e = 4 \/ e = 5 \/ e = 6 \/ e = 7 \/ e = 8
                           \/ e = 9 \/ e = 10 \/ e = 11 \/ e = 12 \/ e = 13 \/ e = 14 \/ e = 15 \/ e = 16
    OBVIOUS
  <2> QED
    BY <1>2, <2>1, <2>2
<1>4. ASSUME NEW n \in Nat, n >= LOCK_THRESHOLD
      PROVE  LockSeconds(n) \in Nat /\ LockSeconds(n) <= LOCK_MAX_SECONDS /\ LockSeconds(n) > 0
  <2> DEFINE e == Min({n - LOCK_THRESHOLD, 16})  lock == LOCK_BASE_SECONDS * 2^e
  <2>1. n - LOCK_THRESHOLD \in Nat
    BY <1>0, <1>4
  <2>2. e \in 0 .. 16
    <3>1. PICK d \in Nat : d = n - LOCK_THRESHOLD
      BY <2>1
    <3>2. e = IF d <= 16 THEN d ELSE 16
      BY <1>1, <3>1
    <3> HIDE DEF e
    <3> QED
      BY <3>1, <3>2
  <2> HIDE DEF e
  <2>3. 2^e \in Int /\ 2^e > 0
    BY <1>3, <2>2
  <2>4. lock \in Int /\ lock > 0
    BY <1>0, <2>3
  <2>5. LockSeconds(n) = Min({lock, LOCK_MAX_SECONDS})
    BY <1>0, <1>4 DEF LockSeconds, e
  <2> HIDE DEF lock
  <2> QED
    BY <1>0, <1>1, <2>4, <2>5
<1>5. ASSUME NEW n \in Nat, ~(n >= LOCK_THRESHOLD) PROVE LockSeconds(n) = 0
  BY <1>0, <1>5 DEF LockSeconds
<1> QED
  BY <1>0, <1>4, <1>5

\* An attempt that is counted while the name is not locked.
LEMMA AttemptCounted ==
    ASSUME GuessInv, NEW k \in Keys, NEW now \in Nat, ~Locked(k, now)
    PROVE  Tells([attempts EXCEPT ![k] = Counted(k, now)], [allowed EXCEPT ![k] = Append(@, now)])
<1> DEFINE tries == allowed[k]  n == Len(tries)  more == Append(tries, now)  tally == Counted(k, now)
<1>1. tries \in Seq(Nat) /\ n \in Nat /\ DOMAIN tries = 1 .. n /\ (n # 0 => tries # <<>>)
  BY DEF GuessInv, Tells
<1>2. /\ more \in Seq(Nat) /\ Len(more) = n + 1 /\ more[n + 1] = now /\ more # <<>>
      /\ \A i \in 1 .. n : more[i] = tries[i]
  BY <1>1
<1>3. Tracks(attempts[k], tries) /\ Spaced(tries) /\ attempts[k].until <= now
      /\ attempts[k] \in Rows
  BY DEF GuessInv, Tells, Locked, Rows
<1>4. LockSeconds(n + 1) \in Nat
  BY SMTT(30), <1>1, LocksBounded
<1>5. tally = [count |-> n + 1, at |-> now, until |-> IF LockSeconds(n + 1) = 0 THEN 0 ELSE now + LockSeconds(n + 1)]
  BY <1>3 DEF Counted, Tracks
<1>6. tally \in Rows /\ tally.count = n + 1 /\ tally.at = now
      /\ tally.until = IF LockSeconds(n + 1) = 0 THEN 0 ELSE now + LockSeconds(n + 1)
  BY <1>1, <1>4, <1>5 DEF Rows
<1>7. n # 0 /\ n >= LOCK_THRESHOLD => now >= tries[n] + LockSeconds(n)
  <2> SUFFICES ASSUME n # 0, n >= LOCK_THRESHOLD PROVE now >= tries[n] + LockSeconds(n)
    OBVIOUS
  <2>1. LockSeconds(n) > 0 /\ LockSeconds(n) \in Nat
    BY <1>1, LocksBounded
  <2>2. attempts[k].until = attempts[k].at + LockSeconds(n) /\ attempts[k].at = tries[n]
    BY <1>1, <1>3, <2>1 DEF Tracks
  <2> QED
    BY <1>3, <2>1, <2>2 DEF Rows
<1> HIDE DEF tally, more, tries
<1>8. Tracks(tally, more)
  BY <1>2, <1>6 DEF Tracks
<1>9. Spaced(more)
  <2>1. ASSUME NEW i \in 1 .. Len(more) - 1
        PROVE  more[i + 1] >= more[i] + LockSeconds(i) \/ i < LOCK_THRESHOLD
    <3>1. CASE i = n
      <4>1. more[i + 1] = now /\ more[i] = tries[n]
        BY <1>1, <1>2, <2>1, <3>1
      <4>2. LOCK_THRESHOLD \in Nat
        BY AccountsAssumption
      <4> QED
        BY <1>1, <1>2, <1>7, <2>1, <3>1, <4>1, <4>2
    <3>2. CASE i # n
      <4>0. n \in Nat /\ i \in 1 .. n
        BY <1>1, <1>2, <2>1
      <4>1. i \in 1 .. n - 1 /\ i \in 1 .. n /\ i + 1 \in 1 .. n
        BY <3>2, <4>0
      <4>2. more[i + 1] = tries[i + 1] /\ more[i] = tries[i]
        BY <1>2, <4>1
      <4>3. tries[i + 1] >= tries[i] + LockSeconds(i) \/ i < LOCK_THRESHOLD
        BY <1>3, <4>1 DEF Spaced
      <4> QED
        BY <4>2, <4>3
    <3> QED
      BY <3>1, <3>2
  <2> QED
    BY <2>1 DEF Spaced
<1>10. Append(allowed[k], now) = more /\ Counted(k, now) = tally
  BY DEF more, tries, tally
<1> QED
  BY <1>2, <1>6, <1>8, <1>9, <1>10 DEF GuessInv, Tells

\* A row that goes takes its history with it.
LEMMA RowReset ==
    ASSUME GuessInv, NEW k \in Keys
    PROVE  Tells([attempts EXCEPT ![k] = NoRow], [allowed EXCEPT ![k] = <<>>])
<1>1. Tracks(NoRow, <<>>) /\ Spaced(<<>>) /\ NoRow \in Rows /\ <<>> \in Seq(Nat)
  BY DEF Tracks, Spaced, NoRow, Rows
<1> QED
  BY <1>1 DEF GuessInv, Tells

\* Pruning forgets a row when its last attempt is long ago, and then its lock is over.
LEMMA PrunedTogether ==
    ASSUME NEW rows, NEW tries, Tells(rows, tries), NEW now \in Nat
    PROVE  Tells(Prunes(rows, now), Forgotten(tries, now))
<1> SUFFICES ASSUME NEW k \in Keys
             PROVE  /\ Prunes(rows, now)[k] \in Rows /\ Forgotten(tries, now)[k] \in Seq(Nat)
                    /\ Tracks(Prunes(rows, now)[k], Forgotten(tries, now)[k])
                    /\ Spaced(Forgotten(tries, now)[k])
  BY DEF Tells, Prunes, Forgotten
<1>1. Tracks(NoRow, <<>>) /\ Spaced(<<>>) /\ NoRow \in Rows /\ <<>> \in Seq(Nat) /\ NoRow.count = 0
  BY DEF Tracks, Spaced, NoRow, Rows
<1>2. rows[k] \in Rows /\ tries[k] \in Seq(Nat) /\ Tracks(rows[k], tries[k]) /\ Spaced(tries[k])
  BY DEF Tells
<1>3. PRUNE_AFTER \in Nat /\ LOCK_MAX_SECONDS \in Nat /\ LOCK_MAX_SECONDS <= PRUNE_AFTER
  BY AccountsAssumption
<1>4. Prunes(rows, now)[k] = IF Forgettable(rows[k], now) THEN NoRow ELSE rows[k]
  BY DEF Prunes
<1>5. CASE tries[k] = <<>>
  <2>1. Forgotten(tries, now)[k] = <<>> /\ Tracks(rows[k], <<>>)
    BY <1>2, <1>5 DEF Forgotten
  <2> QED
    BY <1>1, <1>2, <1>4, <2>1
<1>6. CASE tries[k] # <<>>
  <2> DEFINE n == Len(tries[k])
  <2>1. n \in Nat /\ rows[k].at = tries[k][n] /\ rows[k].at \in Nat /\ rows[k].until \in Nat
        /\ rows[k].until = IF LockSeconds(n) = 0 THEN 0 ELSE rows[k].at + LockSeconds(n)
    BY <1>2, <1>6 DEF Tracks, Rows
  <2>2. LockSeconds(n) \in Nat /\ LockSeconds(n) <= LOCK_MAX_SECONDS
    BY <2>1, LocksBounded
  <2>3. Forgettable(rows[k], now) <=> rows[k].at < now - PRUNE_AFTER
    BY <1>3, <2>1, <2>2 DEF Forgettable
  <2>4. Forgotten(tries, now)[k] = IF rows[k].at < now - PRUNE_AFTER THEN <<>> ELSE tries[k]
    BY <1>6, <2>1 DEF Forgotten, Last
  <2> QED
    BY <1>1, <1>2, <1>4, <2>3, <2>4
<1> QED
  BY <1>5, <1>6

\* Every step keeps rows and history together.
LEMMA GuessesHold == GuessInv /\ [AccountsNext]_accountVars => GuessInv'
<1> SUFFICES ASSUME GuessInv, [AccountsNext]_accountVars PROVE GuessInv'
  OBVIOUS
<1>0. AccountTypes /\ AccountTypes'
  BY LoginsTyped DEF GuessInv
<1>1. ASSUME UNCHANGED <<attempts, allowed>> PROVE GuessInv'
  BY <1>0, <1>1 DEF GuessInv, Tells
<1>2. ASSUME NEW b \in Browsers, NEW prunes \in BOOLEAN, Claim(b, prunes) PROVE GuessInv'
  <2> DEFINE l == LoginOf(b)  k == KeyOf(l.user)
             rows == IF Locked(k, l.now) THEN attempts ELSE [attempts EXCEPT ![k] = Counted(k, l.now)]
             tries == IF Locked(k, l.now) THEN allowed ELSE [allowed EXCEPT ![k] = Append(@, l.now)]
  <2>1. /\ attempts' = IF prunes THEN Prunes(rows, l.now) ELSE rows
        /\ allowed' = IF prunes THEN Forgotten(tries, l.now) ELSE tries
    BY <1>2 DEF Claim
  <2>2. l.now \in Nat /\ k \in Keys
    BY <1>0 DEF AccountTypes, Cards, LoginOf, Keys, KeyOf, InConf
  <2>3. Tells(rows, tries)
    <3>1. CASE Locked(k, l.now)
      BY <3>1 DEF GuessInv
    <3>2. CASE ~Locked(k, l.now)
      BY <2>2, <3>2, AttemptCounted
    <3> QED
      BY <3>1, <3>2
  <2> HIDE DEF rows, tries
  <2>4. Tells(attempts', allowed')
    <3>1. CASE prunes
      BY <2>1, <2>2, <2>3, <3>1, PrunedTogether
    <3>2. CASE ~prunes
      BY <2>1, <2>3, <3>2
    <3> QED
      BY <3>1, <3>2
  <2> QED
    BY <1>0, <2>4 DEF GuessInv, Tells
<1>3. ASSUME NEW b \in Browsers, OpenSession(b) PROVE GuessInv'
  <2>1. KeyOf(LoginOf(b).user) \in Keys
    BY <1>0 DEF AccountTypes, Cards, LoginOf, Keys, KeyOf, InConf
  <2>2. /\ attempts' = [attempts EXCEPT ![KeyOf(LoginOf(b).user)] = NoRow]
        /\ allowed' = [allowed EXCEPT ![KeyOf(LoginOf(b).user)] = <<>>]
    BY <1>3 DEF OpenSession
  <2>3. Tells(attempts', allowed')
    BY <2>1, <2>2, RowReset
  <2> QED
    BY <1>0, <2>3 DEF GuessInv, Tells
<1>4. ASSUME NEW u \in Names, NEW right \in BOOLEAN, Pair(u, right, clock) PROVE GuessInv'
  <2>1. KeyOf(u) \in Keys /\ clock \in Nat
    BY <1>0 DEF AccountTypes, Keys, KeyOf, InConf
  <2>2. /\ ~Locked(KeyOf(u), clock)
        /\ attempts' = [attempts EXCEPT ![KeyOf(u)] = IF right THEN NoRow ELSE Counted(KeyOf(u), clock)]
        /\ allowed' = [allowed EXCEPT ![KeyOf(u)] = IF right THEN <<>> ELSE Append(@, clock)]
    BY <1>4 DEF Pair
  <2>3. CASE right
    <3>1. attempts' = [attempts EXCEPT ![KeyOf(u)] = NoRow] /\ allowed' = [allowed EXCEPT ![KeyOf(u)] = <<>>]
      BY <2>2, <2>3
    <3>2. Tells(attempts', allowed')
      BY <2>1, <3>1, RowReset
    <3> QED
      BY <1>0, <3>2 DEF GuessInv, Tells
  <2>4. CASE ~right
    <3>1. /\ attempts' = [attempts EXCEPT ![KeyOf(u)] = Counted(KeyOf(u), clock)]
          /\ allowed' = [allowed EXCEPT ![KeyOf(u)] = Append(@, clock)]
      BY <2>2, <2>4
    <3>2. Tells(attempts', allowed')
      BY <2>1, <2>2, <3>1, AttemptCounted
    <3> QED
      BY <1>0, <3>2 DEF GuessInv, Tells
  <2> QED
    BY <2>3, <2>4
<1>5. ASSUME NEW p \in Processes, Sync(p) PROVE GuessInv'
  <2>1. attempts' = Prunes(attempts, clock) /\ allowed' = Forgotten(allowed, clock)
    BY <1>5 DEF Sync
  <2>2. Tells(attempts', allowed')
    BY <1>0, <2>1, PrunedTogether DEF GuessInv, AccountTypes
  <2> QED
    BY <1>0, <2>2 DEF GuessInv, Tells
<1>6. ASSUME NEW b \in Browsers,
             \/ WaitedOut(b) \/ Resume(b) \/ RefuseLocked(b) \/ Spend(b) \/ UseSession(b) \/ SignOut(b)
             \/ \E u \in Names : AskSlot(b, u)
             \/ \E right \in BOOLEAN : Verify(b, right)
             \/ \E code \in 0 .. clock + WINDOW : Match(b, code)
      PROVE  GuessInv'
  BY <1>1, <1>6 DEF WaitedOut, Resume, RefuseLocked, Spend, UseSession, SignOut, AskSlot, Verify, Match
<1>7. ASSUME NEW u \in Names, NEW v \in Versions \cup {0}, EditCredentials(u, v) PROVE GuessInv'
  BY <1>1, <1>7 DEF EditCredentials
<1>8. ASSUME NEW p \in Processes, StartSync(p) \/ Ensure(p) PROVE GuessInv'
  BY <1>1, <1>8 DEF StartSync, Ensure
<1>9. CASE TimePasses \/ UNCHANGED accountVars
  BY <1>1, <1>9 DEF TimePasses, accountVars
<1> QED
  BY <1>2, <1>3, <1>4, <1>5, <1>6, <1>7, <1>8, <1>9 DEF AccountsNext, Answer

\* The codes that were accepted, in the order of their steps, the last one stored.
CodeInv ==
    /\ AccountTypes
    /\ accepted \in [Names -> Seq(Int)]
    /\ \A u \in Names : users[u].step \in Int
    /\ \A u \in Names : \A i \in DOMAIN accepted[u] : accepted[u][i] <= users[u].step
    /\ CodeGoodOnce

\* What sync_users makes of the accounts keeps them functions on the names.
UsersKept == users = [u \in Names |-> users[u]] /\ \A u \in Names : users[u] = [digest |-> users[u].digest, step |-> users[u].step]

\* Every step keeps the codes in order.
LEMMA CodesHold == CodeInv /\ UsersKept /\ [AccountsNext]_accountVars => CodeInv' /\ UsersKept'
<1> SUFFICES ASSUME CodeInv, UsersKept, [AccountsNext]_accountVars PROVE CodeInv' /\ UsersKept'
  OBVIOUS
<1>0. AccountTypes /\ AccountTypes'
  BY LoginsTyped DEF CodeInv
<1>1. ASSUME UNCHANGED <<users, accepted>> PROVE CodeInv' /\ UsersKept'
  BY <1>0, <1>1 DEF CodeInv, CodeGoodOnce, UsersKept
<1>2. ASSUME NEW b \in Browsers, Spend(b) PROVE CodeInv' /\ UsersKept'
  <2> DEFINE u == LoginOf(b).user  code == LoginOf(b).code  s == accepted[u]  more == Append(s, code)
  <2>1. u \in Names /\ code \in Int
    BY <1>0 DEF AccountTypes, Cards, LoginOf
  <2>2. CASE UNCHANGED <<users, accepted>>
    BY <1>1, <2>2
  <2>3. CASE users[u].step < code /\ users' = [users EXCEPT ![u].step = code]
             /\ accepted' = [accepted EXCEPT ![u] = more]
    <3>1. s \in Seq(Int) /\ Len(s) \in Nat /\ DOMAIN s = 1 .. Len(s) /\ users[u].step \in Int
          /\ (\A i \in DOMAIN s : s[i] <= users[u].step /\ s[i] \in Int)
          /\ (\A i, j \in DOMAIN s : i < j => s[i] < s[j])
      BY <2>1 DEF CodeInv, CodeGoodOnce
    <3>2. more \in Seq(Int) /\ DOMAIN more = 1 .. Len(s) + 1 /\ more[Len(s) + 1] = code
          /\ \A i \in 1 .. Len(s) : more[i] = s[i]
      BY <2>1, <3>1
    <3> HIDE DEF more, s, code
    <3>3. \A i \in DOMAIN more : more[i] <= code
      <4>1. ASSUME NEW i \in 1 .. Len(s) + 1 PROVE more[i] <= code
        <5>1. CASE i = Len(s) + 1
          BY <2>1, <3>2, <5>1
        <5>2. CASE i # Len(s) + 1
          <6>1. i \in 1 .. Len(s)
            BY <3>1, <5>2
          <6> QED
            BY <2>1, <2>3, <3>1, <3>2, <6>1
        <5> QED
          BY <5>1, <5>2
      <4> QED
        BY <3>2, <4>1
    <3>4. \A i, j \in DOMAIN more : i < j => more[i] < more[j]
      <4>1. ASSUME NEW i \in 1 .. Len(s) + 1, NEW j \in 1 .. Len(s) + 1, i < j PROVE more[i] < more[j]
        <5>1. i \in 1 .. Len(s)
          BY <3>1, <4>1
        <5>2. CASE j = Len(s) + 1
          BY <2>1, <2>3, <3>1, <3>2, <5>1, <5>2
        <5>3. CASE j # Len(s) + 1
          <6>1. j \in 1 .. Len(s)
            BY <3>1, <5>3
          <6> QED
            BY <3>1, <3>2, <4>1, <5>1, <6>1
        <5> QED
          BY <5>2, <5>3
      <4> QED
        BY <3>2, <4>1
    <3>5. accepted' \in [Names -> Seq(Int)] /\ \A v \in Names : accepted'[v] = IF v = u THEN more ELSE accepted[v]
      BY <2>1, <2>3, <3>2 DEF CodeInv
    <3>6. /\ \A v \in Names : users'[v] = IF v = u THEN [users[u] EXCEPT !.step = code] ELSE users[v]
          /\ users' = [v \in Names |-> users'[v]]
      BY <2>1, <2>3 DEF UsersKept
    <3>7. [users[u] EXCEPT !.step = code] = [digest |-> users[u].digest, step |-> code]
      BY <2>1 DEF UsersKept
    <3>8. \A v \in Names : users'[v].step = IF v = u THEN code ELSE users[v].step
      BY <3>6, <3>7
    <3>9. UsersKept'
      BY <3>6, <3>7 DEF UsersKept
    <3>10. CodeGoodOnce'
      BY <2>1, <3>4, <3>5 DEF CodeInv, CodeGoodOnce
    <3>11. \A v \in Names : \A i \in DOMAIN accepted'[v] : accepted'[v][i] <= users'[v].step
      BY <3>3, <3>5, <3>8 DEF CodeInv
    <3>12. \A v \in Names : users'[v].step \in Int
      BY <2>1, <3>8 DEF CodeInv
    <3> QED
      BY <1>0, <3>5, <3>9, <3>10, <3>11, <3>12 DEF CodeInv
  <2> QED
    BY <1>2, <2>2, <2>3 DEF Spend
<1>3. ASSUME NEW p \in Processes, Sync(p) PROVE CodeInv' /\ UsersKept'
  <2>1. PICK changed : /\ accepted' = [u \in Names |-> IF u \in changed THEN <<>> ELSE accepted[u]]
                       /\ users' = [u \in Names |-> IF u \in changed THEN [digest |-> proc[p].conf[u], step |-> 0]
                                                    ELSE users[u]]
    BY <1>3 DEF Sync
  <2>2. \A u \in Names : /\ accepted'[u] = IF u \in changed THEN <<>> ELSE accepted[u]
                         /\ users'[u] = IF u \in changed THEN [digest |-> proc[p].conf[u], step |-> 0] ELSE users[u]
                         /\ users'[u].step = IF u \in changed THEN 0 ELSE users[u].step
    BY <2>1
  <2>3. accepted' \in [Names -> Seq(Int)] /\ <<>> \in Seq(Int) /\ DOMAIN <<>> = {}
    BY <2>1 DEF CodeInv
  <2>4. UsersKept'
    <3>1. users' = [u \in Names |-> users'[u]]
      BY <2>1
    <3> QED
      BY <2>2, <3>1 DEF UsersKept
  <2>5. CodeGoodOnce'
    BY <2>2, <2>3 DEF CodeInv, CodeGoodOnce
  <2>6. \A u \in Names : \A i \in DOMAIN accepted'[u] : accepted'[u][i] <= users'[u].step
    BY <2>2, <2>3 DEF CodeInv
  <2>7. \A u \in Names : users'[u].step \in Int
    <3>1. \A u \in Names : users'[u].step = IF u \in changed THEN 0 ELSE users[u].step
      BY <2>2
    <3> QED
      BY <3>1 DEF CodeInv
  <2> QED
    BY <1>0, <2>3, <2>4, <2>5, <2>6, <2>7 DEF CodeInv
<1>4. ASSUME NEW b \in Browsers,
             \/ WaitedOut(b) \/ Resume(b) \/ RefuseLocked(b) \/ OpenSession(b) \/ UseSession(b) \/ SignOut(b)
             \/ \E u \in Names : AskSlot(b, u)
             \/ \E prunes \in BOOLEAN : Claim(b, prunes)
             \/ \E right \in BOOLEAN : Verify(b, right)
             \/ \E code \in 0 .. clock + WINDOW : Match(b, code)
      PROVE  CodeInv' /\ UsersKept'
  BY <1>1, <1>4 DEF WaitedOut, Resume, RefuseLocked, OpenSession, UseSession, SignOut, AskSlot, Claim, Verify, Match
<1>5. ASSUME NEW u \in Names, \/ \E right \in BOOLEAN : Pair(u, right, clock)
                              \/ \E v \in Versions \cup {0} : EditCredentials(u, v)
      PROVE  CodeInv' /\ UsersKept'
  BY <1>1, <1>5 DEF Pair, EditCredentials
<1>6. ASSUME NEW p \in Processes, StartSync(p) \/ Ensure(p) PROVE CodeInv' /\ UsersKept'
  BY <1>1, <1>6 DEF StartSync, Ensure
<1>7. CASE TimePasses \/ UNCHANGED accountVars
  BY <1>1, <1>7 DEF TimePasses, accountVars
<1> QED
  BY <1>2, <1>3, <1>4, <1>5, <1>6, <1>7 DEF AccountsNext, Answer

\* The sessions and the credentials they were opened with.  A digest is stored in the
\* transaction that ends its User's sessions, so one that lives on was opened with the
\* credentials whose digest is stored, unless that was another's then; and what an api
\* found unchanged it has itself.
SessionInv ==
    /\ AccountTypes /\ file \in [Names -> Nat]
    /\ proc \in [Processes -> [at : {"up", "ensure", "sync"}, conf : [Names -> Nat], read : [Names -> Nat]]]
    /\ \A u \in Names : users[u].digest \in Nat
    /\ \A s \in live : s.user \in Names /\ s.overtaken \in BOOLEAN
    /\ \A s \in live : s.overtaken \/ s.version = users[s.user].digest
    /\ proc["api"].at = "sync" =>
         \A s \in live : \/ s.overtaken \/ s.version = proc["api"].conf[s.user]
                         \/ s.user \in ChangedCredentials("api") \/ proc["api"].conf[s.user] = 0
    /\ NobodyKeepsASession

\* Sessions go, or slide.
LEMMA SessionsFewer ==
    ASSUME SessionInv, AccountTypes', UNCHANGED proc, file' \in [Names -> Nat],
           \A u \in Names : users'[u].digest = users[u].digest,
           \A s \in live' : \E o \in live : s.user = o.user /\ s.version = o.version /\ s.overtaken = o.overtaken
    PROVE  SessionInv'
BY DEF SessionInv, NobodyKeepsASession, Serving, Conf, ChangedCredentials

\* Every step keeps the sessions current.
LEMMA SessionsHold == SessionInv /\ UsersKept /\ [AccountsNext]_accountVars => SessionInv'
<1> SUFFICES ASSUME SessionInv, UsersKept, [AccountsNext]_accountVars PROVE SessionInv'
  OBVIOUS
<1>0. AccountTypes /\ AccountTypes' /\ file \in [Names -> Nat]
  BY LoginsTyped DEF SessionInv
<1>1. "api" \in Processes /\ "worker" \in Processes /\ \A p \in Processes : p = "api" \/ p = "worker"
  BY DEF Processes
<1>2. ASSUME UNCHANGED <<proc, users, live>>, file' \in [Names -> Nat] PROVE SessionInv'
  BY <1>0, <1>2, SessionsFewer
<1>3. ASSUME NEW b \in Browsers, NEW u \in Names, AskSlot(b, u) PROVE SessionInv'
  BY <1>0, <1>2, <1>3 DEF AskSlot
<1>4. ASSUME NEW b \in Browsers, \/ WaitedOut(b) \/ RefuseLocked(b) \/ Resume(b)
                                 \/ \E prunes \in BOOLEAN : Claim(b, prunes)
                                 \/ \E right \in BOOLEAN : Verify(b, right)
                                 \/ \E code \in 0 .. clock + WINDOW : Match(b, code)
      PROVE  SessionInv'
  BY <1>0, <1>2, <1>4 DEF WaitedOut, RefuseLocked, Resume, Claim, Verify, Match
<1>5. ASSUME NEW u \in Names, \/ \E right \in BOOLEAN : Pair(u, right, clock)
                              \/ \E v \in Versions \cup {0} : EditCredentials(u, v)
      PROVE  SessionInv'
  <2>1. UNCHANGED <<proc, users, live>>
    BY <1>5 DEF Pair, EditCredentials
  <2>2. file' \in [Names -> Nat]
    <3>1. \A v \in Versions \cup {0} : v \in Nat
      BY AccountsAssumption
    <3> QED
      BY <1>0, <1>5, <3>1 DEF Pair, EditCredentials
  <2> QED
    BY <1>2, <2>1, <2>2
<1>6. ASSUME NEW b \in Browsers, Spend(b) PROVE SessionInv'
  <2>1. UNCHANGED <<proc, live, file>>
    BY <1>6 DEF Spend
  <2>2. \A u \in Names : users'[u].digest = users[u].digest
    <3>1. CASE users' = users
      BY <3>1
    <3>2. CASE users' = [users EXCEPT ![LoginOf(b).user].step = LoginOf(b).code]
      BY <3>2 DEF UsersKept
    <3> QED
      BY <1>6, <3>1, <3>2 DEF Spend
  <2> QED
    BY <1>0, <2>1, <2>2, SessionsFewer
<1>7. ASSUME NEW b \in Browsers, OpenSession(b) PROVE SessionInv'
  <2> DEFINE u == LoginOf(b).user
  <2> DEFINE new == [id |-> made.tokens + 1, user |-> u, version |-> Conf(u),
                     overtaken |-> users[u].digest # Conf(u), seen |-> clock, expires |-> clock + SESSION]
  <2>1. PICK fresh : /\ fresh.user = u /\ fresh.version = Conf(u)
                     /\ fresh.overtaken = (users[u].digest # Conf(u))
                     /\ \A s \in live' : s \in live \/ s = fresh
    <3>1. live' = {s \in live : s.id # browser[b].cookie /\ s.expires >= clock} \cup {new}
      BY <1>7 DEF OpenSession
    <3>2. new.user = u /\ new.version = Conf(u) /\ new.overtaken = (users[u].digest # Conf(u))
      OBVIOUS
    <3> HIDE DEF new, u
    <3> QED
      BY <3>1, <3>2
  <2>2. UNCHANGED <<proc, users, file>> /\ proc["api"].at = "up"
    BY <1>7 DEF OpenSession, LoginAt, Serving
  <2>3. u \in Names
    BY <1>0 DEF AccountTypes, Cards, LoginOf
  <2> HIDE DEF u
  <2>4. (\A s \in live : s.user \in Names /\ s.overtaken \in BOOLEAN)'
    <3>1. fresh.overtaken \in BOOLEAN
      BY <2>1
    <3>2. \A s \in live : s.user \in Names /\ s.overtaken \in BOOLEAN
      BY DEF SessionInv
    <3> QED
      BY <2>1, <2>3, <3>1, <3>2
  <2>5. (\A s \in live : s.overtaken \/ s.version = users[s.user].digest)'
    <3>1. fresh.overtaken \/ fresh.version = users[fresh.user].digest
      BY <2>1
    <3>2. \A s \in live : s.overtaken \/ s.version = users[s.user].digest
      BY DEF SessionInv
    <3> QED
      BY <2>1, <2>2, <3>1, <3>2
  <2>6. NobodyKeepsASession'
    BY <2>1, <2>2 DEF SessionInv, NobodyKeepsASession, Serving, Conf
  <2> QED
    BY <1>0, <2>2, <2>4, <2>5, <2>6 DEF SessionInv
<1>8. ASSUME NEW b \in Browsers, UseSession(b) PROVE SessionInv'
  <2>1. UNCHANGED <<proc, users, file>>
    BY <1>8 DEF UseSession
  <2>2. \A s \in live' : \E o \in live : s.user = o.user /\ s.version = o.version /\ s.overtaken = o.overtaken
    <3>1. PICK s \in live : \/ live' = live \ {s}
                            \/ live' = (live \ {s}) \cup {[s EXCEPT !.seen = clock, !.expires = clock + SESSION]}
      BY <1>8 DEF UseSession
    <3> DEFINE t == [s EXCEPT !.seen = clock, !.expires = clock + SESSION]
    <3>2. t.user = s.user /\ t.version = s.version /\ t.overtaken = s.overtaken
      OBVIOUS
    <3> HIDE DEF t
    <3>3. \A x \in live' : x \in live \/ x = t
      BY <3>1 DEF t
    <3> QED
      BY <3>2, <3>3
  <2> QED
    BY <1>0, <2>1, <2>2, SessionsFewer
<1>9. ASSUME NEW b \in Browsers, SignOut(b) PROVE SessionInv'
  BY <1>0, <1>9, SessionsFewer DEF SignOut
<1>10. ASSUME NEW p \in Processes, StartSync(p) PROVE SessionInv'
  <2>1. UNCHANGED <<users, live, file>> /\ proc' = [proc EXCEPT ![p] = [at |-> "ensure", conf |-> file, read |-> file]]
    BY <1>10 DEF StartSync
  <2>2. file \in [Names -> Nat]
    BY <1>0
  <2>3. proc' \in [Processes -> [at : {"up", "ensure", "sync"}, conf : [Names -> Nat], read : [Names -> Nat]]]
    BY <2>1, <2>2 DEF SessionInv
  <2>4. proc'["api"] = proc["api"] \/ proc'["api"].at = "ensure"
    BY <1>1, <2>1 DEF SessionInv
  <2>5. NobodyKeepsASession'
    BY <2>1, <2>4 DEF SessionInv, NobodyKeepsASession, Serving, Conf
  <2>6. (proc["api"].at = "sync" =>
         \A s \in live : \/ s.overtaken \/ s.version = proc["api"].conf[s.user]
                         \/ s.user \in ChangedCredentials("api") \/ proc["api"].conf[s.user] = 0)'
    BY <2>1, <2>4 DEF SessionInv, ChangedCredentials
  <2> QED
    BY <1>0, <2>1, <2>3, <2>5, <2>6 DEF SessionInv
<1>11. ASSUME NEW p \in Processes, Ensure(p) PROVE SessionInv'
  <2> DEFINE now == [u \in Names |-> users[u].digest]
  <2>1. /\ UNCHANGED <<users, live, file>> /\ proc[p].at = "ensure"
        /\ proc' = [proc EXCEPT ![p].at = "sync", ![p].read = now]
    BY <1>11 DEF Ensure
  <2>2. now \in [Names -> Nat] /\ \A u \in Names : now[u] = users[u].digest
    BY DEF SessionInv
  <2> HIDE DEF now
  <2>3. /\ proc' \in [Processes -> [at : {"up", "ensure", "sync"}, conf : [Names -> Nat], read : [Names -> Nat]]]
        /\ p # "api" => proc'["api"] = proc["api"]
        /\ p = "api" => proc'["api"].at = "sync" /\ proc'["api"].conf = proc["api"].conf /\ proc'["api"].read = now
    BY <1>1, <2>1, <2>2 DEF SessionInv
  <2>4. CASE p # "api"
    <3>1. proc'["api"] = proc["api"]
      BY <2>3, <2>4
    <3>2. NobodyKeepsASession'
      BY <2>1, <3>1 DEF SessionInv, NobodyKeepsASession, Serving, Conf
    <3>3. (proc["api"].at = "sync" =>
             \A s \in live : \/ s.overtaken \/ s.version = proc["api"].conf[s.user]
                             \/ s.user \in ChangedCredentials("api") \/ proc["api"].conf[s.user] = 0)'
      BY <2>1, <3>1 DEF SessionInv, ChangedCredentials
    <3> QED
      BY <1>0, <2>1, <2>3, <3>2, <3>3 DEF SessionInv
  <2>5. CASE p = "api"
    <3>1. \A s \in live : \/ s.overtaken \/ s.version = proc'["api"].conf[s.user]
                          \/ s.user \in ChangedCredentials("api")' \/ proc'["api"].conf[s.user] = 0
      BY <2>2, <2>3, <2>5 DEF SessionInv, ChangedCredentials
    <3>2. NobodyKeepsASession'
      BY <2>3, <2>5 DEF NobodyKeepsASession, Serving
    <3> QED
      BY <1>0, <2>1, <2>3, <3>1, <3>2 DEF SessionInv
  <2> QED
    BY <2>4, <2>5
<1>12. ASSUME NEW p \in Processes, Sync(p) PROVE SessionInv'
  <2> DEFINE changed == ChangedCredentials(p)
  <2>1. /\ file' = file /\ proc[p].at = "sync" /\ proc' = [proc EXCEPT ![p].at = "up"]
        /\ \A s \in live' : s \in live /\ s.user \notin changed /\ proc[p].conf[s.user] # 0
        /\ users' = [u \in Names |-> IF u \in changed THEN [digest |-> proc[p].conf[u], step |-> 0] ELSE users[u]]
    BY <1>12 DEF Sync
  <2>2. proc[p].conf \in [Names -> Nat]
    BY DEF SessionInv
  <2>3. changed = {u \in Names : proc[p].conf[u] # 0 /\ proc[p].read[u] # proc[p].conf[u]}
    BY DEF ChangedCredentials
  <2> HIDE DEF changed
  <2>4. \A u \in Names : /\ users'[u].digest \in Nat
                         /\ u \notin changed => users'[u].digest = users[u].digest
    BY <2>1, <2>2 DEF SessionInv
  <2>5. /\ proc' \in [Processes -> [at : {"up", "ensure", "sync"}, conf : [Names -> Nat], read : [Names -> Nat]]]
        /\ proc'["api"].conf = proc["api"].conf /\ proc'["api"].read = proc["api"].read
        /\ p # "api" => proc'["api"] = proc["api"]
        /\ p = "api" => proc'["api"].at = "up"
    BY <1>1, <2>1 DEF SessionInv
  <2>6. \A s \in live' : /\ s.user \in Names /\ s.overtaken \in BOOLEAN
                         /\ s.overtaken \/ s.version = users'[s.user].digest
    BY <2>1, <2>4 DEF SessionInv
  <2>7. CASE p # "api"
    BY <1>0, <2>1, <2>4, <2>5, <2>6, <2>7 DEF SessionInv, NobodyKeepsASession, Serving, Conf, ChangedCredentials
  <2>8. CASE p = "api"
    <3>1. changed = ChangedCredentials("api")
      BY <2>8 DEF changed
    <3>2. \A s \in live' : s.overtaken \/ s.version = proc["api"].conf[s.user]
      BY <2>1, <2>8, <3>1 DEF SessionInv
    <3>3. NobodyKeepsASession'
      BY <2>5, <3>2 DEF NobodyKeepsASession, Conf
    <3>4. AccountTypes' /\ file' \in [Names -> Nat]
      BY <1>0, <2>1
    <3>5. proc'["api"].at # "sync"
      BY <2>5, <2>8
    <3> QED
      BY <2>4, <2>5, <2>6, <3>3, <3>4, <3>5 DEF SessionInv
  <2> QED
    BY <2>7, <2>8
<1>13. CASE TimePasses \/ UNCHANGED accountVars
  BY <1>0, <1>2, <1>13 DEF TimePasses, accountVars
<1> QED
  BY <1>3, <1>4, <1>5, <1>6, <1>7, <1>8, <1>9, <1>10, <1>11, <1>12, <1>13 DEF AccountsNext, Answer

\* All of them hold at the start, and give the two properties.
LEMMA AccountsStart == AccountsInit => SlotInv /\ GuessInv /\ CodeInv /\ UsersKept /\ SessionInv
<1> SUFFICES ASSUME AccountsInit PROVE SlotInv /\ GuessInv /\ CodeInv /\ UsersKept /\ SessionInv
  OBVIOUS
<1>1. AccountTypes
  <2>1. NoLogin \in [at : LoginSteps, user : Names, code : Int, now : Nat]
    BY AccountsAssumption DEF NoLogin, LoginSteps
  <2> QED
    BY <2>1 DEF AccountsInit, AccountTypes, Cards
<1>2. SlotInv
  BY <1>1, AccountsAssumption, FS_EmptySet DEF AccountsInit, SlotInv
<1>3. GuessInv
  BY <1>1 DEF AccountsInit, GuessInv, Tells, Rows, NoRow, Tracks, Spaced
<1>4. CodeInv /\ UsersKept
  BY <1>1 DEF AccountsInit, CodeInv, UsersKept, CodeGoodOnce
<1>5. SessionInv
  BY <1>1 DEF AccountsInit, SessionInv, NobodyKeepsASession, Processes
<1> QED
  BY <1>2, <1>3, <1>4, <1>5

\* The attempts are a whole lock apart, a code is good once, and no slot is lost.
LEMMA AccountsSuffice == SlotInv /\ GuessInv /\ CodeInv => LoginsAreBounded
<1> SUFFICES ASSUME SlotInv, GuessInv, CodeInv PROVE LoginsAreBounded
  OBVIOUS
<1>1. GuessesSpaced
  <2> SUFFICES ASSUME NEW k \in Keys, NEW i \in 1 .. Len(allowed[k]) - 1
               PROVE  allowed[k][i + 1] >= allowed[k][i] + LockSeconds(i) \/ i < LOCK_THRESHOLD
    BY DEF GuessesSpaced
  <2> QED
    BY DEF GuessInv, Tells, Spaced
<1>2. NoSlotLost
  BY DEF SlotInv, NoSlotLost, Queued
<1> QED
  BY <1>1, <1>2 DEF LoginsAreBounded, CodeInv

-----------------------------------------------------------------------------
(* Registry: whose a Feed is, and what of another User a request may meet.   *)

Ids == MirrorIds \cup BucketIds
FeedRows == [owner : Owners, key : Sources \cup {"none"}, jar : Owners, default : BOOLEAN]
Asked == [at : {"resolving"}, by : Owners, target : MirrorIds \cup {NewId}, source : Sources, owner : Owners]
Listing == [at : {"resolved", "inserting"}, by : Owners, target : MirrorIds \cup {NewId}, source : Sources,
            owner : Owners, jar : Owners]
Moving == [at : {"copy"}, old : Owners, new : Owners, left : SUBSET Kept]
          \cup [at : {"delete"}, key : Kept, old : Owners, new : Owners, left : SUBSET Kept]

RegistryTypes ==
    /\ registry \in [Ids -> FeedRows \cup {NoFeed}] /\ had \in [Ids -> SUBSET Owners]
    /\ probed \subseteq [for : Owners, source : Sources, jar : Owners]
    /\ ask = [a \in Asks |-> ask[a]]
    /\ \A a \in Asks : ask[a].at \in {"resolving", "resolved", "inserting"} => ask[a] \in Asked \cup Listing
    /\ settings \in [Owners -> [Kept -> Owners \cup {"none"}]]
    /\ move \in Moving \cup {NoMove}

\* An id has had the Owner of its Feed, and the one whose Cookie files listed it; a Mirror
\* is no default Bucket.
RowKept(i) == Exists(i) => /\ registry[i].owner \in had[i] /\ registry[i].jar \in had[i]
                           /\ i \in MirrorIds => ~registry[i].default

\* A request is for who asks, or for an Owner its Feed has had; what it has listed was
\* listed with the Cookie files of that Owner.
AskKept(a) ==
    ask[a].at \in {"resolving", "resolved", "inserting"} =>
        /\ ask[a].target = NewId => ask[a].owner = ask[a].by
        /\ ask[a].target # NewId => ask[a].owner \in had[ask[a].target]
        /\ ask[a].at # "resolving" => ask[a].jar = ask[a].owner

\* What a move is about to delete is where it goes.
MoveKept == /\ move # NoMove => move.old # move.new
            /\ move.at = "delete" => settings[move.new][move.key] # "none"

RegistryInv ==
    /\ RegistryTypes /\ MoveKept
    /\ \A p \in probed : p.jar = p.for
    /\ \A i \in Ids : RowKept(i)
    /\ \A a \in Asks : AskKept(a)

\* What OwnersApart says of a step.
StepApart == NamesOwnFeeds /\ SettingsStand /\ DefaultsStand

LEMMA RowShape ==
    \A o, j \in Owners, s \in Sources : /\ Mirror(o, s, j) \in FeedRows /\ Mirror(o, s, j) # NoFeed
       /\ Mirror(o, s, j).owner = o /\ Mirror(o, s, j).jar = j /\ Mirror(o, s, j).default = FALSE
       /\ Bucket(o) \in FeedRows /\ Bucket(o) # NoFeed
       /\ Bucket(o).owner = o /\ Bucket(o).jar = o /\ Bucket(o).default = TRUE
BY RegistryAssumption DEF FeedRows, Mirror, Bucket, NoFeed

LEMMA RowsAreFeeds == \A r \in FeedRows : r # NoFeed
<1> SUFFICES ASSUME NEW r \in FeedRows, r = NoFeed PROVE FALSE
  OBVIOUS
<1>1. r.owner \in Owners /\ NoFeed.owner = "none"
  BY DEF FeedRows, NoFeed
<1> QED
  BY <1>1, RegistryAssumption

LEMMA RegistryStarts == RegistryInit => RegistryInv
<1> SUFFICES ASSUME RegistryInit PROVE RegistryInv
  OBVIOUS
<1>1. PICK old \in {{}} \cup {{<<o, CHOOSE s \in Sources : TRUE>>} : o \in Owners \cup {"anyone"}}, by \in Owners :
         /\ registry = [i \in MirrorIds \cup BucketIds |->
                       IF i[2] = "bucket 1" THEN Bucket(i[1]) ELSE IF i \in old THEN Mirror(by, i[2], by) ELSE NoFeed]
         /\ had = [i \in DOMAIN registry |-> IF Exists(i) THEN {registry[i].owner} \cup ({i[1]} \cap Owners) ELSE {}]
  BY DEF RegistryInit
<1>a. DOMAIN registry = Ids
  BY <1>1 DEF Ids
<1>b. \A i \in Ids : had[i] = IF Exists(i) THEN {registry[i].owner} \cup ({i[1]} \cap Owners) ELSE {}
  BY <1>1, <1>a
<1>c. \A i \in old : i[2] \in Sources
  <2>1. (CHOOSE s \in Sources : TRUE) \in Sources
    BY RegistryAssumption
  <2>2. CASE old = {}
    BY <2>2
  <2>3. CASE \E o \in Owners \cup {"anyone"} : old = {<<o, CHOOSE s \in Sources : TRUE>>}
    BY <2>1, <2>3
  <2> QED
    BY <1>1, <2>2, <2>3
<1>2. ASSUME NEW i \in Ids
      PROVE registry[i] \in FeedRows \cup {NoFeed} /\ had[i] \subseteq Owners /\ RowKept(i)
  <2>1. CASE i[2] = "bucket 1"
    <3>1. i \in BucketIds /\ i \notin MirrorIds /\ i[1] \in Owners
      BY <2>1, RegistryAssumption DEF Ids, MirrorIds, BucketIds
    <3>2. registry[i] = Bucket(i[1])
      BY <1>1, <2>1 DEF Ids
    <3>3. Bucket(i[1]) \in FeedRows /\ Bucket(i[1]) # NoFeed /\ Bucket(i[1]).owner = i[1] /\ Bucket(i[1]).jar = i[1]
      BY <3>1, RegistryAssumption DEF Bucket, FeedRows, NoFeed
    <3>4. had[i] = {registry[i].owner} \cup ({i[1]} \cap Owners)
      BY <1>b, <3>2, <3>3 DEF Exists
    <3> QED
      BY <3>1, <3>2, <3>3, <3>4 DEF RowKept
  <2>2. CASE i[2] # "bucket 1" /\ i \in old
    <3>1. registry[i] = Mirror(by, i[2], by)
      BY <1>1, <2>2 DEF Ids
    <3>2. i[2] \in Sources
      BY <1>c, <2>2
    <3>3. had[i] = {registry[i].owner} \cup ({i[1]} \cap Owners)
      <4>1. Exists(i)
        BY <3>1, <3>2, RowShape DEF Exists
      <4> QED
        BY <1>b, <4>1
    <3> QED
      BY <3>1, <3>2, <3>3, RowShape DEF RowKept
  <2>3. CASE i[2] # "bucket 1" /\ i \notin old
    <3>1. registry[i] = NoFeed
      BY <1>1, <2>3 DEF Ids
    <3>2. had[i] = {}
      BY <1>b, <3>1 DEF Exists
    <3> QED
      BY <3>1, <3>2 DEF RowKept, Exists
  <2> QED
    BY <2>1, <2>2, <2>3
<1>3. registry \in [Ids -> FeedRows \cup {NoFeed}] /\ had \in [Ids -> SUBSET Owners]
  BY <1>1, <1>2 DEF Ids
<1>4. RegistryTypes /\ MoveKept /\ (\A p \in probed : p.jar = p.for) /\ \A a \in Asks : AskKept(a)
  BY <1>3 DEF RegistryInit, RegistryTypes, MoveKept, AskKept, NoAsk, NoMove
<1> QED
  BY <1>2, <1>4 DEF RegistryInv


\* The requests: what they do to the rows and to their own place.
LEMMA AskingApart ==
    ASSUME Salted, RegistryInv, NEW a \in Asks,
           \/ \E by \in Owners, target \in MirrorIds \cup {NewId}, s \in Sources : Begin(a, by, target, s)
           \/ ResolveSnapshot(a) \/ Look(a) \/ Insert(a) \/ Retarget(a) \/ Delivered(a)
    PROVE  RegistryInv' /\ StepApart
<1> USE DEF RegistryInv, RegistryTypes
<1>s. Salted
  OBVIOUS
<1>k. ASSUME UNCHANGED <<settings, move>> PROVE MoveKept' /\ SettingsStand
  BY <1>k DEF MoveKept, SettingsStand
<1>r. ASSUME UNCHANGED <<registry, had>> PROVE (\A i \in Ids : RowKept(i)') /\ DefaultsStand
  BY <1>r DEF RowKept, DefaultsStand, Exists
<1>n. ASSUME ask' = [ask EXCEPT ![a] = ask'[a]], ask'[a].at # "answered" PROVE NamesOwnFeeds
  BY <1>n DEF NamesOwnFeeds
<1>o. ASSUME ask' = [ask EXCEPT ![a] = ask'[a]], \A i \in Ids : had[i] \subseteq had'[i],
             ask'[a].at \in {"resolving", "resolved", "inserting"} => ask'[a] \in Asked \cup Listing,
             AskKept(a)'
      PROVE  /\ ask' = [b \in Asks |-> ask'[b]]
             /\ \A b \in Asks : ask'[b].at \in {"resolving", "resolved", "inserting"} => ask'[b] \in Asked \cup Listing
             /\ \A b \in Asks : AskKept(b)'
  <2>1. ASSUME NEW b \in Asks, b # a PROVE ask'[b] = ask[b]
    BY <1>o, <2>1
  <2>2. ASSUME NEW b \in Asks, b # a PROVE AskKept(b)'
    <3>1. ask[b].at \in {"resolving", "resolved", "inserting"} => ask[b].target \in MirrorIds \cup {NewId}
      BY DEF Asked, Listing
    <3> QED
      BY <1>o, <2>1, <2>2, <3>1 DEF AskKept, Ids
  <2> QED
    BY <1>o, <2>1, <2>2
<1>1. ASSUME NEW by \in Owners, NEW target \in MirrorIds \cup {NewId}, NEW s \in Sources, Begin(a, by, target, s)
      PROVE RegistryInv' /\ StepApart
  <2>1. ask' = [ask EXCEPT ![a] = ask'[a]] /\ ask'[a] = [at |-> "resolving", by |-> by, target |-> target, source |-> s,
                                  owner |-> IF target = NewId THEN by ELSE registry[target].owner]
    BY <1>1 DEF Begin
  <2>2. target # NewId => registry[target].owner \in had[target] /\ registry[target].owner \in Owners
    BY <1>1 DEF Begin, Sees, Ids, RowKept
  <2>3. ask'[a] \in Asked /\ AskKept(a)'
    BY <2>1, <2>2, <1>1 DEF Asked, AskKept, Begin
  <2> QED
    BY <1>1, <1>k, <1>r, <1>n, <1>o, <2>1, <2>3 DEF Begin, StepApart
<1>2. ASSUME ResolveSnapshot(a) PROVE RegistryInv' /\ StepApart
  <2>1. ask[a] \in Asked
    BY <1>2 DEF ResolveSnapshot, Asked, Listing
  <2>2. PICK jar \in Owners :
          /\ jar = ask[a].owner /\ ask' = [ask EXCEPT ![a] = ask'[a]]
          /\ ask'[a] = [by |-> ask[a].by, target |-> ask[a].target, source |-> ask[a].source,
                        owner |-> ask[a].owner, at |-> "resolved", jar |-> jar]
    BY <1>2, <2>1 DEF ResolveSnapshot, Asked, Cached
  <2>3. ask'[a] \in Listing /\ AskKept(a)'
    BY <2>1, <2>2, <1>2 DEF Asked, Listing, AskKept, ResolveSnapshot
  <2>4. probed' \subseteq [for : Owners, source : Sources, jar : Owners] /\ \A p \in probed' : p.jar = p.for
    BY <1>2, <2>1 DEF ResolveSnapshot, Asked
  <2> QED
    BY <1>2, <1>k, <1>r, <1>n, <1>o, <2>2, <2>3, <2>4 DEF ResolveSnapshot, StepApart
<1>3. ASSUME Look(a) PROVE RegistryInv' /\ StepApart
  <2>1. ask[a] \in Listing /\ ask[a].owner = ask[a].by
    BY <1>3 DEF Look, Asked, Listing, AskKept
  <2>2. ask' = [ask EXCEPT ![a] = ask'[a]]
    BY <1>3 DEF Look, Reply
  <2>3. \/ ask'[a].at = "inserting" /\ ask'[a] = [ask[a] EXCEPT !.at = "inserting"]
        \/ /\ ask'[a].at = "answered"
           /\ ask'[a].kind = "feed-exists" => registry[ask'[a].id].owner = ask[a].owner
    <3>1. ASSUME NEW kind, NEW i, Reply(a, kind, i), kind = "feed-exists" => registry[i].owner = ask[a].owner
          PROVE  ask'[a].at = "answered" /\ (ask'[a].kind = "feed-exists" => registry[ask'[a].id].owner = ask[a].owner)
      BY <3>1 DEF Reply
    <3>2. CASE \E i \in ByDedupKey(ask[a].owner, ask[a].source) : Reply(a, "feed-exists", i)
      BY <3>1, <3>2 DEF ByDedupKey, OwnedBy
    <3>3. CASE Exists(NewMirrorId(ask[a].owner, ask[a].source))
               /\ IF registry[NewMirrorId(ask[a].owner, ask[a].source)].owner = ask[a].owner \/ ~Salted
                  THEN Reply(a, "feed-exists", NewMirrorId(ask[a].owner, ask[a].source)) ELSE Reply(a, "conflict", NoId)
      <4> DEFINE id == NewMirrorId(ask[a].owner, ask[a].source)
      <4> HIDE DEF id
      <4>1. CASE registry[id].owner = ask[a].owner
        BY <3>1, <3>3, <4>1 DEF id
      <4>2. CASE registry[id].owner # ask[a].owner
        BY <3>1, <3>3, <4>2, <1>s DEF id
      <4> QED
        BY <4>1, <4>2
    <3>4. CASE ask' = [ask EXCEPT ![a].at = "inserting"]
      BY <3>4, <2>1 DEF Listing
    <3> QED
      BY <1>3, <3>2, <3>3, <3>4 DEF Look
  <2>4. ask'[a].at \in {"resolving", "resolved", "inserting"} => ask'[a] \in Listing
    BY <2>1, <2>3 DEF Listing
  <2>5. AskKept(a)'
    BY <2>1, <2>3, <1>3 DEF AskKept, Look, Listing
  <2>6. ask[a].target = NewId
    BY <1>3 DEF Look
  <2>7. NamesOwnFeeds
    BY <2>1, <2>2, <2>3, <2>6 DEF NamesOwnFeeds
  <2> QED
    BY <1>3, <1>k, <1>r, <1>o, <2>2, <2>4, <2>5, <2>7 DEF Look, StepApart
<1>4. ASSUME Insert(a) PROVE RegistryInv' /\ StepApart
  <2> DEFINE q == ask[a]
             id == NewMirrorId(q.owner, q.source)
  <2>1. q \in Listing /\ q.jar = q.owner /\ q.target \in MirrorIds \cup {NewId}
    BY <1>4 DEF Insert, Asked, Listing, AskKept
  <2>2. id \in MirrorIds
    BY <2>1 DEF NewMirrorId, MirrorIds, Listing
  <2>3. ask' = [ask EXCEPT ![a] = ask'[a]] /\ ask'[a].at = "answered" /\ ask'[a].kind # "feed-exists"
    BY <1>4 DEF Insert, Reply
  <2>4. NamesOwnFeeds
    BY <2>3 DEF NamesOwnFeeds
  <2>5. CASE UNCHANGED <<registry, had>>
    BY <2>5, <1>4, <1>k, <1>r, <1>o, <2>3, <2>4 DEF Insert, StepApart, AskKept
  <2>6. CASE ~Exists(id) /\ registry' = [registry EXCEPT ![id] = Mirror(q.owner, q.source, q.jar)]
             /\ had' = [had EXCEPT ![id] = @ \cup {q.owner}]
    <3>1. q.owner \in Owners /\ q.source \in Sources /\ id \in Ids
      BY <2>1, <2>2 DEF Listing, Ids
    <3> HIDE DEF q, id
    <3>2. \A i \in Ids : had[i] \subseteq had'[i]
      BY <2>6, <3>1
    <3>3. \A i \in Ids : i # id => registry'[i] = registry[i] /\ had'[i] = had[i]
      BY <2>6, <3>1
    <3>4. registry'[id] = Mirror(q.owner, q.source, q.owner) /\ had'[id] = had[id] \cup {q.owner}
      BY <2>6, <3>1, <2>1
    <3>5. \A i \in Ids : RowKept(i)'
      BY <3>1, <3>3, <3>4, RowShape DEF RowKept, Exists
    <3>6. registry' \in [Ids -> FeedRows \cup {NoFeed}] /\ had' \in [Ids -> SUBSET Owners]
      BY <2>6, <3>1, <2>1, RowShape
    <3>7. DefaultsStand
      BY <2>6, <3>3 DEF DefaultsStand, Exists
    <3> QED
      BY <1>4, <1>k, <1>o, <2>3, <2>4, <3>2, <3>5, <3>6, <3>7 DEF Insert, StepApart, AskKept
  <2> QED
    BY <1>4, <2>5, <2>6 DEF Insert
<1>5. ASSUME Retarget(a) PROVE RegistryInv' /\ StepApart
  <2> DEFINE q == ask[a]
  <2>1. q \in Listing /\ q.jar = q.owner /\ q.target \in MirrorIds /\ q.owner \in had[q.target]
    BY <1>5 DEF Retarget, Asked, Listing, AskKept
  <2>2. ask' = [ask EXCEPT ![a] = ask'[a]] /\ ask'[a].at = "answered"
        /\ (ask'[a].kind = "feed-exists" => registry[ask'[a].id].owner = registry[q.target].owner)
    BY <1>5 DEF Retarget, Reply, ByDedupKey, OwnedBy
  <2>3. NamesOwnFeeds
    BY <2>2, <1>5 DEF NamesOwnFeeds, Retarget
  <2>4. CASE UNCHANGED registry
    BY <2>4, <1>5, <1>k, <1>r, <1>o, <2>2, <2>3 DEF Retarget, StepApart, AskKept
  <2>5. CASE Exists(q.target) /\ registry' = [registry EXCEPT ![q.target] = Mirror(@.owner, q.source, q.jar)]
    <3>1. q.owner \in Owners /\ q.source \in Sources /\ q.target \in Ids
      BY <2>1 DEF Listing, Ids
    <3>2. RowKept(q.target) /\ registry[q.target] \in FeedRows
      BY <2>5, <3>1 DEF Exists
    <3>3. registry[q.target].owner \in Owners /\ ~registry[q.target].default
      BY <3>2, <2>1, <2>5 DEF RowKept, FeedRows
    <3> HIDE DEF q
    <3>4. \A i \in Ids : i # q.target => registry'[i] = registry[i]
      BY <2>5, <3>1
    <3>5. registry'[q.target] = Mirror(registry[q.target].owner, q.source, q.owner)
      BY <2>5, <3>1, <2>1
    <3>6. UNCHANGED had
      BY <1>5 DEF Retarget
    <3>7. \A i \in Ids : RowKept(i)'
      <4>1. ASSUME NEW i \in Ids, i = q.target PROVE RowKept(i)'
        <5>1. /\ registry'[i].owner = registry[i].owner /\ registry'[i].jar = q.owner
              /\ ~registry'[i].default
          BY <4>1, <3>1, <3>3, <3>5, RowShape
        <5> QED
          BY <4>1, <5>1, <3>2, <3>6, <2>1, <2>5 DEF RowKept
      <4> QED
        BY <3>4, <3>6, <4>1 DEF RowKept, Exists
    <3>8. registry' \in [Ids -> FeedRows \cup {NoFeed}]
      BY <2>5, <3>1, <3>3, <2>1, RowShape
    <3>9. DefaultsStand
      BY <2>5, <3>3, <3>4 DEF DefaultsStand, Exists
    <3> QED
      BY <1>5, <1>k, <1>o, <2>2, <2>3, <3>6, <3>7, <3>8, <3>9 DEF Retarget, StepApart, AskKept
  <2> QED
    BY <1>5, <2>4, <2>5 DEF Retarget, Sees
<1>6. ASSUME Delivered(a) PROVE RegistryInv' /\ StepApart
  <2>1. ask' = [ask EXCEPT ![a] = ask'[a]] /\ ask'[a] = NoAsk
    BY <1>6 DEF Delivered
  <2> QED
    BY <1>6, <1>k, <1>r, <1>n, <1>o, <2>1 DEF Delivered, StepApart, AskKept, NoAsk
<1> QED
  BY <1>1, <1>2, <1>3, <1>4, <1>5, <1>6

LEMMA RegistryHolds == Salted /\ RegistryInv /\ [RegistryNext]_registryVars => RegistryInv' /\ [StepApart]_registryVars
<1> SUFFICES ASSUME Salted, RegistryInv, [RegistryNext]_registryVars
             PROVE  RegistryInv' /\ [StepApart]_registryVars
  OBVIOUS
<1> USE DEF RegistryInv, RegistryTypes
<1>1. CASE UNCHANGED registryVars
  BY <1>1 DEF registryVars, MoveKept, RowKept, AskKept, Exists
<1>n. UNCHANGED ask => NamesOwnFeeds
  BY DEF NamesOwnFeeds
<1>k. UNCHANGED <<settings, move>> => MoveKept' /\ SettingsStand
  BY DEF MoveKept, SettingsStand
<1>o. ASSUME UNCHANGED ask, \A i \in Ids : had[i] \subseteq had'[i] PROVE \A a \in Asks : AskKept(a)'
  <2>1. ASSUME NEW a \in Asks PROVE AskKept(a)'
    <3>1. ask[a].at \in {"resolving", "resolved", "inserting"} => ask[a].target \in MirrorIds \cup {NewId}
      BY DEF Asked, Listing
    <3> QED
      BY <1>o, <3>1 DEF AskKept, Ids
  <2> QED
    BY <2>1
<1>r. ASSUME UNCHANGED <<registry, had>> PROVE (\A i \in Ids : RowKept(i)') /\ DefaultsStand
  BY <1>r DEF RowKept, DefaultsStand, Exists
<1>2. ASSUME NEW a \in Asks,
           \/ \E by \in Owners, target \in MirrorIds \cup {NewId}, s \in Sources : Begin(a, by, target, s)
           \/ ResolveSnapshot(a) \/ Look(a) \/ Insert(a) \/ Retarget(a) \/ Delivered(a)
      PROVE RegistryInv' /\ StepApart
  BY <1>2, AskingApart
<1>3. ASSUME NEW i \in DOMAIN registry, Refresh(i) PROVE RegistryInv' /\ StepApart
  <2>1. i \in Ids /\ registry[i] \in FeedRows /\ RowKept(i)
    BY <1>3 DEF Refresh, Exists
  <2>2. registry'[i] = [registry[i] EXCEPT !.jar = registry[i].owner] /\ UNCHANGED had
        /\ \A k \in Ids : k # i => registry'[k] = registry[k]
    BY <1>3, <2>1 DEF Refresh
  <2>3. /\ registry'[i] \in FeedRows /\ registry'[i].owner = registry[i].owner
        /\ registry'[i].jar = registry[i].owner /\ registry'[i].default = registry[i].default
    BY <2>1, <2>2 DEF FeedRows
  <2>4. registry' \in [Ids -> FeedRows \cup {NoFeed}]
    BY <1>3, <2>1, <2>2, <2>3 DEF Refresh
  <2>5. \A k \in Ids : RowKept(k)'
    BY <1>3, <2>1, <2>2, <2>3 DEF RowKept, Exists, Refresh
  <2>6. DefaultsStand
    <3>1. registry'[i] # NoFeed
      BY <2>3, RowsAreFeeds
    <3> QED
      BY <2>1, <2>2, <2>3, <3>1 DEF DefaultsStand, Exists
  <2> QED
    BY <1>3, <1>n, <1>k, <1>o, <2>4, <2>5, <2>6 DEF Refresh, StepApart
<1>4. ASSUME NEW i \in DOMAIN registry, delete_feed(i) PROVE RegistryInv' /\ StepApart
  <2>1. registry' \in [Ids -> FeedRows \cup {NoFeed}] /\ registry'[i] = NoFeed /\ UNCHANGED had
        /\ \A k \in Ids : k # i => registry'[k] = registry[k]
    BY <1>4 DEF delete_feed
  <2>2. \A k \in Ids : RowKept(k)'
    BY <2>1 DEF RowKept, Exists
  <2>3. DefaultsStand
    BY <1>4, <2>1 DEF DefaultsStand, Exists, delete_feed
  <2> QED
    BY <1>4, <1>n, <1>k, <1>o, <2>1, <2>2, <2>3 DEF delete_feed, StepApart
<1>5. ASSUME NEW o \in Owners, ensure_default_bucket(o) PROVE RegistryInv' /\ StepApart
  <2>1. PICK i \in BucketIds : /\ i[1] = o /\ ~Exists(i)
                              /\ registry' = [registry EXCEPT ![i] = Bucket(o)]
                              /\ had' = [had EXCEPT ![i] = @ \cup {o}]
    BY <1>5 DEF ensure_default_bucket
  <2>2. i \in Ids /\ i \notin MirrorIds
    BY RegistryAssumption DEF Ids, MirrorIds, BucketIds
  <2>3. registry'[i] = Bucket(o) /\ had'[i] = had[i] \cup {o}
        /\ \A k \in Ids : k # i => registry'[k] = registry[k] /\ had'[k] = had[k]
    BY <2>1, <2>2
  <2>4. /\ Bucket(o) \in FeedRows /\ Bucket(o).owner = o /\ Bucket(o).jar = o
    BY RegistryAssumption DEF Bucket, FeedRows
  <2>5. registry' \in [Ids -> FeedRows \cup {NoFeed}] /\ had' \in [Ids -> SUBSET Owners]
    BY <2>1, <2>2, <2>4
  <2>6. \A k \in Ids : RowKept(k)'
    BY <2>2, <2>3, <2>4 DEF RowKept, Exists
  <2>7. DefaultsStand
    BY <2>1, <2>3 DEF DefaultsStand, Exists
  <2>8. \A k \in Ids : had[k] \subseteq had'[k]
    BY <2>3
  <2> QED
    BY <1>5, <1>n, <1>k, <1>o, <2>5, <2>6, <2>7, <2>8 DEF ensure_default_bucket, StepApart
<1>6. ASSUME NEW o \in Owners, NEW k \in Kept, Save(o, k) PROVE RegistryInv' /\ StepApart
  <2>1. settings' \in [Owners -> [Kept -> Owners \cup {"none"}]]
        /\ \A p \in Owners, x \in Kept : settings'[p][x] = IF p = o /\ x = k THEN o ELSE settings[p][x]
    BY <1>6 DEF Save
  <2>2. SettingsStand
    BY <2>1 DEF SettingsStand
  <2>3. MoveKept'
    <3>1. move.at = "delete" => move.new \in Owners /\ move.key \in Kept
      BY DEF Moving, NoMove
    <3>2. o # "none" /\ UNCHANGED move
      BY <1>6, RegistryAssumption DEF Save
    <3> QED
      BY <2>1, <3>1, <3>2 DEF MoveKept
  <2> QED
    BY <1>6, <1>n, <1>r, <1>o, <2>1, <2>2, <2>3 DEF Save, StepApart
<1>7. ASSUME NEW old \in Owners, NEW new \in Owners, reassign_rows(old, new) PROVE RegistryInv' /\ StepApart
  <2>1. \A i \in Ids : /\ had'[i] = IF i \in OwnedBy(old) THEN had[i] \cup {new} ELSE had[i]
                       /\ registry'[i] = IF i \in OwnedBy(old)
                                         THEN [registry[i] EXCEPT !.owner = new, !.default = FALSE] ELSE registry[i]
    BY <1>7 DEF reassign_rows
  <2>2. \A i \in OwnedBy(old) : /\ i \in Ids /\ registry[i] \in FeedRows /\ registry[i].owner = old /\ registry'[i] \in FeedRows
            /\ registry'[i].owner = new /\ registry'[i].jar = registry[i].jar /\ registry'[i].default = FALSE
    <3>1. ASSUME NEW i \in OwnedBy(old) PROVE i \in Ids /\ registry[i] \in FeedRows /\ registry[i].owner = old
      BY DEF OwnedBy, Exists
    <3>2. ASSUME NEW r \in FeedRows, NEW t, t = [r EXCEPT !.owner = new, !.default = FALSE]
          PROVE  t \in FeedRows /\ t.owner = new /\ t.jar = r.jar /\ t.default = FALSE
      BY <3>2 DEF FeedRows
    <3> QED
      BY ZenonT(40), <2>1, <3>1, <3>2
  <2>3. registry' \in [Ids -> FeedRows \cup {NoFeed}] /\ had' \in [Ids -> SUBSET Owners]
    BY <1>7, <2>1, <2>2 DEF reassign_rows
  <2>4. \A i \in Ids : RowKept(i)'
    BY <2>1, <2>2 DEF RowKept, Exists, OwnedBy
  <2>5. DefaultsStand
    <3>1. \A i \in OwnedBy(old) : registry'[i] # NoFeed /\ old # new
      BY <1>7, <2>2, RowsAreFeeds DEF reassign_rows
    <3> QED
      BY ZenonT(40), <2>1, <2>2, <3>1 DEF DefaultsStand, Exists, OwnedBy
  <2>6. move' \in Moving /\ MoveKept' /\ SettingsStand
    BY <1>7 DEF reassign_rows, Moving, MoveKept, SettingsStand, NoMove
  <2>7. \A k \in Ids : had[k] \subseteq had'[k]
    BY <2>1
  <2> QED
    BY <1>7, <1>n, <1>o, <2>3, <2>4, <2>5, <2>6, <2>7 DEF reassign_rows, StepApart
<1>8. ASSUME Expire PROVE RegistryInv' /\ StepApart
  BY <1>8, <1>n, <1>k, <1>r, <1>o DEF Expire, StepApart
<1>9. ASSUME MoveDelete PROVE RegistryInv' /\ StepApart
  <2>1. move.old \in Owners /\ move.new \in Owners /\ move.key \in Kept /\ move.left \subseteq Kept
        /\ move.old # move.new /\ settings[move.new][move.key] # "none"
    BY <1>9 DEF MoveDelete, Moving, NoMove, MoveKept
  <2>2. settings' \in [Owners -> [Kept -> Owners \cup {"none"}]]
        /\ \A p \in Owners, x \in Kept : settings'[p][x] = IF p = move.old /\ x = move.key THEN "none" ELSE settings[p][x]
    BY <1>9, <2>1 DEF MoveDelete
  <2>3. SettingsStand
    BY <2>1, <2>2 DEF SettingsStand
  <2>4. move' \in Moving /\ MoveKept'
    BY <1>9, <2>1 DEF MoveDelete, Moving, MoveKept, NoMove
  <2> QED
    BY <1>9, <1>n, <1>r, <1>o, <2>2, <2>3, <2>4 DEF MoveDelete, StepApart
<1>10. ASSUME NEW k \in Kept, MoveCopy(k) PROVE RegistryInv' /\ StepApart
  <2>1. move.old \in Owners /\ move.new \in Owners /\ move.left \subseteq Kept /\ move.old # move.new
    BY <1>10 DEF MoveCopy, Moving, NoMove, MoveKept
  <2>2. CASE ~Moves(k)
    <3>1. move' \in Moving /\ move'.at = "copy" /\ move'.old = move.old /\ move'.new = move.new
      BY <1>10, <2>1, <2>2 DEF MoveCopy, Moving, NoMove
    <3>2. MoveKept' /\ SettingsStand
      BY <1>10, <2>1, <2>2, <3>1 DEF MoveCopy, MoveKept, SettingsStand
    <3> QED
      BY <1>10, <1>n, <1>r, <1>o, <2>2, <3>1, <3>2 DEF MoveCopy, StepApart
  <2>3. CASE Moves(k)
    <3>1. settings' = [settings EXCEPT ![move.new][k] = settings[move.old][k]]
          /\ move' = [at |-> "delete", key |-> k, old |-> move.old, new |-> move.new, left |-> move.left \ {k}]
      BY <1>10, <2>3 DEF MoveCopy
    <3>2. settings' \in [Owners -> [Kept -> Owners \cup {"none"}]]
          /\ \A p \in Owners, x \in Kept : settings'[p][x] = IF p = move.new /\ x = k THEN settings[move.old][k] ELSE settings[p][x]
      BY <2>1, <3>1
    <3>3. SettingsStand
      BY <2>3, <3>2 DEF SettingsStand, Moves
    <3>4. move' \in Moving /\ MoveKept'
      <4>1. settings'[move.new][k] # "none"
        BY <2>1, <2>3, <3>2 DEF Moves
      <4> QED
        BY <2>1, <3>1, <4>1 DEF Moving, MoveKept, NoMove
    <3> QED
      BY <1>10, <1>n, <1>r, <1>o, <3>2, <3>3, <3>4 DEF MoveCopy, StepApart
  <2> QED
    BY <2>2, <2>3
<1>11. ASSUME MoveEnds \/ MoveDies PROVE RegistryInv' /\ StepApart
  <2>1. move' = NoMove /\ UNCHANGED <<registry, had, probed, ask, settings>>
    BY <1>11 DEF MoveEnds, MoveDies
  <2>2. MoveKept' /\ SettingsStand
    BY <2>1 DEF MoveKept, SettingsStand, NoMove
  <2> QED
    BY <1>n, <1>r, <1>o, <2>1, <2>2 DEF StepApart
<1> QED
  BY <1>1, <1>2, <1>3, <1>4, <1>5, <1>6, <1>7, <1>8, <1>9, <1>10, <1>11 DEF RegistryNext

LEMMA RegistrySuffices == RegistryInv => ListedForItsOwners
BY DEF RegistryInv, RegistryTypes, RowKept, ListedForItsOwners

-----------------------------------------------------------------------------
(* Probe: the walk over the pages of an RSS Source.                          *)

\* The smallest of some numbers.
LEMMA MinIsLeast ==
    ASSUME NEW I \in SUBSET Nat, I # {}
    PROVE  Min(I) \in I /\ \A n \in I : Min(I) <= n
<1>0. \A x, y \in Nat : <<x, y>> \in OpToRel(<, Nat) <=> x < y
  BY DEF OpToRel
<1>1. PICK m \in I : \A y \in I : ~ (<<y, m>> \in OpToRel(<, Nat))
  BY NatLessThanWellFounded, WFMin
<1>2. m \in Nat /\ \A n \in I : n \in Nat /\ ~ (n < m)
  BY <1>0, <1>1
<1>3. \A n \in I : m <= n
  BY <1>2
<1> QED
  BY <1>3 DEF Min

\* What holds at the start of a loop and goes on from one round to the next holds of every round.
LEMMA EveryRound ==
    ASSUME NEW N \in Nat, NEW G, 0 \in G, \A n \in 1..N : n - 1 \in G => n \in G
    PROVE  \A n \in 0..N : n \in G
<1> DEFINE Lacking == {n \in 0..N : n \notin G}
<1>1. SUFFICES ASSUME Lacking # {} PROVE FALSE
  OBVIOUS
<1> DEFINE m == Min(Lacking)
<1>2. Lacking \in SUBSET Nat
  OBVIOUS
<1>3. m \in Lacking /\ \A n \in Lacking : m <= n
  <2> HIDE DEF Lacking
  <2> QED
    BY <1>1, <1>2, MinIsLeast
<1> HIDE DEF m
<1>4. m \in 1..N /\ m - 1 \in 0..N
  BY <1>3
<1>5. m - 1 \in G
  BY <1>3, <1>4
<1> QED
  BY <1>3, <1>4, <1>5

\* The rounds of the loop over the items of a page.
Round(items, kept, n) ==
    IF n = 0 THEN <<>> ELSE IF Walked(items[n]) THEN kept[n - 1] ELSE Append(kept[n - 1], items[n])
Loop(items, kept, N) == kept = [n \in 0..N |-> Round(items, kept, n)]

LEMMA LoopEnds ==
    ASSUME NEW items \in Seq(SourceKeys)
    PROVE  \E kept : Loop(items, kept, Len(items)) /\ Fresh(items) = kept[Len(items)]
<1> DEFINE G == {n \in Nat : \E kept : Loop(items, kept, n)}
<1>1. 0 \in G
  <2> DEFINE kept == [n \in 0..0 |-> <<>>]
  <2>1. kept = [n \in 0..0 |-> Round(items, kept, n)]
    BY DEF Round
  <2> QED
    BY <2>1 DEF Loop
<1>2. ASSUME NEW n \in 1..Len(items), n - 1 \in G PROVE n \in G
  <2>1. PICK before : Loop(items, before, n - 1)
    BY <1>2
  <2> DEFINE kept == [k \in 0..n |-> IF k = n THEN Round(items, before, n) ELSE before[k]]
  <2>2. n \in Nat /\ n - 1 \in Nat
    OBVIOUS
  <2>3. \A k \in 0..(n - 1) : before[k] = Round(items, before, k)
    BY <2>1 DEF Loop
  <2>4. \A k \in 0..(n - 1) : kept[k] = before[k]
    OBVIOUS
  <2>5. ASSUME NEW k \in 0..n PROVE kept[k] = Round(items, kept, k)
    <3>1. k > 0 => kept[k - 1] = before[k - 1]
      BY <2>4
    <3>2. k >= 0 /\ (k = n \/ k \in 0..(n - 1))
      OBVIOUS
    <3>3. kept[k] = Round(items, before, k)
      BY <2>3, <2>4, <3>2
    <3> HIDE DEF kept
    <3> QED
      BY <3>1, <3>2, <3>3 DEF Round
  <2>6. kept = [k \in 0..n |-> kept[k]]
    OBVIOUS
  <2> HIDE DEF kept
  <2>7. Loop(items, kept, n)
    BY <2>5, <2>6 DEF Loop
  <2> QED
    BY <2>2, <2>7
<1>3. Len(items) \in Nat
  OBVIOUS
<1> HIDE DEF G
<1>4. Len(items) \in 0..Len(items) /\ \A n \in 0..Len(items) : n \in G
  <2>1. \A n \in 1..Len(items) : n - 1 \in G => n \in G
    BY <1>2
  <2> DEFINE N == Len(items)
  <2>2. N \in Nat /\ \A n \in 1..N : n - 1 \in G => n \in G
    BY <2>1, <1>3
  <2> HIDE DEF N
  <2>3. \A n \in 0..N : n \in G
    BY <1>1, <2>2, EveryRound
  <2>4. N \in 0..N
    BY <2>2
  <2> QED
    BY <2>3, <2>4 DEF N
<1> DEFINE loop == CHOOSE kept : Loop(items, kept, Len(items))
<1>5. Loop(items, loop, Len(items))
  BY <1>4 DEF G
<1>6. Fresh(items) = loop[Len(items)]
  BY DEF Fresh, Loop, Round
<1> HIDE DEF loop
<1> QED
  BY <1>5, <1>6

\* What is kept of a page: what no earlier page listed, each once.
LEMMA FreshKeeps ==
    ASSUME NEW items \in Seq(SourceKeys), IsInjective(items)
    PROVE  /\ Fresh(items) \in Seq(SourceKeys)
           /\ IsInjective(Fresh(items))
           /\ \A n \in 1..Len(Fresh(items)) : ~Walked(Fresh(items)[n]) /\ Contains(items, Fresh(items)[n])
           /\ \A i \in 1..Len(items) : Walked(items[i]) \/ Contains(Fresh(items), items[i])
<1>1. PICK kept : Loop(items, kept, Len(items)) /\ Fresh(items) = kept[Len(items)]
  BY LoopEnds
<1> DEFINE Holds(n) ==
        /\ kept[n] \in Seq(SourceKeys)
        /\ \A i, j \in 1..Len(kept[n]) : kept[n][i] = kept[n][j] => i = j
        /\ \A i \in 1..Len(kept[n]) : ~Walked(kept[n][i]) /\ \E k \in 1..n : kept[n][i] = items[k]
        /\ \A k \in 1..n : Walked(items[k]) \/ \E i \in 1..Len(kept[n]) : kept[n][i] = items[k]
       G == {n \in 0..Len(items) : Holds(n)}
<1>2. Len(items) \in Nat /\ \A n \in 0..Len(items) : kept[n] = Round(items, kept, n)
  BY <1>1 DEF Loop
<1>3. 0 \in G
  <2>1. 0 \in 0..Len(items)
    BY <1>2
  <2>2. kept[0] = <<>>
    BY <1>2, <2>1 DEF Round
  <2>3. Len(kept[0]) = 0 /\ kept[0] \in Seq(SourceKeys)
    BY <2>2
  <2> QED
    BY <2>1, <2>3
<1>4. ASSUME NEW n \in 1..Len(items), n - 1 \in G PROVE n \in G
  <2> DEFINE q == kept[n - 1]
             r == kept[n]
             x == items[n]
  <2>1. /\ n \in Nat /\ n > 0 /\ n \in 0..Len(items) /\ n - 1 \in Nat /\ x \in SourceKeys
        /\ \A k \in 1..n : k = n \/ k \in 1..(n - 1)
        /\ \A k \in 1..(n - 1) : k \in 1..n /\ k # n
    OBVIOUS
  <2>2. r = IF Walked(x) THEN q ELSE Append(q, x)
    BY <1>2, <2>1 DEF Round
  <2>3. /\ q \in Seq(SourceKeys)
        /\ \A i, j \in 1..Len(q) : q[i] = q[j] => i = j
        /\ \A i \in 1..Len(q) : ~Walked(q[i]) /\ \E k \in 1..(n - 1) : q[i] = items[k]
        /\ \A k \in 1..(n - 1) : Walked(items[k]) \/ \E i \in 1..Len(q) : q[i] = items[k]
    BY <1>4
  <2>4. \A k \in 1..(n - 1) : items[k] # x
    BY <2>1 DEF IsInjective
  <2>5. n \in G <=> Holds(n)
    BY <2>1
  <2> HIDE DEF q, r, x, G
  <2>6. CASE Walked(x)
    <3>1. r = q
      BY <2>2, <2>6
    <3> QED
      BY <2>1, <2>3, <2>5, <2>6, <3>1 DEF q, r, x
  <2>7. CASE ~Walked(x)
    <3>1. r = Append(q, x) /\ r \in Seq(SourceKeys) /\ Len(r) = Len(q) + 1 /\ Len(q) \in Nat
      BY <2>1, <2>2, <2>3, <2>7
    <3>2. r[Len(q) + 1] = x /\ \A i \in 1..Len(q) : r[i] = q[i]
      BY <2>3, <3>1
    <3>3. \A i \in 1..Len(r) : i = Len(q) + 1 \/ i \in 1..Len(q)
      BY <3>1
    <3>4. \A i \in 1..Len(q) : q[i] # x
      BY <2>3, <2>4
    <3>5. ASSUME NEW i \in 1..Len(r), NEW j \in 1..Len(r), r[i] = r[j] PROVE i = j
      <4>1. CASE i \in 1..Len(q) /\ j \in 1..Len(q)
        BY <2>3, <3>2, <3>5, <4>1
      <4>2. CASE i = Len(q) + 1 \/ j = Len(q) + 1
        BY <3>2, <3>3, <3>4, <3>5, <4>2
      <4> QED
        BY <3>3, <4>1, <4>2
    <3>6. ASSUME NEW i \in 1..Len(r) PROVE ~Walked(r[i]) /\ \E k \in 1..n : r[i] = items[k]
      <4>1. CASE i = Len(q) + 1
        BY <4>1, <3>2, <2>1, <2>7 DEF x
      <4>2. CASE i \in 1..Len(q)
        BY <4>2, <3>2, <2>1, <2>3
      <4> QED
        BY <3>3, <4>1, <4>2
    <3>7. ASSUME NEW k \in 1..n, ~Walked(items[k]) PROVE \E i \in 1..Len(r) : r[i] = items[k]
      <4>1. CASE k = n
        <5>1. Len(q) + 1 \in 1..Len(r)
          BY <3>1
        <5> QED
          BY <4>1, <5>1, <3>2 DEF x
      <4>2. CASE k \in 1..(n - 1)
        <5>1. PICK i \in 1..Len(q) : q[i] = items[k]
          BY <4>2, <3>7, <2>3
        <5>2. i \in 1..Len(r) /\ r[i] = items[k]
          BY <5>1, <3>1, <3>2
        <5> QED
          BY <5>2
      <4> QED
        BY <2>1, <4>1, <4>2
    <3> QED
      BY <2>5, <3>1, <3>5, <3>6, <3>7 DEF r
  <2> QED
    BY <2>6, <2>7
<1> HIDE DEF G
<1>5. Len(items) \in 0..Len(items) /\ \A n \in 0..Len(items) : n \in G
  <2> DEFINE N == Len(items)
  <2>1. \A n \in 1..N : n - 1 \in G => n \in G
    BY <1>4
  <2>2. N \in Nat
    OBVIOUS
  <2> HIDE DEF N
  <2>3. \A n \in 0..N : n \in G
    BY <1>3, <2>1, <2>2, EveryRound
  <2>4. N \in 0..N
    BY <2>2
  <2> QED
    BY <2>3, <2>4 DEF N
<1>6. Holds(Len(items))
  BY <1>5 DEF G
<1>7. DOMAIN Fresh(items) = 1..Len(Fresh(items))
  BY <1>1, <1>6
<1> QED
  BY <1>1, <1>6, <1>7 DEF IsInjective, Contains

\* What a page lists is a sequence of keys, each once.
LEMMA ListedKeys == \A items \in Listed : items \in Seq(SourceKeys) /\ IsInjective(items)
<1> SUFFICES ASSUME NEW items \in Listed PROVE items \in Seq(SourceKeys) /\ IsInjective(items)
  OBVIOUS
<1>1. PICK n \in 0..PageItems : items \in [1..n -> SourceKeys]
  BY DEF Listed
<1>2. n \in Nat
  OBVIOUS
<1> QED
  BY <1>1, <1>2 DEF Listed

WalkedItems == [key : SourceKeys, position : Nat]

\* The items are what the pages list, each once, at its place and in the order of the
\* pages.
InPlace(items) == \A i \in 1..Len(items) : items[i].position = i - 1
EachOnce(items) == \A i, j \in 1..Len(items) : items[i].key = items[j].key => i = j
OfPages(items, pages) ==
    /\ \A i \in 1..Len(items) : \E n \in 1..Len(pages) : Contains(pages[n], items[i].key)
    /\ \A n \in 1..Len(pages) : \A k \in SourceKeys :
         Contains(pages[n], k) => \E i \in 1..Len(items) : items[i].key = k
InPageOrder(items, pages) ==
    \A i, j \in 1..Len(items), n \in 1..Len(pages) :
      i < j /\ Contains(pages[n], items[j].key) => \E m \in 1..n : Contains(pages[m], items[i].key)
Gathered(items, pages) ==
    /\ items \in Seq(WalkedItems) /\ pages \in Seq(Seq(SourceKeys)) /\ Len(pages) \in 1..MAX_PAGES
    /\ InPlace(items) /\ EachOnce(items) /\ OfPages(items, pages) /\ InPageOrder(items, pages)

Walking == [at : {"walking"}, outcome : {"none"}, items : Seq(WalkedItems), pages : Nat,
            visited : SUBSET Pages, next : Pages \cup {"none"}]
WalkInv ==
    \/ walk = NoWalk /\ pagesRead = <<>>
    \/ /\ walk \in Walking /\ walk.pages = Len(pagesRead)
       /\ Gathered(walk.items, pagesRead)
    \/ /\ walk.at = "over"
       /\ walk.outcome = "done" => Gathered(walk.items, pagesRead)

\* The first page.
LEMMA FirstPage ==
    ASSUME NEW listed \in Seq(SourceKeys), IsInjective(listed)
    PROVE  Gathered(Positioned(listed, 0), <<listed>>)
<1> DEFINE items == Positioned(listed, 0)
           pages == <<listed>>
<1>1. Len(listed) \in Nat /\ DOMAIN listed = 1..Len(listed)
  OBVIOUS
<1>2. \A i \in 1..Len(listed) : listed[i] \in SourceKeys /\ 0 + i - 1 \in Nat /\ 0 + i - 1 = i - 1
  OBVIOUS
<1>3. items = [i \in 1..Len(listed) |-> [key |-> listed[i], position |-> 0 + i - 1]]
  BY <1>1 DEF Positioned
<1>4. items \in Seq(WalkedItems) /\ Len(items) = Len(listed)
  <2> DEFINE N == Len(listed)
  <2>1. N \in Nat /\ \A i \in 1..N : [key |-> listed[i], position |-> 0 + i - 1] \in WalkedItems
    BY <1>1, <1>2 DEF WalkedItems
  <2>2. items = [i \in 1..N |-> [key |-> listed[i], position |-> 0 + i - 1]]
    BY <1>3
  <2> HIDE DEF N, items
  <2>3. items \in [1..N -> WalkedItems]
    BY <2>1, <2>2
  <2>4. items \in Seq(WalkedItems) /\ Len(items) = N
    BY <2>1, <2>3
  <2> QED
    BY <2>4 DEF N
<1>5. \A i \in 1..Len(listed) : items[i].key = listed[i] /\ items[i].position = i - 1
  BY <1>2, <1>3
<1>6. pages \in Seq(Seq(SourceKeys)) /\ Len(pages) = 1 /\ pages[1] = listed
  OBVIOUS
<1>7. 1 \in 1..MAX_PAGES
  BY ProbeAssumption
<1> HIDE DEF items, pages
<1>8. InPlace(items) /\ EachOnce(items)
  BY <1>1, <1>4, <1>5 DEF InPlace, EachOnce, IsInjective
<1>9. OfPages(items, pages)
  <2>1. 1 \in 1..Len(pages) /\ \A n \in 1..Len(pages) : n = 1
    BY <1>6
  <2>2. \A i \in 1..Len(items) : Contains(pages[1], items[i].key)
    BY <1>4, <1>5, <1>6 DEF Contains
  <2>3. \A k \in SourceKeys : Contains(pages[1], k) => \E i \in 1..Len(items) : items[i].key = k
    BY <1>4, <1>5, <1>6 DEF Contains
  <2> QED
    BY <2>1, <2>2, <2>3 DEF OfPages
<1>10. InPageOrder(items, pages)
  <2>1. \A n \in 1..Len(pages) : n = 1 /\ 1 \in 1..n
    BY <1>6
  <2>2. \A i \in 1..Len(items) : Contains(pages[1], items[i].key)
    BY <1>4, <1>5, <1>6 DEF Contains
  <2> QED
    BY <2>1, <2>2 DEF InPageOrder
<1> QED
  BY <1>4, <1>6, <1>7, <1>8, <1>9, <1>10 DEF Gathered, items, pages

LEMMA Joined ==
    ASSUME NEW S, NEW s \in Seq(S), NEW t \in Seq(S)
    PROVE  /\ s \o t \in Seq(S) /\ Len(s \o t) = Len(s) + Len(t)
           /\ \A i \in 1..Len(s) : (s \o t)[i] = s[i]
           /\ \A i \in 1..Len(t) : (s \o t)[Len(s) + i] = t[i]
  OBVIOUS

\* One page more: what is new goes to the end.
LEMMA NextPage ==
    ASSUME Gathered(walk.items, pagesRead), Len(pagesRead) < MAX_PAGES,
           NEW listed \in Seq(SourceKeys), IsInjective(listed)
    PROVE  Gathered(walk.items \o Positioned(Fresh(listed), Len(walk.items)), Append(pagesRead, listed))
<1> DEFINE old == walk.items
           new == Fresh(listed)
           items == old \o Positioned(new, Len(old))
           pages == Append(pagesRead, listed)
           last == Len(pagesRead) + 1
<1>1. /\ old \in Seq(WalkedItems) /\ pagesRead \in Seq(Seq(SourceKeys)) /\ Len(pagesRead) \in 1..MAX_PAGES
      /\ InPlace(old) /\ EachOnce(old) /\ OfPages(old, pagesRead) /\ InPageOrder(old, pagesRead)
  BY DEF Gathered
<1>2. /\ new \in Seq(SourceKeys) /\ IsInjective(new)
      /\ \A n \in 1..Len(new) : ~Walked(new[n]) /\ Contains(listed, new[n])
      /\ \A i \in 1..Len(listed) : Walked(listed[i]) \/ Contains(new, listed[i])
  BY FreshKeeps
<1>3. \A k : Walked(k) <=> \E i \in 1..Len(old) : old[i].key = k
  BY <1>1 DEF Walked
<1> DEFINE a == Len(old)
           b == Len(new)
<1>4. a \in Nat /\ b \in Nat /\ DOMAIN new = 1..b /\ last \in Nat /\ MAX_PAGES \in Nat /\ Len(pagesRead) \in Nat
  BY <1>1, <1>2, ProbeAssumption
<1>5. \A i \in 1..b : new[i] \in SourceKeys /\ a + i - 1 \in Nat
  BY <1>2, <1>4
<1>6. /\ Positioned(new, a) \in Seq(WalkedItems) /\ Len(Positioned(new, a)) = b
      /\ \A i \in 1..b : Positioned(new, a)[i].key = new[i] /\ Positioned(new, a)[i].position = a + i - 1
  <2>1. Positioned(new, a) = [i \in 1..b |-> [key |-> new[i], position |-> a + i - 1]]
    BY <1>4 DEF Positioned
  <2> HIDE DEF a, b, new
  <2> QED
    BY <2>1, <1>4, <1>5 DEF WalkedItems
<1>7. /\ items \in Seq(WalkedItems) /\ Len(items) = a + b
      /\ \A i \in 1..a : items[i] = old[i]
      /\ \A i \in 1..b : items[a + i] = Positioned(new, a)[i]
  <2> DEFINE tail == Positioned(new, a)
  <2>1. tail \in Seq(WalkedItems) /\ Len(tail) = b /\ old \in Seq(WalkedItems)
    BY <1>1, <1>6
  <2> HIDE DEF tail, new, old, a, b
  <2>2. /\ old \o tail \in Seq(WalkedItems) /\ Len(old \o tail) = Len(old) + Len(tail)
        /\ \A i \in 1..Len(old) : (old \o tail)[i] = old[i]
        /\ \A i \in 1..Len(tail) : (old \o tail)[Len(old) + i] = tail[i]
    <3>1. \A s, t \in Seq(WalkedItems) :
             /\ s \o t \in Seq(WalkedItems) /\ Len(s \o t) = Len(s) + Len(t)
             /\ \A i \in 1..Len(s) : (s \o t)[i] = s[i]
             /\ \A i \in 1..Len(t) : (s \o t)[Len(s) + i] = t[i]
      BY Joined
    <3> QED
      BY ONLY <2>1, <3>1
  <2>3. items = old \o tail /\ Len(old) = a
    BY DEF tail, a
  <2> HIDE DEF items
  <2>4. /\ items \in Seq(WalkedItems) /\ Len(items) = a + b
        /\ \A i \in 1..a : items[i] = old[i]
        /\ \A i \in 1..b : items[a + i] = tail[i]
    BY <2>1, <2>2, <2>3
  <2> QED
    BY <2>4 DEF tail, items
<1>8. \A i \in 1..Len(items) : i \in 1..a \/ (i - a \in 1..b /\ i = a + (i - a))
  BY <1>4, <1>7
<1>9. /\ pages \in Seq(Seq(SourceKeys)) /\ Len(pages) = last /\ pages[last] = listed
      /\ \A n \in 1..Len(pagesRead) : pages[n] = pagesRead[n]
      /\ \A n \in 1..last : n = last \/ n \in 1..Len(pagesRead)
  BY <1>1, <1>4
<1>10. last \in 1..MAX_PAGES /\ last \in 1..last
  BY <1>1, <1>4
<1> HIDE DEF old, new, items, pages, last, a, b
\* Every item is an old or a new one; a new one is on the last page alone.
<1>11. ASSUME NEW i \in 1..Len(items)
       PROVE  \/ i \in 1..a /\ items[i] = old[i]
              \/ \E j \in 1..b : i = a + j /\ items[i].key = new[j] /\ items[i].position = i - 1
  <2>1. CASE i \in 1..a
    BY <2>1, <1>7
  <2>2. CASE i - a \in 1..b /\ i = a + (i - a)
    <3>1. items[i] = Positioned(new, a)[i - a]
      BY <2>2, <1>7
    <3>2. items[i].key = new[i - a] /\ items[i].position = a + (i - a) - 1
      BY <2>2, <3>1, <1>6
    <3>3. a + (i - a) - 1 = i - 1
      BY <1>4
    <3> QED
      BY <2>2, <3>2, <3>3
  <2> QED
    BY <1>8, <2>1, <2>2
<1>12. ASSUME NEW j \in 1..b
       PROVE  /\ new[j] \in SourceKeys /\ Contains(pages[last], new[j])
              /\ \A i \in 1..a : old[i].key # new[j]
              /\ \A n \in 1..Len(pagesRead) : ~Contains(pagesRead[n], new[j])
  <2>1. new[j] \in SourceKeys /\ ~Walked(new[j]) /\ Contains(listed, new[j])
    BY <1>2, <1>5 DEF b
  <2>2. \A i \in 1..a : old[i].key # new[j]
    BY <2>1, <1>3 DEF a
  <2>3. \A n \in 1..Len(pagesRead) : Contains(pagesRead[n], new[j]) => \E i \in 1..a : old[i].key = new[j]
    BY <2>1, <1>1 DEF OfPages, a
  <2> QED
    BY <2>1, <2>2, <2>3, <1>9
<1>13. InPlace(items)
  BY <1>1, <1>11 DEF InPlace, a
<1>14. EachOnce(items)
  <2> SUFFICES ASSUME NEW i \in 1..Len(items), NEW j \in 1..Len(items), items[i].key = items[j].key
               PROVE  i = j
    BY DEF EachOnce
  <2>1. CASE i \in 1..a /\ items[i] = old[i] /\ j \in 1..a /\ items[j] = old[j]
    BY <2>1, <1>1 DEF EachOnce, a
  <2>2. ASSUME NEW x \in 1..b, NEW y \in 1..b, i = a + x, j = a + y, items[i].key = new[x], items[j].key = new[y]
        PROVE  i = j
    <3>1. x = y
      BY <2>2, <1>2, <1>4 DEF IsInjective
    <3> QED
      BY <2>2, <3>1
  <2>3. ASSUME NEW x \in 1..b, items[j].key = new[x], i \in 1..a, items[i] = old[i] PROVE FALSE
    BY <2>3, <1>12
  <2>4. ASSUME NEW x \in 1..b, items[i].key = new[x], j \in 1..a, items[j] = old[j] PROVE FALSE
    BY <2>4, <1>12
  <2> QED
    BY <1>11, <2>1, <2>2, <2>3, <2>4
<1>15. OfPages(items, pages)
  <2>1. ASSUME NEW i \in 1..Len(items) PROVE \E n \in 1..Len(pages) : Contains(pages[n], items[i].key)
    <3>1. CASE i \in 1..a /\ items[i] = old[i]
      <4>1. PICK n \in 1..Len(pagesRead) : Contains(pagesRead[n], old[i].key)
        BY <3>1, <1>1 DEF OfPages, a
      <4>2. n \in 1..Len(pages)
        BY <4>1, <1>4, <1>9 DEF last
      <4> QED
        BY <3>1, <4>1, <4>2, <1>9
    <3>2. ASSUME NEW j \in 1..b, items[i].key = new[j] PROVE \E n \in 1..Len(pages) : Contains(pages[n], items[i].key)
      BY <3>2, <1>12, <1>9, <1>10
    <3> QED
      BY <1>11, <3>1, <3>2
  <2>2. ASSUME NEW n \in 1..Len(pages), NEW k \in SourceKeys, Contains(pages[n], k)
        PROVE  \E i \in 1..Len(items) : items[i].key = k
    <3>1. ASSUME NEW i \in 1..a, old[i].key = k PROVE \E g \in 1..Len(items) : items[g].key = k
      <4>1. i \in 1..Len(items) /\ items[i] = old[i]
        BY <1>4, <1>7
      <4> QED
        BY <3>1, <4>1
    <3>2. CASE n \in 1..Len(pagesRead)
      <4>1. \E i \in 1..a : old[i].key = k
        BY <2>2, <3>2, <1>1, <1>9 DEF OfPages, a
      <4> QED
        BY <3>1, <4>1
    <3>3. CASE n = last
      <4>1. PICK c \in 1..Len(listed) : listed[c] = k
        BY <2>2, <3>3, <1>9 DEF Contains
      <4>2. CASE Walked(k)
        <5>1. \E i \in 1..a : old[i].key = k
          BY <4>2, <1>3 DEF a
        <5> QED
          BY <3>1, <5>1
      <4>3. CASE Contains(new, k)
        <5>1. PICK j \in 1..b : new[j] = k
          BY <4>3 DEF Contains, b
        <5>2. a + j \in 1..Len(items) /\ items[a + j].key = new[j]
          BY <1>4, <1>6, <1>7
        <5> QED
          BY <5>1, <5>2
      <4> QED
        BY <4>1, <4>2, <4>3, <1>2
    <3> QED
      BY <1>9, <3>2, <3>3
  <2> QED
    BY <2>1, <2>2 DEF OfPages
<1>16. InPageOrder(items, pages)
  <2> SUFFICES ASSUME NEW i \in 1..Len(items), NEW j \in 1..Len(items), NEW n \in 1..Len(pages),
                      i < j, Contains(pages[n], items[j].key)
               PROVE  \E m \in 1..n : Contains(pages[m], items[i].key)
    BY DEF InPageOrder
  <2>1. n \in 1..last /\ n \in Nat
    BY <1>9, <1>4
  <2>2. CASE n = last
    <3>1. PICK m \in 1..Len(pages) : Contains(pages[m], items[i].key)
      BY <1>15 DEF OfPages
    <3> QED
      BY <2>2, <3>1, <1>9
  <2>3. CASE n \in 1..Len(pagesRead)
    <3>1. j \in 1..a /\ items[j] = old[j]
      <4>1. ASSUME NEW y \in 1..b, items[j].key = new[y] PROVE FALSE
        BY <2>3, <4>1, <1>9, <1>12
      <4> QED
        BY <4>1, <1>11
    <3>2. i \in 1..a /\ items[i] = old[i]
      BY <3>1, <1>4, <1>7
    <3>3. PICK m \in 1..n : Contains(pagesRead[m], old[i].key)
      BY <2>3, <3>1, <3>2, <1>1, <1>9 DEF InPageOrder, a
    <3>4. m \in 1..Len(pagesRead)
      BY <2>3, <3>3, <1>4
    <3> QED
      BY <3>2, <3>3, <3>4, <1>9
  <2> QED
    BY <2>1, <2>2, <2>3, <1>9
<1> QED
  BY <1>7, <1>9, <1>10, <1>13, <1>14, <1>15, <1>16 DEF Gathered, items, pages, old, new

LEMMA WalkStarts == ProbeInit => WalkInv
  BY DEF ProbeInit, WalkInv

LEMMA WalkHolds == WalkInv /\ [ProbeNext]_probeVars => WalkInv'
<1> SUFFICES ASSUME WalkInv, [ProbeNext]_probeVars PROVE WalkInv'
  OBVIOUS
<1>1. ASSUME UNCHANGED <<walk, pagesRead>> PROVE WalkInv'
  BY <1>1 DEF WalkInv
<1>2. ASSUME NEW follow \in BOOLEAN, fetch_feed(follow) PROVE WalkInv'
  <2>1. CASE \E said \in {"not-modified", "refused", "error"} :
               walk' = [at |-> "over", outcome |-> said, items |-> <<>>, pages |-> 0]
    BY <2>1 DEF WalkInv
  <2>2. ASSUME NEW doc \in Document,
               walk' = [at |-> "walking", outcome |-> "none", items |-> Positioned(doc.items, 0), pages |-> 1,
                        visited |-> {doc.final}, next |-> IF follow THEN doc.next ELSE "none"],
               pagesRead' = <<doc.items>>
        PROVE  WalkInv'
    <3>1. doc.items \in Listed /\ doc.final \in Pages /\ doc.next \in Pages \cup {"none"}
      BY DEF Document
    <3> DEFINE items == Positioned(doc.items, 0)
    <3>2. Gathered(items, <<doc.items>>) /\ Len(<<doc.items>>) = 1
      BY <3>1, ListedKeys, FirstPage
    <3>3. items \in Seq(WalkedItems)
      BY <3>2 DEF Gathered
    <3> HIDE DEF items
    <3>4. walk' \in Walking /\ walk'.items = items /\ walk'.pages = 1
      BY <2>2, <3>1, <3>3 DEF Walking, items
    <3> QED
      BY <2>2, <3>2, <3>4 DEF WalkInv
  <2> QED
    BY <1>2, <2>1, <2>2 DEF fetch_feed
<1>3. ASSUME FollowPage \/ WalkEnds
      PROVE  walk \in Walking /\ walk.pages = Len(pagesRead) /\ Gathered(walk.items, pagesRead)
  <2>1. walk.at = "walking"
    BY <1>3 DEF FollowPage, WalkEnds
  <2>2. NoWalk.at = "idle"
    BY DEF NoWalk
  <2> QED
    BY <2>1, <2>2 DEF WalkInv
<1>4. ASSUME NEW said, NEW items, WalkOver(said, items), said = "done" => items = walk.items,
             UNCHANGED pagesRead, Gathered(walk.items, pagesRead)
      PROVE  WalkInv'
  <2>1. walk'.at = "over" /\ walk'.outcome = said /\ walk'.items = items
    BY <1>4 DEF WalkOver
  <2> QED
    BY <1>4, <2>1 DEF WalkInv
<1>5. CASE FollowPage
  <2>1. CASE (\E said \in {"too large", "no feed", "refused"} : WalkOver("done", walk.items)) /\ UNCHANGED pagesRead
    BY <2>1, <1>3, <1>4, <1>5
  <2>2. CASE WalkOver("error", <<>>) /\ UNCHANGED pagesRead
    BY <2>2, <1>3, <1>4, <1>5
  <2>3. ASSUME NEW doc \in Document,
               walk' = [walk EXCEPT !.visited = @ \cup {walk.next}, !.pages = @ + 1, !.next = doc.next,
                          !.items = @ \o Positioned(Fresh(doc.items), Len(@))],
               pagesRead' = Append(pagesRead, doc.items)
        PROVE  WalkInv'
    <3>1. doc.items \in Listed /\ doc.next \in Pages \cup {"none"} /\ walk.next \in Pages
      BY <1>3, <1>5 DEF Document, FollowPage, More, Walking
    <3>2. walk \in Walking /\ walk.pages = Len(pagesRead) /\ Gathered(walk.items, pagesRead) /\ walk.pages < MAX_PAGES
      BY <1>3, <1>5 DEF FollowPage, More
    <3> DEFINE items == walk.items \o Positioned(Fresh(doc.items), Len(walk.items))
    <3>3. Gathered(items, pagesRead')
      BY <2>3, <3>1, <3>2, ListedKeys, NextPage
    <3>4. items \in Seq(WalkedItems)
      BY <3>3 DEF Gathered
    <3>5. Len(pagesRead') = walk.pages + 1
      BY <2>3, <3>2 DEF Gathered
    <3>6. walk' = [walk EXCEPT !.visited = @ \cup {walk.next}, !.pages = @ + 1, !.next = doc.next, !.items = items]
      BY <2>3
    <3> HIDE DEF items
    <3>7. walk' \in Walking /\ walk'.items = items /\ walk'.pages = walk.pages + 1
      <4> DEFINE seen == walk.visited \cup {walk.next}
                 next == doc.next
                 pages == walk.pages + 1
      <4>1. seen \in SUBSET Pages /\ next \in Pages \cup {"none"} /\ pages \in Nat
        BY <3>1, <3>2 DEF Walking
      <4>2. walk' = [walk EXCEPT !.visited = seen, !.pages = pages, !.next = next, !.items = items]
        BY <3>6
      <4> HIDE DEF seen, next, pages
      <4>3. walk' \in Walking /\ walk'.items = items /\ walk'.pages = pages
        BY <3>2, <3>4, <4>1, <4>2 DEF Walking
      <4> QED
        BY <4>3 DEF pages
    <3> QED
      BY <3>3, <3>5, <3>7 DEF WalkInv
  <2> QED
    BY <1>5, <2>1, <2>2, <2>3 DEF FollowPage
<1>6. CASE WalkEnds
  BY <1>3, <1>4, <1>6 DEF WalkEnds
<1> QED
  BY <1>1, <1>2, <1>5, <1>6
     DEF ProbeNext, StartProbe, Fetch, FetchOver, VerifyLink, Verified, List, NothingFits, probeVars

\* The first of the pages that lists a key.
LEMMA FirstOfPages ==
    ASSUME NEW pages \in Seq(Seq(SourceKeys)), NEW key, \E n \in 1..Len(pages) : Contains(pages[n], key)
    PROVE  LET first == SelectInSeq(pages, LAMBDA items : Contains(items, key)) IN
           /\ first \in 1..Len(pages) /\ Contains(pages[first], key)
           /\ \A n \in 1..Len(pages) : Contains(pages[n], key) => first <= n
<1> DEFINE I == {n \in 1..Len(pages) : Contains(pages[n], key)}
<1>1. I \in SUBSET Nat /\ I # {}
  OBVIOUS
<1>2. SelectInSeq(pages, LAMBDA items : Contains(items, key)) = Min(I)
  BY <1>1 DEF SelectInSeq
<1>3. Min(I) \in I /\ \A n \in I : Min(I) <= n
  <2> HIDE DEF I
  <2> QED
    BY <1>1, MinIsLeast
<1> QED
  BY <1>2, <1>3

LEMMA WalkSuffices == WalkInv => PagesMerged
<1> SUFFICES ASSUME WalkInv, walk.at = "over", walk.outcome = "done"
             PROVE  PagesMerged
  BY DEF PagesMerged
<1>1. Gathered(walk.items, pagesRead)
  BY DEF WalkInv, NoWalk, Walking
<1> DEFINE listed == [i \in DOMAIN walk.items |-> walk.items[i].key]
           page(key) == SelectInSeq(pagesRead, LAMBDA items : Contains(items, key))
           items == walk.items
<1>2. /\ items \in Seq(WalkedItems) /\ pagesRead \in Seq(Seq(SourceKeys)) /\ Len(pagesRead) \in 1..MAX_PAGES
      /\ InPlace(items) /\ EachOnce(items) /\ OfPages(items, pagesRead) /\ InPageOrder(items, pagesRead)
  BY <1>1 DEF Gathered
<1>3. /\ DOMAIN walk.items = 1..Len(items) /\ DOMAIN listed = 1..Len(items) /\ DOMAIN pagesRead = 1..Len(pagesRead)
      /\ \A i \in 1..Len(items) : listed[i] = items[i].key /\ items[i].key \in SourceKeys
  <2>1. \A i \in 1..Len(items) : items[i] \in WalkedItems
    BY <1>2
  <2>2. DOMAIN walk.items = 1..Len(items) /\ DOMAIN pagesRead = 1..Len(pagesRead)
    BY <1>2
  <2>3. \A i \in 1..Len(items) : items[i].key \in SourceKeys
    BY <2>1 DEF WalkedItems
  <2> QED
    BY <2>2, <2>3
<1>4. IsInjective(listed)
  BY <1>2, <1>3 DEF EachOnce, IsInjective
<1>5. \A i \in DOMAIN walk.items : walk.items[i].position = i - 1
  BY <1>2, <1>3 DEF InPlace
<1> HIDE DEF listed, items
<1>6. Range(listed) = UNION {Range(pagesRead[n]) : n \in DOMAIN pagesRead}
  <2>1. \A n \in 1..Len(pagesRead) : \A k : k \in Range(pagesRead[n]) <=> Contains(pagesRead[n], k)
    BY <1>2 DEF Range, Contains
  <2>2. \A n \in 1..Len(pagesRead) : \A k : k \in Range(pagesRead[n]) => k \in SourceKeys
    BY <1>2 DEF Range
  <2>3. ASSUME NEW k \in Range(listed) PROVE \E n \in DOMAIN pagesRead : k \in Range(pagesRead[n])
    <3>1. PICK i \in 1..Len(items) : k = items[i].key
      BY <1>3 DEF Range
    <3> QED
      BY <3>1, <1>2, <1>3, <2>1 DEF OfPages
  <2>4. ASSUME NEW n \in DOMAIN pagesRead, NEW k \in Range(pagesRead[n]) PROVE k \in Range(listed)
    <3>1. \E i \in 1..Len(items) : items[i].key = k
      BY <1>2, <1>3, <2>1, <2>2 DEF OfPages
    <3> QED
      BY <3>1, <1>3 DEF Range
  <2> QED
    BY <2>3, <2>4
<1>7. ASSUME NEW i \in DOMAIN listed, NEW j \in DOMAIN listed, i < j PROVE page(listed[i]) <= page(listed[j])
  <2> DEFINE p == page(listed[i])
             q == page(listed[j])
  <2>1. i \in 1..Len(items) /\ j \in 1..Len(items) /\ listed[i] = items[i].key /\ listed[j] = items[j].key
    BY <1>3
  <2>2. /\ \E n \in 1..Len(pagesRead) : Contains(pagesRead[n], listed[i])
        /\ \E n \in 1..Len(pagesRead) : Contains(pagesRead[n], listed[j])
    BY <2>1, <1>2 DEF OfPages
  <2>3. p \in 1..Len(pagesRead) /\ \A n \in 1..Len(pagesRead) : Contains(pagesRead[n], listed[i]) => p <= n
    BY <2>2, <1>2, FirstOfPages
  <2>4. q \in 1..Len(pagesRead) /\ Contains(pagesRead[q], listed[j])
    BY <2>2, <1>2, FirstOfPages
  <2> HIDE DEF p, q
  <2>5. PICK m \in 1..q : Contains(pagesRead[m], listed[i])
    BY <1>2, <1>7, <2>1, <2>4 DEF InPageOrder
  <2>6. p <= m /\ m <= q /\ p \in Nat /\ q \in Nat /\ m \in Nat
    BY <2>3, <2>4, <2>5
  <2>7. p <= q
    BY <2>6
  <2> QED
    BY <2>7 DEF p, q
<1> QED
  BY <1>2, <1>4, <1>5, <1>6, <1>7 DEF PagesMerged, listed

-----------------------------------------------------------------------------
(* Probe: what is behind a pasted address.                                   *)

Pasted == {"given", "https", "http", "tab"}
Lookups == [at : {"fetching", "verifying", "listing"}, input : Inputs, left : Seq(Links \cup Pasted),
            entries : Seq(Links), seen : SUBSET Links, tried : BOOLEAN]

\* Nothing that would do was heard; what is tried is what was pasted.
Hopeless(said) == \A h \in said : h[2] \notin {"rss", "listed"}
OfThePasted(l) ==
    \A i \in 1..Len(l.left) : \E k \in DOMAIN Candidates(l.input) : l.left[i] = Candidates(l.input)[k]

\* The links verified so far are RSS, each Source once.
VerifiedTrue(l, said) ==
    /\ \A i \in 1..Len(l.entries) : <<l.entries[i], "rss">> \in said /\ Normal[l.entries[i]] \in l.seen
    /\ \A i, j \in 1..Len(l.entries) : Normal[l.entries[i]] = Normal[l.entries[j]] => i = j
    /\ Hopeless(said) \/ l.entries # <<>>

LookupInv ==
    \/ lookup = [at |-> "idle"] /\ heard = {}
    \/ /\ lookup \in Lookups /\ lookup.at \in {"fetching", "listing"}
       /\ lookup.entries = <<>> /\ Hopeless(heard) /\ OfThePasted(lookup)
    \/ /\ lookup \in Lookups /\ lookup.at = "verifying"
       /\ lookup.left \in Seq(Links) /\ VerifiedTrue(lookup, heard)
    \/ lookup.at = "over" /\ CandidatesTrue

LEMMA CandidatesAre ==
    \A input : Candidates(input) \in Seq(Pasted) /\ 1 \in DOMAIN Candidates(input)
<1> SUFFICES ASSUME NEW input PROVE Candidates(input) \in Seq(Pasted) /\ 1 \in DOMAIN Candidates(input)
  OBVIOUS
<1>1. Candidates(input) \in {<<"https", "http">>, <<"tab">>, <<"given">>}
  BY DEF Candidates
<1>2. <<"https", "http">> \in Seq(Pasted) /\ 1 \in DOMAIN <<"https", "http">>
  BY DEF Pasted
<1>3. <<"tab">> \in Seq(Pasted) /\ 1 \in DOMAIN <<"tab">>
  BY DEF Pasted
<1>4. <<"given">> \in Seq(Pasted) /\ 1 \in DOMAIN <<"given">>
  BY DEF Pasted
<1> QED
  BY <1>1, <1>2, <1>3, <1>4

LEMMA LinksAdvertised == \A links \in Advertised : Verifiable(links) \in Seq(Links)
<1> SUFFICES ASSUME NEW links \in Advertised PROVE Verifiable(links) \in Seq(Links)
  OBVIOUS
<1>1. Cardinality(Links) \in Nat
  BY ProbeAssumption, FS_CardinalityType
<1>2. PICK n \in 0..Cardinality(Links) : links \in [1..n -> Links]
  BY DEF Advertised
<1>3. links \in Seq(Links) /\ Len(links) = n /\ n \in Nat
  BY <1>1, <1>2
<1>4. ASSUME Len(links) > VERIFY_LIMIT PROVE SubSeq(links, 1, VERIFY_LIMIT) \in Seq(Links)
  BY <1>3, <1>4, ProbeAssumption
<1> QED
  BY <1>3, <1>4 DEF Verifiable

\* The end of a probe.
LEMMA OverTrue ==
    ASSUME NEW outcome, NEW entries \in Seq(Links \cup Pasted), lookup' = Over(outcome, entries),
           \A i \in 1..Len(entries) : heard' \cap {<<entries[i], "rss">>, <<entries[i], "listed">>} # {},
           \A i, j \in 1..Len(entries) :
             {entries[i], entries[j]} \subseteq Links /\ Normal[entries[i]] = Normal[entries[j]] => i = j,
           outcome = "refused" => \E i \in DOMAIN Candidates(lookup.input) :
                                    <<Candidates(lookup.input)[i], "refused">> \in heard',
           outcome = "unsupported" => Hopeless(heard')
    PROVE  LookupInv'
<1>1. /\ lookup'.at = "over" /\ lookup'.entries = entries /\ lookup'.outcome = outcome
      /\ lookup'.input = lookup.input
  BY DEF Over
<1>2. DOMAIN entries = 1..Len(entries)
  OBVIOUS
<1>3. CandidatesTrue'
  BY <1>1, <1>2 DEF CandidatesTrue, Hopeless, Candidates
<1> QED
  BY <1>1, <1>3 DEF LookupInv

LEMMA NothingTold ==
    ASSUME NEW outcome, lookup' = Over(outcome, <<>>),
           outcome = "refused" => \E i \in DOMAIN Candidates(lookup.input) :
                                    <<Candidates(lookup.input)[i], "refused">> \in heard',
           outcome = "unsupported" => Hopeless(heard')
    PROVE  LookupInv'
<1> DEFINE none == <<>>
<1>1. none \in Seq(Links \cup Pasted) /\ (\A i \in 1..Len(none) : FALSE) /\ lookup' = Over(outcome, none)
  OBVIOUS
<1> HIDE DEF none
<1> QED
  BY <1>1, OverTrue

LEMMA OneTold ==
    ASSUME NEW url \in Links \cup Pasted, lookup' = Over("candidates", <<url>>),
           heard' \cap {<<url, "rss">>, <<url, "listed">>} # {}
    PROVE  LookupInv'
<1> DEFINE one == <<url>>
<1>1. one \in Seq(Links \cup Pasted) /\ \A i \in 1..Len(one) : one[i] = url /\ i = 1
  OBVIOUS
<1>2. lookup' = Over("candidates", one)
  OBVIOUS
<1> HIDE DEF one
<1> QED
  BY <1>1, <1>2, OverTrue

LEMMA LookupStarts == ProbeInit => LookupInv
  BY DEF ProbeInit, LookupInv

\* The phases of a probe, as the steps find it.
LEMMA PhaseKnown ==
    ASSUME LookupInv
    PROVE  /\ lookup.at \in {"fetching", "listing"} =>
                /\ lookup \in Lookups /\ lookup.entries = <<>> /\ Hopeless(heard) /\ OfThePasted(lookup)
           /\ lookup.at = "verifying" =>
                lookup \in Lookups /\ lookup.left \in Seq(Links) /\ VerifiedTrue(lookup, heard)
           /\ lookup.at = "idle" => heard = {}
  BY DEF LookupInv

LEMMA FirstTried ==
    ASSUME LookupInv, lookup.at \in {"fetching", "listing"}, lookup.left # <<>>
    PROVE  /\ Head(lookup.left) \in Links \cup Pasted /\ Tail(lookup.left) \in Seq(Links \cup Pasted)
           /\ \E k \in DOMAIN Candidates(lookup.input) : Head(lookup.left) = Candidates(lookup.input)[k]
           /\ \A i \in 1..Len(Tail(lookup.left)) :
                \E k \in DOMAIN Candidates(lookup.input) : Tail(lookup.left)[i] = Candidates(lookup.input)[k]
<1> DEFINE q == lookup.left
<1>1. q \in Seq(Links \cup Pasted) /\ OfThePasted(lookup)
  BY PhaseKnown DEF Lookups
<1>2. \A i \in 1..Len(q) : \E k \in DOMAIN Candidates(lookup.input) : q[i] = Candidates(lookup.input)[k]
  BY <1>1 DEF OfThePasted
<1> HIDE DEF q
<1>3. q # <<>>
  BY DEF q
<1>4. /\ Head(q) = q[1] /\ 1 \in 1..Len(q) /\ Head(q) \in Links \cup Pasted /\ Tail(q) \in Seq(Links \cup Pasted)
      /\ \A i \in 1..Len(Tail(q)) : i + 1 \in 1..Len(q) /\ Tail(q)[i] = q[i + 1]
  BY <1>1, <1>3
<1> QED
  BY <1>2, <1>4 DEF q

\* What is left to the Engine.
LEMMA ListingStarts ==
    ASSUME lookup \in Lookups, Hopeless(heard), lookup' = To("listing", Engines), heard' = heard
    PROVE  LookupInv'
<1> DEFINE c == Candidates(lookup.input)
           none == <<>>
           q == Engines
<1>1. c \in Seq(Pasted) /\ 1 \in DOMAIN c
  BY CandidatesAre
<1>2. q = IF lookup.tried THEN <<c[1]>> ELSE c
  BY DEF Engines
<1> HIDE DEF c, q
<1>3. /\ q \in Seq(Pasted)
      /\ \A i \in 1..Len(q) : \E k \in DOMAIN c : q[i] = c[k]
  BY <1>1, <1>2
<1>4. q \in Seq(Links \cup Pasted) /\ none \in Seq(Links)
  BY <1>3
<1>5. lookup' = [at |-> "listing", input |-> lookup.input, left |-> q, entries |-> none, seen |-> {}, tried |-> lookup.tried]
  BY DEF To, q
<1> HIDE DEF none
<1>6. /\ lookup' \in Lookups /\ lookup'.at = "listing" /\ lookup'.entries = none /\ lookup'.left = q
      /\ lookup'.input = lookup.input
  BY <1>4, <1>5 DEF Lookups
<1>7. OfThePasted(lookup')
  BY <1>3, <1>6 DEF OfThePasted, c
<1> QED
  BY <1>6, <1>7 DEF LookupInv, OfThePasted, none, Hopeless, Candidates

LEMMA FetchHolds == LookupInv /\ Fetch => LookupInv'
<1> SUFFICES ASSUME LookupInv, Fetch PROVE LookupInv'
  OBVIOUS
<1> DEFINE url == Head(lookup.left)
           rest == Tail(lookup.left)
           tried == [lookup EXCEPT !.tried = TRUE]
<1>1. /\ lookup.at = "fetching" /\ lookup.left # <<>> /\ lookup \in Lookups /\ lookup.entries = <<>>
      /\ Hopeless(heard) /\ OfThePasted(lookup)
  BY PhaseKnown DEF Fetch
<1>2. /\ url \in Links \cup Pasted /\ rest \in Seq(Links \cup Pasted)
      /\ \E k \in DOMAIN Candidates(lookup.input) : url = Candidates(lookup.input)[k]
      /\ \A i \in 1..Len(rest) : \E k \in DOMAIN Candidates(lookup.input) : rest[i] = Candidates(lookup.input)[k]
  BY <1>1, FirstTried
<1>3. ASSUME NEW said \in {"error", "other", "html", "media", "refused"}, Hears(url, said) PROVE Hopeless(heard')
  BY <1>1, <1>3 DEF Hears, Hopeless
<1> HIDE DEF url, rest
<1>4. CASE Hears(url, "error") /\ lookup' = [lookup EXCEPT !.left = rest]
  <2>1. /\ lookup' \in Lookups /\ lookup'.at = "fetching" /\ lookup'.entries = <<>> /\ lookup'.left = rest
        /\ lookup'.input = lookup.input
    BY <1>1, <1>2, <1>4 DEF Lookups
  <2>2. OfThePasted(lookup')
    BY <1>2, <2>1 DEF OfThePasted
  <2> QED
    BY <1>3, <1>4, <2>1, <2>2 DEF LookupInv, OfThePasted, Candidates
<1>5. CASE Hears(url, "refused") /\ lookup' = Over("refused", <<>>)
  <2>1. \E i \in DOMAIN Candidates(lookup.input) : <<Candidates(lookup.input)[i], "refused">> \in heard'
    BY <1>2, <1>5 DEF Hears
  <2> QED
    BY <1>5, <2>1, NothingTold
<1>6. CASE Hears(url, "media") /\ lookup' = Over("unsupported", <<>>)
  <2>1. Hopeless(heard')
    BY <1>3, <1>6
  <2> QED
    BY <1>6, <2>1, NothingTold
<1>7. CASE Hears(url, "rss") /\ lookup' = Over("candidates", <<url>>)
  <2>1. <<url, "rss">> \in heard'
    BY <1>7 DEF Hears
  <2> QED
    BY <1>2, <1>7, <2>1, OneTold
<1>8. CASE Hears(url, "other") /\ lookup' = [tried EXCEPT !.left = <<>>]
  <2> DEFINE none == <<>>
  <2>3. none \in Seq(Links \cup Pasted) /\ lookup' = [tried EXCEPT !.left = none]
    BY <1>8
  <2> HIDE DEF none
  <2>4. /\ lookup' \in Lookups /\ lookup'.at = "fetching" /\ lookup'.entries = <<>> /\ lookup'.left = none
    BY <1>1, <2>3 DEF Lookups
  <2>1. /\ lookup' \in Lookups /\ lookup'.at = "fetching" /\ lookup'.entries = <<>> /\ lookup'.left = <<>>
    BY <2>4 DEF none
  <2>2. OfThePasted(lookup')
    BY <2>1 DEF OfThePasted
  <2> QED
    BY <1>3, <1>8, <2>1, <2>2 DEF LookupInv, OfThePasted, Candidates
<1>9. ASSUME NEW links \in Advertised, Hears(url, "html"),
             lookup' = [tried EXCEPT !.at = "verifying", !.left = Verifiable(links)]
      PROVE  LookupInv'
  <2>1. Verifiable(links) \in Seq(Links) /\ Verifiable(links) \in Seq(Links \cup Pasted)
    BY LinksAdvertised
  <2>2. /\ lookup' \in Lookups /\ lookup'.at = "verifying" /\ lookup'.entries = <<>>
        /\ lookup'.left = Verifiable(links)
    BY <1>1, <1>9, <2>1 DEF Lookups
  <2>3. VerifiedTrue(lookup', heard')
    BY <1>3, <1>9, <2>2 DEF VerifiedTrue
  <2> QED
    BY <2>1, <2>2, <2>3 DEF LookupInv, VerifiedTrue
<1> QED
  BY <1>4, <1>5, <1>6, <1>7, <1>8, <1>9 DEF Fetch, url, rest

LEMMA ListingHolds == LookupInv /\ (FetchOver \/ List \/ NothingFits) => LookupInv'
<1> SUFFICES ASSUME LookupInv, FetchOver \/ List \/ NothingFits PROVE LookupInv'
  OBVIOUS
<1>1. /\ lookup.at \in {"fetching", "listing"} /\ lookup \in Lookups /\ lookup.entries = <<>>
      /\ Hopeless(heard) /\ OfThePasted(lookup)
  <2>1. lookup.at \in {"fetching", "listing"}
    BY DEF FetchOver, List, NothingFits
  <2> QED
    BY <2>1, PhaseKnown
<1>2. CASE FetchOver
  BY <1>1, <1>2, ListingStarts DEF FetchOver
<1>3. CASE NothingFits
  <2>1. lookup' = Over("unsupported", <<>>) /\ heard' = heard
    BY <1>3 DEF NothingFits
  <2> QED
    BY <1>1, <2>1, NothingTold
<1>4. CASE List
  <2> DEFINE url == Head(lookup.left)
             rest == Tail(lookup.left)
  <2>1. lookup.at = "listing" /\ lookup.left # <<>>
    BY <1>4 DEF List
  <2>2. /\ url \in Links \cup Pasted /\ rest \in Seq(Links \cup Pasted)
        /\ \E k \in DOMAIN Candidates(lookup.input) : url = Candidates(lookup.input)[k]
        /\ \A i \in 1..Len(rest) : \E k \in DOMAIN Candidates(lookup.input) : rest[i] = Candidates(lookup.input)[k]
    BY <1>1, <2>1, FirstTried
  <2> HIDE DEF url, rest
  <2>3. CASE Hears(url, "listed") /\ lookup' = Over("candidates", <<url>>)
    <3>1. <<url, "listed">> \in heard'
      BY <2>3 DEF Hears
    <3> QED
      BY <2>2, <2>3, <3>1, OneTold
  <2>4. ASSUME NEW said \in {"nothing", "error"}, Hears(url, said), lookup' = [lookup EXCEPT !.left = rest]
        PROVE  LookupInv'
    <3>1. /\ lookup' \in Lookups /\ lookup'.at = "listing" /\ lookup'.entries = <<>> /\ lookup'.left = rest
          /\ lookup'.input = lookup.input
      BY <1>1, <2>1, <2>2, <2>4 DEF Lookups
    <3>2. OfThePasted(lookup')
      BY <2>2, <3>1 DEF OfThePasted
    <3>3. Hopeless(heard')
      BY <1>1, <2>4 DEF Hears, Hopeless
    <3> QED
      BY <3>1, <3>2, <3>3 DEF LookupInv, OfThePasted, Candidates
  <2>5. CASE Hears(url, "refused") /\ lookup' = Over("refused", <<>>)
    <3>1. \E i \in DOMAIN Candidates(lookup.input) : <<Candidates(lookup.input)[i], "refused">> \in heard'
      BY <2>2, <2>5 DEF Hears
    <3> QED
      BY <2>5, <3>1, NothingTold
  <2> QED
    BY <1>4, <2>3, <2>4, <2>5 DEF List, url, rest
<1> QED
  BY <1>2, <1>3, <1>4

\* The links of a page, or of a directory, one after the other.
LEMMA VerifyHolds == LookupInv /\ VerifyLink => LookupInv'
<1> SUFFICES ASSUME LookupInv, VerifyLink PROVE LookupInv'
  OBVIOUS
<1> DEFINE link == Head(lookup.left)
           rest == Tail(lookup.left)
           seen == lookup.seen \cup {Normal[link]}
           q == lookup.entries
           next == [lookup EXCEPT !.left = rest, !.seen = seen]
<1>1. /\ lookup.at = "verifying" /\ lookup.left # <<>> /\ lookup \in Lookups
      /\ lookup.left \in Seq(Links) /\ VerifiedTrue(lookup, heard)
  BY PhaseKnown DEF VerifyLink
<1>2. link \in Links /\ rest \in Seq(Links) /\ rest \in Seq(Links \cup Pasted)
  BY <1>1
<1>3. Normal[link] \in Links /\ q \in Seq(Links) /\ lookup.seen \in SUBSET Links
  BY <1>1, <1>2, ProbeAssumption DEF Lookups
<1>4. seen \in SUBSET Links
  BY <1>3
<1>5. /\ \A i \in 1..Len(q) : <<q[i], "rss">> \in heard /\ Normal[q[i]] \in lookup.seen
      /\ \A i, j \in 1..Len(q) : Normal[q[i]] = Normal[q[j]] => i = j
      /\ Hopeless(heard) \/ q # <<>>
  BY <1>1 DEF VerifiedTrue
<1> HIDE DEF link, rest, q
<1>6. next \in Lookups /\ next.at = "verifying" /\ next.left = rest /\ next.seen = seen /\ next.entries = q
  <2> HIDE DEF seen
  <2> QED
    BY <1>1, <1>2, <1>4 DEF Lookups, q
<1> HIDE DEF next
<1>7. ASSUME lookup' = next, heard \subseteq heard', Hopeless(heard) => Hopeless(heard') PROVE LookupInv'
  <2>1. VerifiedTrue(next, heard')
    BY <1>5, <1>6, <1>7 DEF VerifiedTrue
  <2> QED
    BY <1>2, <1>6, <1>7, <2>1 DEF LookupInv, VerifiedTrue
<1>8. CASE Normal[link] \in lookup.seen /\ lookup' = next /\ UNCHANGED heard
  BY <1>7, <1>8
<1>9. CASE Normal[link] \notin lookup.seen /\ Hears(link, "rss") /\ lookup' = [next EXCEPT !.entries = Append(q, link)]
  <2> DEFINE r == Append(q, link)
  <2>1. /\ r \in Seq(Links) /\ Len(r) = Len(q) + 1 /\ Len(q) \in Nat /\ r # <<>> /\ r[Len(q) + 1] = link
        /\ \A i \in 1..Len(q) : r[i] = q[i]
        /\ \A i \in 1..Len(r) : i = Len(q) + 1 \/ i \in 1..Len(q)
    BY <1>2, <1>3
  <2> HIDE DEF r
  <2>2. lookup' \in Lookups /\ lookup'.at = "verifying" /\ lookup'.left = rest /\ lookup'.seen = seen /\ lookup'.entries = r
    <3> HIDE DEF seen
    <3>1. lookup' = [next EXCEPT !.entries = r]
      BY <1>9 DEF r
    <3> QED
      BY <1>6, <2>1, <3>1 DEF Lookups
  <2>3. \A i \in 1..Len(r) : <<r[i], "rss">> \in heard' /\ Normal[r[i]] \in seen
    BY <1>5, <1>9, <2>1 DEF Hears
  <2>4. ASSUME NEW i \in 1..Len(r), NEW j \in 1..Len(r), Normal[r[i]] = Normal[r[j]] PROVE i = j
    <3>1. \A k \in 1..Len(q) : Normal[r[k]] # Normal[link]
      BY <1>5, <1>9, <2>1
    <3> QED
      BY <1>5, <2>1, <2>4, <3>1
  <2>5. VerifiedTrue(lookup', heard')
    BY <2>1, <2>2, <2>3, <2>4 DEF VerifiedTrue
  <2> QED
    BY <1>2, <2>2, <2>5 DEF LookupInv, VerifiedTrue
<1>10. ASSUME NEW said \in {"error", "other", "refused"}, Hears(link, said), lookup' = next PROVE LookupInv'
  <2>1. heard \subseteq heard' /\ (Hopeless(heard) => Hopeless(heard'))
    BY <1>10 DEF Hears, Hopeless
  <2> QED
    BY <1>7, <1>10, <2>1
<1>11. \A said \in {"error", "other", "refused"} : said \in PassedOver
  BY DEF PassedOver
<1> QED
  <2>1. next.entries = q
    BY <1>6
  <2>2. \/ Normal[link] \in lookup.seen /\ lookup' = next /\ UNCHANGED heard
        \/ /\ Normal[link] \notin lookup.seen
           /\ \/ Hears(link, "rss") /\ lookup' = [next EXCEPT !.entries = Append(@, link)]
              \/ \E said \in {"error", "other", "refused"} : Hears(link, said) /\ lookup' = next
    BY <1>11 DEF VerifyLink, link, rest, next
  <2> QED
    BY <1>8, <1>9, <1>10, <2>1, <2>2

LEMMA VerifiedHolds == LookupInv /\ Verified => LookupInv'
<1> SUFFICES ASSUME LookupInv, Verified PROVE LookupInv'
  OBVIOUS
<1> DEFINE q == lookup.entries
<1>1. lookup.at = "verifying" /\ lookup \in Lookups /\ VerifiedTrue(lookup, heard) /\ heard' = heard
  BY PhaseKnown DEF Verified
<1>2. q \in Seq(Links) /\ q \in Seq(Links \cup Pasted)
  BY <1>1 DEF Lookups
<1>3. /\ \A i \in 1..Len(q) : <<q[i], "rss">> \in heard
      /\ \A i, j \in 1..Len(q) : Normal[q[i]] = Normal[q[j]] => i = j
      /\ Hopeless(heard) \/ q # <<>>
  BY <1>1 DEF VerifiedTrue
<1> HIDE DEF q
<1>4. CASE q # <<>>
  <2>1. lookup' = Over("candidates", q)
    BY <1>4 DEF Verified, q
  <2> QED
    BY <1>1, <1>2, <1>3, <2>1, OverTrue
<1>5. CASE q = <<>> /\ lookup.input = "directory"
  <2>1. lookup' = Over("unsupported", <<>>)
    BY <1>5 DEF Verified, q
  <2> QED
    BY <1>1, <1>3, <1>5, <2>1, NothingTold
<1>6. CASE q = <<>> /\ lookup.input # "directory"
  <2>1. lookup' = To("listing", Engines)
    BY <1>6 DEF Verified, q
  <2> QED
    BY <1>1, <1>3, <1>6, <2>1, ListingStarts
<1> QED
  BY <1>4, <1>5, <1>6

LEMMA StartHolds == ASSUME LookupInv, NEW input \in Inputs, StartProbe(input) PROVE LookupInv'
<1>1. PICK links \in IF input = "directory" THEN Advertised ELSE {Candidates(input)} :
        lookup' = [at |-> CASE input = "directory" -> "verifying" [] input = "youtube" -> "listing" [] OTHER -> "fetching",
                   input |-> input, tried |-> FALSE, entries |-> <<>>, seen |-> {},
                   left |-> IF input = "directory" THEN Verifiable(links) ELSE links]
  BY DEF StartProbe
<1>2. heard = {} /\ heard' = {}
  BY PhaseKnown DEF StartProbe
<1>3. Hopeless(heard')
  BY <1>2 DEF Hopeless
<1> DEFINE none == <<>>
<1>4. none \in Seq(Links) /\ Len(none) = 0
  OBVIOUS
<1>5. CASE input = "directory"
  <2> DEFINE q == Verifiable(links)
  <2>1. q \in Seq(Links) /\ q \in Seq(Links \cup Pasted)
    BY <1>1, <1>5, LinksAdvertised
  <2>2. lookup' = [at |-> "verifying", input |-> input, tried |-> FALSE, entries |-> none, seen |-> {}, left |-> q]
    BY <1>1, <1>5
  <2> HIDE DEF q, none
  <2>3. lookup' \in Lookups /\ lookup'.at = "verifying" /\ lookup'.left \in Seq(Links) /\ lookup'.entries = none
    BY <1>4, <2>1, <2>2 DEF Lookups
  <2>4. VerifiedTrue(lookup', heard')
    BY <1>3, <1>4, <2>3 DEF VerifiedTrue
  <2> QED
    BY <2>3, <2>4 DEF LookupInv, VerifiedTrue
<1>6. CASE input # "directory"
  <2> DEFINE q == Candidates(input)
             at == IF input = "youtube" THEN "listing" ELSE "fetching"
  <2>1. q \in Seq(Links \cup Pasted) /\ DOMAIN q = 1..Len(q)
    <3>1. q \in Seq(Pasted)
      BY CandidatesAre
    <3> HIDE DEF q
    <3> QED
      BY <3>1
  <2>2. lookup' = [at |-> at, input |-> input, tried |-> FALSE, entries |-> none, seen |-> {}, left |-> q]
    BY <1>1, <1>6
  <2>5. at \in {"fetching", "listing"}
    OBVIOUS
  <2> HIDE DEF q, none, at
  <2>3. lookup' \in Lookups /\ lookup'.at = at /\ lookup'.left = q /\ lookup'.entries = none /\ lookup'.input = input
    BY <1>4, <2>1, <2>2, <2>5 DEF Lookups
  <2>4. OfThePasted(lookup')
    BY <2>1, <2>3 DEF OfThePasted, q
  <2> QED
    BY <1>3, <2>3, <2>4, <2>5 DEF LookupInv, OfThePasted, none, Candidates
<1> QED
  BY <1>5, <1>6

LEMMA LookupHolds == LookupInv /\ [ProbeNext]_probeVars => LookupInv'
<1> SUFFICES ASSUME LookupInv, [ProbeNext]_probeVars PROVE LookupInv'
  OBVIOUS
<1>1. CASE UNCHANGED <<lookup, heard>>
  BY <1>1 DEF LookupInv, VerifiedTrue, OfThePasted, Hopeless, CandidatesTrue, Candidates
<1> QED
  BY <1>1, StartHolds, FetchHolds, ListingHolds, VerifyHolds, VerifiedHolds
     DEF ProbeNext, fetch_feed, FollowPage, WalkEnds, probeVars

LEMMA LookupSuffices == LookupInv => CandidatesTrue
  BY DEF LookupInv, CandidatesTrue, Lookups

-----------------------------------------------------------------------------
(* Selections: loops over the tokens of a text, the numbers of a range, and  *)
(* what is asked for.                                                        *)

\* A loop has rounds: what the next one makes of the last is a function of it.
Rounds(X, first, N, step, f) ==
    f \in [0..N -> X] /\ f[0] = first /\ \A n \in 1..N : f[n] = step[<<n, f[n - 1]>>]

LEMMA LoopExists ==
    ASSUME NEW X, NEW first \in X, NEW N \in Nat, NEW step \in [(1..N) \X X -> X]
    PROVE  \E f : Rounds(X, first, N, step, f)
<1> DEFINE G == {n \in 0..N : \E f : Rounds(X, first, n, step, f)}
<1>1. 0 \in G
  <2> DEFINE f == [n \in 0..0 |-> first]
  <2>1. f \in [0..0 -> X] /\ f[0] = first /\ \A n \in 1..0 : f[n] = step[<<n, f[n - 1]>>]
    OBVIOUS
  <2> HIDE DEF f
  <2> QED
    BY <2>1 DEF Rounds
<1>2. ASSUME NEW n \in 1..N, n - 1 \in G PROVE n \in G
  <2>1. PICK f : Rounds(X, first, n - 1, step, f)
    BY <1>2
  <2> DEFINE last == step[<<n, f[n - 1]>>]
             g == [k \in 0..n |-> IF k = n THEN last ELSE f[k]]
  <2>2. /\ f \in [0..(n - 1) -> X] /\ f[0] = first
        /\ \A k \in 1..(n - 1) : f[k] = step[<<k, f[k - 1]>>]
    BY <2>1 DEF Rounds
  <2>3. n - 1 \in 0..(n - 1) /\ n \in 0..n /\ 0 \in 0..n /\ n # 0
    OBVIOUS
  <2>4. last \in X
    BY <2>2, <2>3
  <2> HIDE DEF last
  <2>5. \A k \in 0..n : k = n \/ k \in 0..(n - 1)
    OBVIOUS
  <2>6. g \in [0..n -> X]
    BY <2>2, <2>4, <2>5
  <2>7. g[0] = first /\ g[n] = last /\ \A k \in 0..(n - 1) : g[k] = f[k]
    BY <2>2, <2>3
  <2>8. ASSUME NEW k \in 1..n PROVE g[k] = step[<<k, g[k - 1]>>]
    <3>1. k - 1 \in 0..(n - 1)
      OBVIOUS
    <3>2. g[k - 1] = f[k - 1]
      BY <2>7, <3>1
    <3>3. CASE k = n
      BY <2>7, <3>2, <3>3 DEF last
    <3>4. CASE k # n
      <4>1. k \in 1..(n - 1) /\ k \in 0..(n - 1)
        BY <3>4
      <4> QED
        BY <2>2, <2>7, <3>2, <4>1
    <3> QED
      BY <3>3, <3>4
  <2> HIDE DEF g
  <2>9. Rounds(X, first, n, step, g)
    BY <2>6, <2>7, <2>8 DEF Rounds
  <2>10. n \in 0..N
    OBVIOUS
  <2> QED
    BY <2>9, <2>10
<1> HIDE DEF G
<1>3. \A n \in 0..N : n \in G
  BY <1>1, <1>2, EveryRound
<1>4. N \in 0..N
  OBVIOUS
<1> QED
  BY <1>3, <1>4 DEF G

\* What is in a list.
LEMMA AppendFacts ==
    ASSUME NEW S, NEW s \in Seq(S), NEW e \in S
    PROVE  /\ Append(s, e) \in Seq(S) /\ Append(s, e) # <<>>
           /\ Range(Append(s, e)) = Range(s) \cup {e}
           /\ IsInjective(s) /\ e \notin Range(s) => IsInjective(Append(s, e))
           /\ Contains(s, e) <=> e \in Range(s)
           /\ Len(Append(s, e)) = Len(s) + 1
<1> DEFINE t == Append(s, e)
<1>1. /\ t \in Seq(S) /\ Len(t) = Len(s) + 1 /\ Len(s) \in Nat
      /\ DOMAIN s = 1..Len(s) /\ DOMAIN t = 1..(Len(s) + 1)
      /\ t[Len(s) + 1] = e /\ \A i \in 1..Len(s) : t[i] = s[i]
  OBVIOUS
<1> HIDE DEF t
<1>2. Range(t) = {t[i] : i \in 1..(Len(s) + 1)} /\ Range(s) = {s[i] : i \in 1..Len(s)}
  BY <1>1 DEF Range
<1>3. \A i \in 1..(Len(s) + 1) : i = Len(s) + 1 \/ i \in 1..Len(s)
  BY <1>1
<1>4. Len(s) + 1 \in 1..(Len(s) + 1) /\ \A i \in 1..Len(s) : i \in 1..(Len(s) + 1)
  BY <1>1
<1>5. Range(t) = Range(s) \cup {e}
  <2>1. \A x : x \in Range(t) => x \in Range(s) \cup {e}
    BY <1>1, <1>2, <1>3
  <2>2. \A x : x \in Range(s) \cup {e} => x \in Range(t)
    BY <1>1, <1>2, <1>4
  <2> QED
    BY <2>1, <2>2
<1>6. IsInjective(s) /\ e \notin Range(s) => IsInjective(t)
  BY <1>1, <1>2, <1>3 DEF IsInjective
<1>7. Contains(s, e) <=> e \in Range(s)
  BY <1>2 DEF Contains
<1>8. t # <<>>
  BY <1>1
<1> QED
  BY <1>1, <1>5, <1>6, <1>7, <1>8 DEF t

\* A list without repetition is as long as it has elements.
LEMMA LengthCounts ==
    ASSUME NEW S, NEW s \in Seq(S), IsInjective(s)
    PROVE  IsFiniteSet(Range(s)) /\ Cardinality(Range(s)) = Len(s)
<1> DEFINE n == Len(s)
<1>1. n \in Nat /\ s \in [1..n -> S] /\ DOMAIN s = 1..n
  OBVIOUS
<1>2. s \in [1..n -> Range(s)] /\ \A x \in Range(s) : \E i \in 1..n : s[i] = x
  BY <1>1 DEF Range
<1> HIDE DEF n
<1>3. s \in Bijection(1..n, Range(s))
  BY <1>1, <1>2 DEF Bijection, Injection, Surjection, IsInjective
<1>4. ExistsBijection(1..n, Range(s))
  BY <1>3 DEF ExistsBijection
<1>5. IsFiniteSet(Range(s)) /\ Cardinality(Range(s)) = n
  BY <1>1, <1>4, FS_NatBijection, FS_CountingElements
<1> QED
  BY <1>5 DEF n

\* The numbers of a range, and those before it.
SpanLoop(numbers, lo, N, f) ==
    f = [i \in 0..N |-> IF i = 0 THEN numbers ELSE Seen(f[i - 1], lo + i - 1)]

LEMMA SpanFacts ==
    ASSUME NEW numbers \in Seq(Nat), IsInjective(numbers), NEW lo \in Nat, NEW hi \in Nat, lo <= hi
    PROVE  /\ Span(numbers, lo, hi) \in Seq(Nat) /\ IsInjective(Span(numbers, lo, hi))
           /\ Range(Span(numbers, lo, hi)) = Range(numbers) \cup (lo..hi)
<1> DEFINE N == hi - lo + 1
           step == [p \in (1..N) \X Seq(Nat) |-> Seen(p[2], lo + p[1] - 1)]
<1>1. N \in Nat /\ lo + N - 1 = hi
  OBVIOUS
<1>2. \A s \in Seq(Nat), n \in Nat :
          /\ Seen(s, n) \in Seq(Nat) /\ Range(Seen(s, n)) = Range(s) \cup {n}
          /\ IsInjective(s) => IsInjective(Seen(s, n))
  <2> SUFFICES ASSUME NEW s \in Seq(Nat), NEW n \in Nat
               PROVE  /\ Seen(s, n) \in Seq(Nat) /\ Range(Seen(s, n)) = Range(s) \cup {n}
                      /\ IsInjective(s) => IsInjective(Seen(s, n))
    OBVIOUS
  <2>1. /\ Append(s, n) \in Seq(Nat) /\ Range(Append(s, n)) = Range(s) \cup {n}
        /\ IsInjective(s) /\ n \notin Range(s) => IsInjective(Append(s, n))
        /\ Contains(s, n) <=> n \in Range(s)
    BY AppendFacts
  <2>2. CASE Contains(s, n)
    <3>1. Seen(s, n) = s /\ Range(s) = Range(s) \cup {n}
      BY <2>1, <2>2 DEF Seen
    <3> QED
      BY <3>1
  <2>3. CASE ~Contains(s, n)
    <3>1. Seen(s, n) = Append(s, n)
      BY <2>3 DEF Seen
    <3> QED
      BY <2>1, <2>3, <3>1
  <2> QED
    BY <2>2, <2>3
<1>3. step \in [(1..N) \X Seq(Nat) -> Seq(Nat)]
  <2>1. \A p \in (1..N) \X Seq(Nat) : p[2] \in Seq(Nat) /\ lo + p[1] - 1 \in Nat
    BY <1>1
  <2>2. \A p \in (1..N) \X Seq(Nat) : Seen(p[2], lo + p[1] - 1) \in Seq(Nat)
    BY <1>2, <2>1
  <2> QED
    BY <2>2
<1>4. \A n \in 1..N, s \in Seq(Nat) : step[<<n, s>>] = Seen(s, lo + n - 1)
  BY DEF step
<1> HIDE DEF N, step
<1>5. PICK f : Rounds(Seq(Nat), numbers, N, step, f)
  BY <1>1, <1>3, LoopExists
<1>6. f \in [0..N -> Seq(Nat)] /\ f[0] = numbers
      /\ \A n \in 1..N : f[n] = Seen(f[n - 1], lo + n - 1)
  <2>1. f \in [0..N -> Seq(Nat)] /\ f[0] = numbers /\ \A n \in 1..N : f[n] = step[<<n, f[n - 1]>>]
    BY <1>5 DEF Rounds
  <2>2. \A n \in 1..N : n - 1 \in 0..N /\ f[n - 1] \in Seq(Nat)
    BY <1>1, <2>1
  <2> QED
    BY <1>4, <2>1, <2>2
<1>7. \E g : SpanLoop(numbers, lo, N, g)
  <2>1. f = [i \in 0..N |-> f[i]]
    BY <1>6
  <2>2. \A i \in 0..N : f[i] = IF i = 0 THEN numbers ELSE Seen(f[i - 1], lo + i - 1)
    <3>1. \A i \in 0..N : i = 0 \/ i \in 1..N
      BY <1>1
    <3> QED
      BY <1>6, <3>1
  <2>3. SpanLoop(numbers, lo, N, f)
    BY <2>1, <2>2 DEF SpanLoop
  <2> QED
    BY <2>3
<1> DEFINE g == CHOOSE h : SpanLoop(numbers, lo, N, h)
<1>8. SpanLoop(numbers, lo, N, g)
  BY <1>7
<1>9. Span(numbers, lo, hi) = g[N]
  BY DEF Span, SpanLoop, N
<1> HIDE DEF g
<1>10. g[0] = numbers /\ \A n \in 1..N : g[n] = Seen(g[n - 1], lo + n - 1)
  <2>1. 0 \in 0..N /\ \A n \in 1..N : n \in 0..N /\ n # 0
    BY <1>1
  <2>2. \A n \in 0..N : g[n] = IF n = 0 THEN numbers ELSE Seen(g[n - 1], lo + n - 1)
    BY <1>8 DEF SpanLoop
  <2> QED
    BY <2>1, <2>2
<1> DEFINE Holds(n) == /\ g[n] \in Seq(Nat) /\ IsInjective(g[n])
                       /\ Range(g[n]) = Range(numbers) \cup (lo..(lo + n - 1))
           G == {n \in 0..N : Holds(n)}
<1>11. 0 \in G
  <2>1. lo..(lo + 0 - 1) = {} /\ 0 \in 0..N
    BY <1>1
  <2> QED
    BY <2>1, <1>10
<1>12. ASSUME NEW n \in 1..N, n - 1 \in G PROVE n \in G
  <2>1. Holds(n - 1) /\ n \in 0..N
    BY <1>12
  <2>2. lo + n - 1 \in Nat /\ lo..(lo + n - 1) = (lo..(lo + (n - 1) - 1)) \cup {lo + n - 1}
    BY <1>1
  <2>3. g[n] = Seen(g[n - 1], lo + n - 1)
    BY <1>10
  <2>4. /\ g[n] \in Seq(Nat) /\ IsInjective(g[n])
        /\ Range(g[n]) = Range(g[n - 1]) \cup {lo + n - 1}
    <3> DEFINE s == g[n - 1]
               m == lo + n - 1
    <3>1. s \in Seq(Nat) /\ IsInjective(s) /\ m \in Nat /\ g[n] = Seen(s, m)
      BY <2>1, <2>2, <2>3
    <3> HIDE DEF s, m
    <3>2. /\ g[n] \in Seq(Nat) /\ IsInjective(g[n])
          /\ Range(g[n]) = Range(s) \cup {m}
      BY <1>2, <3>1
    <3> QED
      BY <3>2 DEF s, m
  <2>5. Range(g[n]) = Range(numbers) \cup (lo..(lo + n - 1))
    BY <2>1, <2>2, <2>4
  <2> QED
    BY <2>1, <2>4, <2>5
<1>13. N \in G
  <2> HIDE DEF G
  <2>1. \A n \in 0..N : n \in G
    BY <1>1, <1>11, <1>12, EveryRound
  <2>2. N \in 0..N
    BY <1>1
  <2> QED
    BY <2>1, <2>2
<1> QED
  BY <1>1, <1>9, <1>13

-----------------------------------------------------------------------------
\* The tokens of a text, one after the other.
Tokens == {<<>>} \cup Nat \X Nat
Parsed == [numbers : Seq(Nat), errors : Seq(Tokens)]
NoneParsed == [numbers |-> <<>>, errors |-> <<>>]
ParseLoop(tokens, N, f) ==
    f = [i \in 0..N |-> IF i = 0 THEN NoneParsed ELSE ParseToken(f[i - 1], tokens[i])]

\* What the tokens up to one mean.
UpTo(tokens, n) == UNION {tokens[i][1]..tokens[i][2] : i \in 1..n}
Sound(piece) == piece # <<>> /\ 1 <= piece[1] /\ piece[1] <= piece[2]
Excessive(tokens, n) == Cardinality(UpTo(tokens, n - 1)) + tokens[n][2] - tokens[n][1] >= MAX_SELECTION_SIZE

\* A token adds its numbers, or is reported; what a list holds is each number once.
ParsedWell(parsed) == parsed \in Parsed /\ IsInjective(parsed.numbers)
TokenRefused(parsed, piece) == ~Sound(piece) \/ piece[2] - piece[1] + 1 + Len(parsed.numbers) > MAX_SELECTION_SIZE

LEMMA TokenFacts ==
    ASSUME NEW parsed, ParsedWell(parsed), NEW piece \in Tokens
    PROVE  /\ ParsedWell(ParseToken(parsed, piece))
           /\ TokenRefused(parsed, piece) =>
                 /\ ParseToken(parsed, piece).numbers = parsed.numbers
                 /\ ParseToken(parsed, piece).errors # <<>>
           /\ ~TokenRefused(parsed, piece) =>
                 /\ Range(ParseToken(parsed, piece).numbers) = Range(parsed.numbers) \cup (piece[1]..piece[2])
                 /\ ParseToken(parsed, piece).errors = parsed.errors
<1>1. parsed \in Parsed /\ IsInjective(parsed.numbers)
  BY DEF ParsedWell
<1>2. CASE TokenRefused(parsed, piece)
  <2>1. ParseToken(parsed, piece) = [parsed EXCEPT !.errors = Append(parsed.errors, piece)]
    <3>1. piece # <<>> => piece \in Nat \X Nat
      BY DEF Tokens
    <3> QED
      BY <1>2, <3>1 DEF ParseToken, TokenRefused, Sound
  <2>2. Append(parsed.errors, piece) \in Seq(Tokens) /\ Append(parsed.errors, piece) # <<>>
    BY <1>1, AppendFacts DEF Parsed
  <2> QED
    BY <1>1, <1>2, <2>1, <2>2 DEF Parsed, ParsedWell
<1>3. CASE ~TokenRefused(parsed, piece)
  <2>1. piece \in Nat \X Nat /\ piece # <<>> /\ 1 <= piece[1] /\ piece[1] <= piece[2]
    BY <1>3 DEF TokenRefused, Sound, Tokens
  <2>2. ParseToken(parsed, piece) = [parsed EXCEPT !.numbers = Span(parsed.numbers, piece[1], piece[2])]
    BY <1>3, <2>1 DEF ParseToken, TokenRefused
  <2> DEFINE numbers == Span(parsed.numbers, piece[1], piece[2])
  <2>3. /\ numbers \in Seq(Nat) /\ IsInjective(numbers)
        /\ Range(numbers) = Range(parsed.numbers) \cup (piece[1]..piece[2])
    BY <1>1, <2>1, SpanFacts DEF Parsed
  <2> HIDE DEF numbers
  <2> QED
    BY <1>1, <1>3, <2>2, <2>3 DEF Parsed, ParsedWell, numbers
<1> QED
  BY <1>2, <1>3

LEMMA ParseFacts ==
    ASSUME NEW text, text \in [given : BOOLEAN, tokens : Seq(Tokens)]
    PROVE  /\ ParseSelection(text).numbers \in Seq(Nat) /\ IsInjective(ParseSelection(text).numbers)
           /\ ParseSelection(text).errors = <<>> =>
                 /\ WellFormed(text) /\ Range(ParseSelection(text).numbers) = UpTo(text.tokens, Len(text.tokens))
                 /\ \A i \in 1..Len(text.tokens) : ~Excessive(text.tokens, i)
           /\ ParseSelection(text).errors # <<>> =>
                 ~WellFormed(text) \/ \E i \in 1..Len(text.tokens) : Excessive(text.tokens, i)
<1> DEFINE tokens == text.tokens
           N == Len(tokens)
           X == {parsed \in Parsed : ParsedWell(parsed)}
           step == [p \in (1..N) \X X |-> ParseToken(p[2], tokens[p[1]])]
<1>1. N \in Nat /\ tokens \in Seq(Tokens) /\ \A i \in 1..N : tokens[i] \in Tokens
  OBVIOUS
<1> HIDE DEF tokens, N
<1>2. step \in [(1..N) \X X -> X]
  <2>1. \A p \in (1..N) \X X : ParsedWell(p[2]) /\ tokens[p[1]] \in Tokens
    BY <1>1
  <2>2. \A p \in (1..N) \X X : ParseToken(p[2], tokens[p[1]]) \in X
    BY <2>1, TokenFacts DEF ParsedWell
  <2> HIDE DEF X
  <2> QED
    BY <2>2
<1>3. NoneParsed \in X /\ Range(NoneParsed.numbers) = {} /\ NoneParsed.errors = <<>>
  <2>1. IsInjective(<<>>) /\ Range(<<>>) = {}
    BY DEF IsInjective, Range
  <2>2. NoneParsed.numbers = <<>> /\ NoneParsed.errors = <<>>
    BY DEF NoneParsed
  <2>3. NoneParsed \in Parsed
    <3>1. <<>> \in Seq(Nat) /\ <<>> \in Seq(Tokens)
      OBVIOUS
    <3> QED
      BY <3>1 DEF NoneParsed, Parsed
  <2>4. IsInjective(NoneParsed.numbers) /\ Range(NoneParsed.numbers) = {}
    BY <2>1, <2>2
  <2> QED
    BY <2>2, <2>3, <2>4 DEF ParsedWell
<1>4. \A n \in 1..N, x \in X : step[<<n, x>>] = ParseToken(x, tokens[n])
  BY DEF step
<1> HIDE DEF step
<1>5. \A x \in X : ParsedWell(x)
  OBVIOUS
<1> HIDE DEF X
<1>6. PICK f : Rounds(X, NoneParsed, N, step, f)
  BY <1>1, <1>2, <1>3, LoopExists
<1>7. \E g : ParseLoop(tokens, N, g)
  <2>1. f \in [0..N -> X] /\ f[0] = NoneParsed /\ \A n \in 1..N : f[n] = step[<<n, f[n - 1]>>]
    BY <1>6 DEF Rounds
  <2>2. \A n \in 1..N : n - 1 \in 0..N /\ f[n - 1] \in X
    BY <1>1, <2>1
  <2>3. \A n \in 1..N : f[n] = ParseToken(f[n - 1], tokens[n])
    BY <1>4, <2>1, <2>2
  <2>4. \A i \in 0..N : i = 0 \/ i \in 1..N
    BY <1>1
  <2>5. \A i \in 0..N : f[i] = IF i = 0 THEN NoneParsed ELSE ParseToken(f[i - 1], tokens[i])
    BY <2>1, <2>3, <2>4
  <2>6. f = [i \in 0..N |-> f[i]]
    BY <2>1
  <2>7. ParseLoop(tokens, N, f)
    BY <2>5, <2>6 DEF ParseLoop
  <2> QED
    BY <2>7
<1> DEFINE g == CHOOSE h : ParseLoop(tokens, N, h)
           last == g[N]
<1>8. ParseLoop(tokens, N, g)
  BY <1>7
<1>9. ParseSelection(text) = IF text.given /\ tokens = <<>> THEN [last EXCEPT !.errors = <<"empty">>] ELSE last
  BY DEF ParseSelection, ParseLoop, NoneParsed, tokens, N
<1> HIDE DEF g, last
<1>10. g[0] = NoneParsed /\ \A n \in 1..N : g[n] = ParseToken(g[n - 1], tokens[n])
  <2>1. 0 \in 0..N /\ \A n \in 1..N : n \in 0..N /\ n # 0
    BY <1>1
  <2>2. \A n \in 0..N : g[n] = IF n = 0 THEN NoneParsed ELSE ParseToken(g[n - 1], tokens[n])
    BY <1>8 DEF ParseLoop
  <2> QED
    BY <2>1, <2>2
<1> DEFINE Good(n) == /\ Range(g[n].numbers) = UpTo(tokens, n)
                      /\ \A i \in 1..n : Sound(tokens[i]) /\ ~Excessive(tokens, i)
           Bad(n) == \E i \in 1..n : ~Sound(tokens[i]) \/ Excessive(tokens, i)
           Holds(n) == /\ ParsedWell(g[n])
                       /\ g[n].errors = <<>> => Good(n)
                       /\ g[n].errors # <<>> => Bad(n)
           G == {n \in 0..N : Holds(n)}
<1>11. 0 \in G
  <2>1. UpTo(tokens, 0) = {} /\ 0 \in 0..N
    BY <1>1 DEF UpTo
  <2>2. ParsedWell(g[0]) /\ g[0].errors = <<>> /\ Range(g[0].numbers) = {}
    BY <1>3, <1>5, <1>10
  <2>3. Good(0)
    <3>1. \A i \in 1..0 : FALSE
      OBVIOUS
    <3> QED
      BY <2>1, <2>2, <3>1
  <2> HIDE DEF Good, Bad
  <2> QED
    BY <2>1, <2>2, <2>3
<1>12. ASSUME NEW n \in 1..N, n - 1 \in G PROVE n \in G
  <2> DEFINE before == g[n - 1]
             piece == tokens[n]
  <2>1. n \in 0..N /\ piece \in Tokens /\ n \in Nat /\ n - 1 \in Nat
    BY <1>1
  <2>2. Holds(n - 1)
    BY <1>12
  <2>3. g[n] = ParseToken(before, piece)
    BY <1>10
  <2>4. ParsedWell(before) /\ ParsedWell(g[n])
    BY <2>1, <2>2, <2>3, TokenFacts
  <2>5. \A i \in 1..n : i = n \/ i \in 1..(n - 1)
    BY <2>1
  <2>i. n \in 1..n /\ \A i \in 1..(n - 1) : i \in 1..n
    BY <2>1
  <2>6. CASE before.errors # <<>>
    <3>1. g[n].errors # <<>>
      <4>1. before.errors \in Seq(Tokens)
        BY <2>4 DEF ParsedWell, Parsed
      <4>2. CASE TokenRefused(before, piece)
        BY <2>1, <2>3, <2>4, <4>2, TokenFacts
      <4>3. CASE ~TokenRefused(before, piece)
        <5>1. g[n].errors = before.errors
          BY <2>1, <2>3, <2>4, <4>3, TokenFacts
        <5> QED
          BY <2>6, <5>1
      <4> QED
        BY <4>2, <4>3
    <3>2. Bad(n)
      BY <2>2, <2>6, <2>i
    <3> QED
      BY <2>1, <2>4, <3>1, <3>2
  <2>7. CASE before.errors = <<>>
    <3>1. Good(n - 1)
      BY <2>2, <2>7
    <3>2. Len(before.numbers) = Cardinality(UpTo(tokens, n - 1)) /\ Len(before.numbers) \in Nat
      <4>1. before.numbers \in Seq(Nat) /\ IsInjective(before.numbers)
        BY <2>4 DEF ParsedWell, Parsed
      <4>2. Cardinality(Range(before.numbers)) = Len(before.numbers) /\ Len(before.numbers) \in Nat
        BY <4>1, LengthCounts
      <4> QED
        BY <3>1, <4>2
    <3>3. Sound(piece) => (TokenRefused(before, piece) <=> Excessive(tokens, n))
      <4>1. Sound(piece) => piece[1] \in Nat /\ piece[2] \in Nat
        BY <2>1 DEF Sound, Tokens
      <4>2. MAX_SELECTION_SIZE \in Nat
        BY SelectionsAssumption
      <4>3. \A a, b, c, m \in Nat : (b - a + 1 + c > m) <=> (c + b - a >= m)
        OBVIOUS
      <4> HIDE DEF before
      <4> QED
        BY <3>2, <4>1, <4>2, <4>3 DEF TokenRefused, Excessive, piece
    <3>4. CASE TokenRefused(before, piece)
      <4>1. g[n].errors # <<>>
        BY <2>1, <2>3, <2>4, <3>4, TokenFacts
      <4>2. ~Sound(piece) \/ Excessive(tokens, n)
        BY <3>3, <3>4
      <4> QED
        BY <2>1, <2>4, <2>i, <4>1, <4>2
    <3>5. CASE ~TokenRefused(before, piece)
      <4>1. /\ g[n].errors = <<>>
            /\ Range(g[n].numbers) = Range(before.numbers) \cup (piece[1]..piece[2])
        BY <2>1, <2>3, <2>4, <2>7, <3>5, TokenFacts
      <4>2. UpTo(tokens, n) = UpTo(tokens, n - 1) \cup (piece[1]..piece[2])
        BY <2>5, <2>i DEF UpTo
      <4>3. Sound(piece) /\ ~Excessive(tokens, n)
        BY <3>3, <3>5 DEF TokenRefused
      <4>4. Good(n)
        BY <2>5, <3>1, <4>1, <4>2, <4>3
      <4> QED
        BY <2>1, <2>4, <4>1, <4>4
    <3> QED
      BY <3>4, <3>5
  <2> QED
    BY <2>6, <2>7
<1>13. Holds(N)
  <2> HIDE DEF G
  <2>1. \A n \in 0..N : n \in G
    BY <1>1, <1>11, <1>12, EveryRound
  <2>2. N \in 0..N
    BY <1>1
  <2> QED
    BY <2>1, <2>2 DEF G
<1>14. WellFormed(text) <=> (\A i \in 1..N : Sound(tokens[i])) /\ (text.given => tokens # <<>>)
  <2>1. DOMAIN text.tokens = 1..N
    BY <1>1 DEF N, tokens
  <2> QED
    BY <2>1 DEF WellFormed, Sound, tokens
<1>15. /\ last.numbers \in Seq(Nat) /\ IsInjective(last.numbers)
       /\ [last EXCEPT !.errors = <<"empty">>].numbers = last.numbers
       /\ [last EXCEPT !.errors = <<"empty">>].errors = <<"empty">> /\ <<"empty">> # <<>>
  BY <1>13 DEF last, ParsedWell, Parsed
<1>16. CASE text.given /\ tokens = <<>>
  <2>1. ~WellFormed(text)
    BY <1>14, <1>16
  <2> QED
    BY <1>9, <1>15, <1>16, <2>1
<1>17. CASE ~(text.given /\ tokens = <<>>)
  <2>1. ParseSelection(text) = last
    BY <1>9, <1>17
  <2>2. last.errors = <<>> => Good(N)
    BY <1>13 DEF last
  <2>3. last.errors # <<>> => Bad(N)
    BY <1>13 DEF last
  <2>4. Range(last.numbers) = Range(g[N].numbers)
    BY DEF last
  <2> QED
    BY <1>14, <1>15, <1>17, <2>1, <2>2, <2>3, <2>4 DEF N, tokens
<1> QED
  BY <1>16, <1>17

\* What the module says of a text, token by token.
LEMMA TextFacts ==
    ASSUME NEW text, text \in [given : BOOLEAN, tokens : Seq(Tokens)]
    PROVE  /\ Denoted(text) = UpTo(text.tokens, Len(text.tokens))
           /\ TooLarge(text) <=> \E i \in 1..Len(text.tokens) : Excessive(text.tokens, i)
<1> DEFINE tokens == text.tokens
           N == Len(tokens)
<1>1. N \in Nat /\ tokens \in Seq(Tokens) /\ DOMAIN tokens = 1..N
  OBVIOUS
<1>2. Denoted(text) = UpTo(tokens, N)
  BY <1>1 DEF Denoted, UpTo
<1>3. ASSUME NEW i \in 1..N
      PROVE  Denoted([text EXCEPT !.tokens = SubSeq(tokens, 1, i - 1)]) = UpTo(tokens, i - 1)
  <2> DEFINE front == SubSeq(tokens, 1, i - 1)
             cut == [text EXCEPT !.tokens = front]
  <2>1. cut.tokens = front
    OBVIOUS
  <2>2. DOMAIN front = 1..(i - 1) /\ \A k \in 1..(i - 1) : front[k] = tokens[k]
    BY <1>1
  <2> HIDE DEF front, cut
  <2>3. Denoted(cut) = UpTo(tokens, i - 1)
    BY <2>1, <2>2 DEF Denoted, UpTo
  <2> QED
    BY <2>3 DEF cut, front
<1>4. TooLarge(text) <=> \E i \in 1..N : Excessive(tokens, i)
  BY <1>1, <1>3 DEF TooLarge, Excessive
<1> QED
  BY <1>2, <1>4

\* A finite set listed.
LEMMA SetListed ==
    ASSUME NEW S, IsFiniteSet(S)
    PROVE  SetToSeq(S) \in Seq(S) /\ Range(SetToSeq(S)) = S
<1> DEFINE n == Cardinality(S)
           s == SetToSeq(S)
<1>1. n \in Nat /\ ExistsBijection(1..n, S)
  BY FS_CardinalityType
<1>2. PICK f \in Bijection(1..n, S) : TRUE
  BY <1>1 DEF ExistsBijection
<1>3. f \in [1..n -> S] /\ IsInjective(f)
  BY <1>2 DEF Bijection, Injection, IsInjective
<1>4. s \in [1..n -> S] /\ IsInjective(s)
  BY <1>3 DEF SetToSeq
<1> HIDE DEF s
<1>5. s \in Seq(S)
  BY <1>1, <1>4
<1>6. Len(s) = n /\ Range(s) \subseteq S
  BY <1>1, <1>4, <1>5 DEF Range
<1>7. Cardinality(Range(s)) = Cardinality(S)
  BY <1>4, <1>5, <1>6, LengthCounts
<1>8. Range(s) = S
  BY <1>6, <1>7, FS_Subset
<1> QED
  BY <1>5, <1>8 DEF s

-----------------------------------------------------------------------------
\* What is asked for, one after the other.
Idents == Videos \cup {"ghost"}
Queries == ({"number"} \X Nat) \cup ({"id"} \X Idents)
Takings == [resolved : Seq(Videos), unresolved : Seq(Queries)]
TakeLoop(asked, numbering, N, f) ==
    f = [i \in 0..N |-> IF i = 0 THEN Nothing ELSE Take(f[i - 1], AskedFor(asked[i], numbering), asked[i])]
TakenWell(found) == found \in Takings /\ IsInjective(found.resolved)
AtMostOne(candidates) == candidates \subseteq Videos /\ \A v, w \in candidates : v = w
Unplaced(candidates, asked) == IF candidates = {} THEN {asked} ELSE {}

LEMMA TakeFacts ==
    ASSUME NEW found, TakenWell(found), NEW candidates, AtMostOne(candidates), NEW asked \in Queries
    PROVE  /\ TakenWell(Take(found, candidates, asked))
           /\ Range(Take(found, candidates, asked).resolved) = Range(found.resolved) \cup candidates
           /\ Range(Take(found, candidates, asked).unresolved) =
                  Range(found.unresolved) \cup Unplaced(candidates, asked)
<1>1. found \in Takings /\ IsInjective(found.resolved)
  BY DEF TakenWell
<1>2. CASE candidates = {}
  <2>1. Take(found, candidates, asked) = [found EXCEPT !.unresolved = Append(found.unresolved, asked)]
    BY <1>2 DEF Take
  <2>2. /\ Append(found.unresolved, asked) \in Seq(Queries)
        /\ Range(Append(found.unresolved, asked)) = Range(found.unresolved) \cup {asked}
    BY <1>1, AppendFacts DEF Takings
  <2>3. Unplaced(candidates, asked) = {asked}
    BY <1>2 DEF Unplaced
  <2> QED
    BY <1>1, <1>2, <2>1, <2>2, <2>3 DEF Takings, TakenWell
<1>3. CASE candidates # {}
  <2> DEFINE v == CHOOSE w \in candidates : TRUE
  <2>1. v \in candidates /\ candidates = {v} /\ v \in Videos
    BY <1>3 DEF AtMostOne
  <2>2. Take(found, candidates, asked) = IF Contains(found.resolved, v) THEN found
                                         ELSE [found EXCEPT !.resolved = Append(found.resolved, v)]
    BY <1>3 DEF Take
  <2>e. Unplaced(candidates, asked) = {} /\ Range(found.unresolved) = Range(found.unresolved) \cup {}
    BY <1>3 DEF Unplaced
  <2> HIDE DEF v
  <2>3. /\ Append(found.resolved, v) \in Seq(Videos)
        /\ Range(Append(found.resolved, v)) = Range(found.resolved) \cup {v}
        /\ v \notin Range(found.resolved) => IsInjective(Append(found.resolved, v))
        /\ Contains(found.resolved, v) <=> v \in Range(found.resolved)
    BY <1>1, <2>1, AppendFacts DEF Takings
  <2>4. CASE Contains(found.resolved, v)
    <3>1. Range(found.resolved) = Range(found.resolved) \cup candidates
      BY <2>1, <2>3, <2>4
    <3> QED
      BY <1>1, <2>2, <2>4, <2>e, <3>1 DEF TakenWell
  <2>5. CASE ~Contains(found.resolved, v)
    BY <1>1, <2>1, <2>2, <2>3, <2>5, <2>e DEF Takings, TakenWell
  <2> QED
    BY <2>4, <2>5
<1> QED
  BY <1>2, <1>3

LEMMA ResolveFacts ==
    ASSUME NEW asked \in Seq(Queries), NEW numbering,
           \A i \in 1..Len(asked) : AtMostOne(AskedFor(asked[i], numbering))
    PROVE  /\ TakenWell(ResolveSelection(asked, numbering))
           /\ Range(ResolveSelection(asked, numbering).resolved) =
                  UNION {AskedFor(asked[i], numbering) : i \in 1..Len(asked)}
           /\ Range(ResolveSelection(asked, numbering).unresolved) =
                  {asked[i] : i \in {j \in 1..Len(asked) : AskedFor(asked[j], numbering) = {}}}
<1> DEFINE N == Len(asked)
           X == {found \in Takings : TakenWell(found)}
           step == [p \in (1..N) \X X |-> Take(p[2], AskedFor(asked[p[1]], numbering), asked[p[1]])]
<1>1. N \in Nat /\ \A i \in 1..N : asked[i] \in Queries /\ AtMostOne(AskedFor(asked[i], numbering))
  OBVIOUS
<1> HIDE DEF N
<1>2. step \in [(1..N) \X X -> X]
  <2>1. \A p \in (1..N) \X X : /\ TakenWell(p[2]) /\ asked[p[1]] \in Queries
                               /\ AtMostOne(AskedFor(asked[p[1]], numbering))
    BY <1>1
  <2>2. \A p \in (1..N) \X X : TakenWell(Take(p[2], AskedFor(asked[p[1]], numbering), asked[p[1]]))
    BY <2>1, TakeFacts
  <2>3. \A p \in (1..N) \X X : Take(p[2], AskedFor(asked[p[1]], numbering), asked[p[1]]) \in X
    BY <2>2 DEF TakenWell
  <2> HIDE DEF X
  <2> QED
    BY <2>3
<1>3. /\ Nothing \in X /\ TakenWell(Nothing)
      /\ Range(Nothing.resolved) = {} /\ Range(Nothing.unresolved) = {}
  <2>1. IsInjective(<<>>) /\ Range(<<>>) = {}
    BY DEF IsInjective, Range
  <2>2. Nothing.resolved = <<>> /\ Nothing.unresolved = <<>>
    BY DEF Nothing
  <2>3. Nothing \in Takings
    <3>1. <<>> \in Seq(Videos) /\ <<>> \in Seq(Queries)
      OBVIOUS
    <3> QED
      BY <3>1 DEF Nothing, Takings
  <2>4. IsInjective(Nothing.resolved) /\ Range(Nothing.resolved) = {} /\ Range(Nothing.unresolved) = {}
    BY <2>1, <2>2
  <2> QED
    BY <2>3, <2>4 DEF TakenWell
<1>4. \A n \in 1..N, x \in X : step[<<n, x>>] = Take(x, AskedFor(asked[n], numbering), asked[n])
  BY DEF step
<1> HIDE DEF step, X
<1>6. PICK f : Rounds(X, Nothing, N, step, f)
  BY <1>1, <1>2, <1>3, LoopExists
<1>7. \E g : TakeLoop(asked, numbering, N, g)
  <2>1. f \in [0..N -> X] /\ f[0] = Nothing /\ \A n \in 1..N : f[n] = step[<<n, f[n - 1]>>]
    BY <1>6 DEF Rounds
  <2>2. \A n \in 1..N : n - 1 \in 0..N /\ f[n - 1] \in X
    BY <1>1, <2>1
  <2>3. \A n \in 1..N : f[n] = Take(f[n - 1], AskedFor(asked[n], numbering), asked[n])
    BY <1>4, <2>1, <2>2
  <2>4. \A i \in 0..N : i = 0 \/ i \in 1..N
    BY <1>1
  <2>5. \A i \in 0..N : f[i] = IF i = 0 THEN Nothing
                               ELSE Take(f[i - 1], AskedFor(asked[i], numbering), asked[i])
    BY <2>1, <2>3, <2>4
  <2>6. f = [i \in 0..N |-> f[i]]
    BY <2>1
  <2>7. TakeLoop(asked, numbering, N, f)
    BY <2>5, <2>6 DEF TakeLoop
  <2> QED
    BY <2>7
<1> DEFINE g == CHOOSE h : TakeLoop(asked, numbering, N, h)
<1>8. TakeLoop(asked, numbering, N, g)
  BY <1>7
<1>9. ResolveSelection(asked, numbering) = g[N]
  BY DEF ResolveSelection, TakeLoop, N
<1> HIDE DEF g
<1>10. g[0] = Nothing /\ \A n \in 1..N : g[n] = Take(g[n - 1], AskedFor(asked[n], numbering), asked[n])
  <2>1. 0 \in 0..N /\ \A n \in 1..N : n \in 0..N /\ n # 0
    BY <1>1
  <2>2. \A n \in 0..N : g[n] = IF n = 0 THEN Nothing
                               ELSE Take(g[n - 1], AskedFor(asked[n], numbering), asked[n])
    BY <1>8 DEF TakeLoop
  <2> QED
    BY <2>1, <2>2
<1> DEFINE Meanings(n) == UNION {AskedFor(asked[i], numbering) : i \in 1..n}
           Missed(n) == {asked[i] : i \in {j \in 1..n : AskedFor(asked[j], numbering) = {}}}
           Holds(n) == /\ TakenWell(g[n]) /\ Range(g[n].resolved) = Meanings(n)
                       /\ Range(g[n].unresolved) = Missed(n)
           G == {n \in 0..N : Holds(n)}
<1>11. 0 \in G
  <2>1. 0 \in 0..N /\ Meanings(0) = {} /\ Missed(0) = {}
    BY <1>1
  <2> HIDE DEF Meanings, Missed
  <2> QED
    BY <1>3, <1>10, <2>1
<1>12. ASSUME NEW n \in 1..N, n - 1 \in G PROVE n \in G
  <2> DEFINE before == g[n - 1]
             meaning == AskedFor(asked[n], numbering)
  <2>1. n \in 0..N /\ n \in Nat
    BY <1>1
  <2>h. TakenWell(before) /\ Range(before.resolved) = Meanings(n - 1) /\ Range(before.unresolved) = Missed(n - 1)
    <3> HIDE DEF Meanings, Missed
    <3> QED
      BY <1>12
  <2>2. \A i \in 1..n : i = n \/ i \in 1..(n - 1)
    BY <2>1
  <2>3. n \in 1..n /\ \A i \in 1..(n - 1) : i \in 1..n
    BY <2>1
  <2>4. Meanings(n) = Meanings(n - 1) \cup meaning
    BY <2>2, <2>3
  <2>5. Missed(n) = Missed(n - 1) \cup Unplaced(meaning, asked[n])
    BY <2>2, <2>3 DEF Unplaced
  <2>6. g[n] = Take(before, meaning, asked[n]) /\ asked[n] \in Queries /\ AtMostOne(meaning) /\ TakenWell(before)
    BY <1>1, <1>10, <2>h
  <2> HIDE DEF before, meaning, Meanings, Missed
  <2>8. /\ TakenWell(g[n]) /\ Range(g[n].resolved) = Range(before.resolved) \cup meaning
        /\ Range(g[n].unresolved) = Range(before.unresolved) \cup Unplaced(meaning, asked[n])
    <3> DEFINE one == asked[n]
    <3>1. g[n] = Take(before, meaning, one) /\ one \in Queries /\ AtMostOne(meaning) /\ TakenWell(before)
      BY <2>6
    <3> HIDE DEF one
    <3> DEFINE took == Take(before, meaning, one)
    <3>2. TakenWell(took)
      BY <3>1, TakeFacts
    <3>3. Range(took.resolved) = Range(before.resolved) \cup meaning
      BY <3>1, TakeFacts
    <3>4. Range(took.unresolved) = Range(before.unresolved) \cup Unplaced(meaning, one)
      BY <3>1, TakeFacts
    <3> QED
      BY <3>1, <3>2, <3>3, <3>4 DEF one
  <2>9. Holds(n)
    BY <2>4, <2>5, <2>8, <2>h
  <2> QED
    BY <2>1, <2>9
<1>13. Holds(N)
  <2> HIDE DEF G
  <2>1. \A n \in 0..N : n \in G
    BY <1>1, <1>11, <1>12, EveryRound
  <2>2. N \in 0..N
    BY <1>1
  <2> QED
    BY <2>1, <2>2 DEF G
<1> QED
  BY <1>9, <1>13 DEF N

\* A list of the numbers asked for and then the ids.
LEMMA RequestedFacts ==
    ASSUME NEW numbers \in Seq(Nat), NEW idents \in Seq(Idents)
    PROVE  /\ Requested(numbers, idents) \in Seq(Queries)
           /\ {Requested(numbers, idents)[i] : i \in 1..Len(Requested(numbers, idents))} =
                  ({"number"} \X Range(numbers)) \cup ({"id"} \X Range(idents))
<1> DEFINE m == Len(numbers)
           k == Len(idents)
           first == [i \in 1..m |-> <<"number", numbers[i]>>]
           second == [i \in 1..k |-> <<"id", idents[i]>>]
           all == first \o second
<1>1. m \in Nat /\ k \in Nat /\ DOMAIN numbers = 1..m /\ DOMAIN idents = 1..k
  OBVIOUS
<1>2. /\ \A i \in 1..m : numbers[i] \in Nat /\ <<"number", numbers[i]>> \in Queries
      /\ \A i \in 1..k : idents[i] \in Idents /\ <<"id", idents[i]>> \in Queries
  BY DEF Queries
<1>n. Range(numbers) = {numbers[i] : i \in 1..m} /\ Range(idents) = {idents[i] : i \in 1..k}
  BY <1>1 DEF Range
<1> HIDE DEF m, k
<1>3. first \in Seq(Queries) /\ second \in Seq(Queries)
  BY <1>1, <1>2
<1>4. Len(first) = m /\ Len(second) = k
  BY <1>1
<1>5. /\ \A i \in 1..m : first[i] = <<"number", numbers[i]>>
      /\ \A i \in 1..k : second[i] = <<"id", idents[i]>>
  OBVIOUS
<1> HIDE DEF first, second
<1>6. /\ all \in Seq(Queries) /\ Len(all) = m + k
      /\ \A i \in 1..(m + k) : all[i] = IF i <= m THEN first[i] ELSE second[i - m]
  <2>1. /\ all \in Seq(Queries) /\ Len(all) = Len(first) + Len(second)
        /\ \A i \in 1..(Len(first) + Len(second)) :
              all[i] = IF i <= Len(first) THEN first[i] ELSE second[i - Len(first)]
    BY <1>3
  <2> HIDE DEF all
  <2> QED
    BY <1>4, <2>1
<1> HIDE DEF all
<1>7. \A i \in 1..(m + k) : IF i <= m THEN i \in 1..m ELSE i - m \in 1..k
  BY <1>1
<1>8. \A i \in 1..m : i \in 1..(m + k) /\ i <= m
  BY <1>1
<1>9. \A i \in 1..k : i + m \in 1..(m + k) /\ ~(i + m <= m) /\ i + m - m = i
  BY <1>1
<1> DEFINE A == {all[i] : i \in 1..(m + k)}
           B == ({"number"} \X Range(numbers)) \cup ({"id"} \X Range(idents))
<1>10. ASSUME NEW x \in A PROVE x \in B
  <2>1. PICK i \in 1..(m + k) : x = all[i]
    OBVIOUS
  <2>2. CASE i <= m
    <3>1. i \in 1..m /\ x = <<"number", numbers[i]>>
      BY <1>5, <1>6, <1>7, <2>1, <2>2
    <3> QED
      BY <1>n, <3>1
  <2>3. CASE ~(i <= m)
    <3>1. i - m \in 1..k /\ x = <<"id", idents[i - m]>>
      BY <1>5, <1>6, <1>7, <2>1, <2>3
    <3> QED
      BY <1>n, <3>1
  <2> QED
    BY <2>2, <2>3
<1>11. ASSUME NEW x \in B PROVE x \in A
  <2>1. CASE x \in {"number"} \X Range(numbers)
    <3>1. PICK i \in 1..m : x = <<"number", numbers[i]>>
      BY <1>n, <2>1
    <3>2. x = all[i]
      BY <1>5, <1>6, <1>8, <3>1
    <3> QED
      BY <1>8, <3>2
  <2>2. CASE x \in {"id"} \X Range(idents)
    <3>1. PICK i \in 1..k : x = <<"id", idents[i]>>
      BY <1>n, <2>2
    <3> DEFINE j == i + m
    <3>2. j \in 1..(m + k) /\ ~(j <= m) /\ j - m = i
      BY <1>1
    <3> HIDE DEF j
    <3>3. x = all[j]
      BY <1>5, <1>6, <3>1, <3>2
    <3> QED
      BY <3>2, <3>3
  <2> QED
    BY <2>1, <2>2
<1>12. A = B
  <2> HIDE DEF A, B
  <2> QED
    BY <1>10, <1>11
<1>13. Requested(numbers, idents) = all
  BY DEF Requested, all, first, second, m, k
<1> QED
  BY <1>6, <1>12, <1>13

-----------------------------------------------------------------------------
(* The Catalog: what holds of its rows.                                      *)

EntryStates == {"none", "available", "wanted", "archived", "failed", "blocked", "deleted"}
EntryRows == [ordinal : Nat, number : Nat, date : Nat, approximate : BOOLEAN,
              state : EntryStates, listed : BOOLEAN]
BulkPhases == {NoBulk} \cup [at : {"found"}, ids : SUBSET Videos]

\* A row is blank until it is in the Catalog, and dates that are called exact are.
RowTrue(v, r) ==
    /\ r.ordinal = 0 => r.date = 0
    /\ r.ordinal # 0 => r.state # "none"
    /\ r.date # 0 /\ ~r.approximate => r.date = TrueDate[v]
    /\ sort = "rss" => ~r.approximate

SelectionsInv ==
    /\ sort \in SourceKinds
    /\ entry \in [Videos -> EntryRows]
    /\ queued \subseteq InCatalog
    /\ bulk \in BulkPhases
    /\ \A v \in Videos : RowTrue(v, entry[v])
    /\ \A v, w \in InCatalog : entry[v].ordinal = entry[w].ordinal => v = w

LEMMA SelectionsStart == SelectionsInit => SelectionsInv
<1> SUFFICES ASSUME SelectionsInit PROVE SelectionsInv
  OBVIOUS
<1>1. NoEntry \in EntryRows
  BY DEF NoEntry, EntryRows, EntryStates
<1>2. \A v \in Videos : entry[v] = NoEntry
  BY DEF SelectionsInit
<1>3. entry \in [Videos -> EntryRows]
  BY <1>1 DEF SelectionsInit
<1>4. InCatalog = {}
  BY <1>2 DEF InCatalog, NoEntry
<1>5. \A v \in Videos : RowTrue(v, entry[v])
  BY <1>2 DEF RowTrue, NoEntry
<1> QED
  BY <1>3, <1>4, <1>5 DEF SelectionsInv, SelectionsInit, BulkPhases

\* A number means one item at most.
LEMMA MeantIsOne ==
    ASSUME SelectionsInv, NEW n, NEW numbering
    PROVE  AtMostOne(Meant(n, numbering)) /\ Meant(n, numbering) \subseteq InCatalog
<1>1. InCatalog \subseteq Videos /\ IsFiniteSet(BySource(n))
  <2>1. IsFiniteSet(Videos) /\ BySource(n) \subseteq Videos
    BY SelectionsAssumption DEF BySource, InCatalog
  <2> QED
    BY <2>1, FS_Subset DEF InCatalog
<1>2. AtMostOne(ByOrdinal(n)) /\ ByOrdinal(n) \subseteq InCatalog
  BY <1>1 DEF SelectionsInv, AtMostOne, ByOrdinal
<1>3. BySource(n) \subseteq InCatalog /\ (Cardinality(BySource(n)) = 1 => AtMostOne(BySource(n)))
  <2>1. Cardinality(BySource(n)) = 1 => \E x : BySource(n) = {x}
    BY <1>1, FS_Singleton
  <2> QED
    BY <1>1, <2>1 DEF AtMostOne, BySource
<1> QED
  BY <1>2, <1>3 DEF Meant

-----------------------------------------------------------------------------
\* What a selection finds is what it names.
SelectionRequests == [text : [given : BOOLEAN, tokens : Seq(Tokens)], idents : Seq(Idents),
                      numbering : {"source", "ordinal"}, dry_run : BOOLEAN]
FoundFor(request) ==
    ResolveSelection(Requested(ParseSelection(request.text).numbers, request.idents), request.numbering)

LEMMA NamedFacts ==
    ASSUME SelectionsInv, NEW request \in SelectionRequests, ParseSelection(request.text).errors = <<>>
    PROVE  /\ TakenWell(FoundFor(request)) /\ Range(FoundFor(request).resolved) = Named(request)
           /\ \A n \in Denoted(request.text) :
                 Contains(FoundFor(request).unresolved, <<"number", n>>) <=> Meant(n, request.numbering) = {}
<1> DEFINE numbers == ParseSelection(request.text).numbers
           idents == request.idents
           numbering == request.numbering
           asked == Requested(numbers, idents)
           found == FoundFor(request)
           Means(q) == AskedFor(q, numbering)
           all == ({"number"} \X Range(numbers)) \cup ({"id"} \X Range(idents))
<1>1. request.text \in [given : BOOLEAN, tokens : Seq(Tokens)] /\ idents \in Seq(Idents)
  BY DEF SelectionRequests
<1>2. numbers \in Seq(Nat) /\ Range(numbers) = Denoted(request.text)
  BY <1>1, ParseFacts, TextFacts
<1>3. found = ResolveSelection(asked, numbering)
  BY DEF FoundFor
<1> HIDE DEF numbers, idents, numbering, found
<1>4. asked \in Seq(Queries) /\ {asked[i] : i \in 1..Len(asked)} = all
  BY <1>1, <1>2, RequestedFacts
<1>5. \A n : Means(<<"number", n>>) = Meant(n, numbering)
  BY DEF AskedFor
<1>6. \A x : Means(<<"id", x>>) = InCatalog \cap {x}
  BY DEF AskedFor
<1> HIDE DEF asked
<1>7. \A q \in all : AtMostOne(Means(q))
  <2>1. ASSUME NEW n PROVE AtMostOne(Means(<<"number", n>>))
    <3>1. AtMostOne(Meant(n, numbering))
      BY MeantIsOne
    <3> HIDE DEF Means
    <3> QED
      BY <1>5, <3>1
  <2>2. \A x : AtMostOne(Means(<<"id", x>>))
    BY <1>6 DEF AtMostOne, InCatalog
  <2> HIDE DEF Means
  <2> QED
    BY <2>1, <2>2
<1>8. \A i \in 1..Len(asked) : asked[i] \in all
  BY <1>4
<1>9. \A i \in 1..Len(asked) : AtMostOne(AskedFor(asked[i], numbering))
  BY <1>7, <1>8
<1>10. /\ TakenWell(found)
       /\ Range(found.resolved) = UNION {Means(asked[i]) : i \in 1..Len(asked)}
       /\ Range(found.unresolved) = {asked[i] : i \in {j \in 1..Len(asked) : Means(asked[j]) = {}}}
  BY <1>3, <1>4, <1>9, ResolveFacts
<1> HIDE DEF Means
<1>11. Range(found.resolved) = UNION {Means(q) : q \in all}
  BY <1>4, <1>10
<1>12. Range(found.unresolved) = {q \in all : Means(q) = {}}
  BY <1>4, <1>10
<1>13. UNION {Means(q) : q \in all} = Named(request)
  <2> DEFINE A == UNION {Means(q) : q \in all}
  <2>1. Named(request) = (Range(idents) \cap InCatalog) \cup UNION {Meant(n, numbering) : n \in Range(numbers)}
    BY <1>2 DEF Named, idents, numbering
  <2>2. \A v : v \in A => v \in Named(request)
    BY <1>5, <1>6, <2>1
  <2>3. ASSUME NEW v \in Named(request) PROVE v \in A
    <3>1. CASE v \in Range(idents) \cap InCatalog
      <4>1. <<"id", v>> \in all /\ v \in Means(<<"id", v>>)
        BY <1>6, <3>1
      <4> QED
        BY <4>1
    <3>2. CASE v \in UNION {Meant(n, numbering) : n \in Range(numbers)}
      <4>1. PICK n \in Range(numbers) : v \in Meant(n, numbering)
        BY <3>2
      <4>2. <<"number", n>> \in all /\ v \in Means(<<"number", n>>)
        BY <1>5, <4>1
      <4> QED
        BY <4>2
    <3> QED
      BY <2>1, <3>1, <3>2
  <2> HIDE DEF A
  <2>4. A = Named(request)
    BY <2>2, <2>3
  <2> QED
    BY <2>4 DEF A
<1>14. ASSUME NEW n \in Range(numbers)
       PROVE  Contains(found.unresolved, <<"number", n>>) <=> Meant(n, numbering) = {}
  <2>1. found.unresolved \in Seq(Queries)
    BY <1>10 DEF TakenWell, Takings
  <2>2. Contains(found.unresolved, <<"number", n>>) <=> <<"number", n>> \in Range(found.unresolved)
    BY <2>1 DEF Contains, Range
  <2>3. <<"number", n>> \in all
    OBVIOUS
  <2> QED
    BY <1>5, <1>12, <2>2, <2>3
<1> QED
  BY <1>2, <1>10, <1>11, <1>13, <1>14 DEF found, numbering

-----------------------------------------------------------------------------
(* The steps: most leave the Ordinals, and give a date only if it is exact.  *)

RowStands(v, r, s) ==
    /\ s \in EntryRows /\ s.ordinal = r.ordinal
    /\ r.ordinal = 0 => s = r
    /\ r.ordinal # 0 => s.state # "none"
    /\ \/ s.date = r.date /\ s.approximate = r.approximate
       \/ s.date = TrueDate[v] /\ ~s.approximate
RowsStand ==
    /\ sort' = sort /\ entry' = [v \in Videos |-> entry'[v]]
    /\ \A v \in Videos : RowStands(v, entry[v], entry'[v])

LEMMA RowsStandEnough ==
    ASSUME SelectionsInv, RowsStand, queued' \subseteq InCatalog, bulk' \in BulkPhases
    PROVE  SelectionsInv' /\ OrdinalsStand /\ DatesStand
<1>1. /\ sort \in SourceKinds /\ entry \in [Videos -> EntryRows]
      /\ \A v \in Videos : RowTrue(v, entry[v])
      /\ \A v, w \in InCatalog : entry[v].ordinal = entry[w].ordinal => v = w
  BY DEF SelectionsInv
<1>2. /\ sort' = sort /\ entry' \in [Videos -> EntryRows]
      /\ \A v \in Videos : RowStands(v, entry[v], entry'[v])
  <2>1. \A v \in Videos : entry'[v] \in EntryRows
    BY DEF RowsStand, RowStands
  <2> QED
    BY <2>1 DEF RowsStand
<1>3. \A v \in Videos : /\ entry[v] \in EntryRows /\ entry'[v] \in EntryRows
                        /\ entry'[v].ordinal = entry[v].ordinal
  BY <1>1, <1>2 DEF RowStands
<1>4. InCatalog' = InCatalog
  BY <1>3 DEF InCatalog
<1>5. \A v \in Videos : RowTrue(v, entry[v])'
  <2> TAKE v \in Videos
  <2>1. RowTrue(v, entry[v]) /\ RowStands(v, entry[v], entry'[v]) /\ sort' = sort
    BY <1>1, <1>2
  <2> QED
    BY <1>3, <2>1 DEF RowTrue, RowStands, EntryRows
<1>6. SelectionsInv'
  <2>1. (\A v, w \in InCatalog : entry[v].ordinal = entry[w].ordinal => v = w)'
    BY <1>1, <1>3, <1>4 DEF InCatalog
  <2>2. (queued \subseteq InCatalog)' /\ (bulk \in BulkPhases)'
    BY <1>4 DEF BulkPhases, NoBulk
  <2> QED
    BY <1>1, <1>2, <1>5, <2>1, <2>2 DEF SelectionsInv
<1>7. OrdinalsStand
  <2> DEFINE brought == {v \in Videos : entry[v].ordinal = 0 /\ entry'[v].ordinal # 0}
  <2>1. brought = {}
    BY <1>3
  <2>2. \A v, w \in Videos : v # w /\ entry'[v].ordinal # 0 => entry'[v].ordinal # entry'[w].ordinal
    <3>1. \A v, w \in Videos : v # w /\ entry[v].ordinal # 0 => entry[v].ordinal # entry[w].ordinal
      BY <1>1 DEF InCatalog
    <3> QED
      BY <1>3, <3>1
  <2>3. \A v \in InCatalog : entry'[v].ordinal = entry[v].ordinal
    BY <1>3 DEF InCatalog
  <2> QED
    BY <2>1, <2>2, <2>3 DEF OrdinalsStand
<1>8. DatesStand
  <2> SUFFICES ASSUME NEW v \in Videos
               PROVE  /\ entry'[v].date # 0 /\ ~entry'[v].approximate => entry'[v].date = TrueDate[v]
                      /\ entry[v].date # 0 =>
                            \/ entry'[v].date = entry[v].date /\ (entry'[v].approximate => entry[v].approximate)
                            \/ entry[v].approximate /\ ~entry'[v].approximate
    BY DEF DatesStand
  <2> DEFINE r == entry[v]
             s == entry'[v]
  <2>1. RowTrue(v, r) /\ RowStands(v, r, s) /\ r \in EntryRows /\ s \in EntryRows
    BY <1>1, <1>2, <1>3
  <2> HIDE DEF r, s
  <2>2. s.date # 0 /\ ~s.approximate => s.date = TrueDate[v]
    BY <2>1 DEF RowTrue, RowStands
  <2>3. r.date # 0 => \/ s.date = r.date /\ (s.approximate => r.approximate)
                      \/ r.approximate /\ ~s.approximate
    BY <2>1 DEF RowTrue, RowStands, EntryRows
  <2> QED
    BY <2>2, <2>3 DEF r, s
<1> QED
  BY <1>6, <1>7, <1>8

\* Nothing was said before the first selection, and each step forgets it.
LEMMA NothingSaid == picked' = NoPick => SelectedExactly
  BY DEF SelectedExactly

\* What holds of every step.
StepTrue == SelectionsInv' /\ OrdinalsStand /\ DatesStand /\ SelectedExactly

\* One row changes, and nothing is said.
LEMMA OneRowChanges ==
    ASSUME SelectionsInv, NEW v \in InCatalog, NEW r, RowStands(v, entry[v], r),
           entry' = [entry EXCEPT ![v] = r], sort' = sort,
           queued' \subseteq InCatalog, bulk' = bulk, picked' = NoPick
    PROVE  StepTrue
<1>1. v \in Videos /\ entry \in [Videos -> EntryRows] /\ bulk \in BulkPhases
  BY DEF SelectionsInv, InCatalog
<1>2. \A w \in Videos : RowStands(w, entry[w], entry'[w])
  BY <1>1 DEF RowStands, EntryRows, SelectionsInv, RowTrue
<1>3. RowsStand
  BY <1>1, <1>2 DEF RowsStand
<1> QED
  BY <1>1, <1>3, RowsStandEnough, NothingSaid DEF StepTrue

LEMMA JobEndsTrue == ASSUME SelectionsInv, NEW v \in Videos, JobEnds(v) PROVE StepTrue
<1>1. /\ v \in queued /\ v \in InCatalog /\ queued' \subseteq InCatalog
      /\ entry \in [Videos -> EntryRows] /\ RowTrue(v, entry[v])
  BY DEF JobEnds, SelectionsInv
<1>2. UNCHANGED <<sort, bulk>> /\ picked' = NoPick
  BY DEF JobEnds
<1> DEFINE r == entry[v]
<1>3. r \in EntryRows /\ r.ordinal # 0 /\ TrueDate[v] \in Nat \ {0}
  BY <1>1, SelectionsAssumption DEF InCatalog
<1>4. CASE entry' = [entry EXCEPT ![v] = [Dated(@, InfoDate(v)) EXCEPT !.state = "archived"]]
  <2> DEFINE s == [Dated(r, InfoDate(v)) EXCEPT !.state = "archived"]
  <2>1. entry' = [entry EXCEPT ![v] = s]
    BY <1>1, <1>4
  <2>2. RowTrue(v, r)
    BY <1>1
  <2>3. InfoDate(v) = IF sort = "rss" THEN r.date ELSE TrueDate[v]
    BY DEF InfoDate
  <2>4. RowStands(v, r, s)
    <3> HIDE DEF r
    <3> QED
      BY <1>3, <2>2, <2>3 DEF RowStands, RowTrue, Dated, EntryRows, EntryStates
  <2> HIDE DEF s
  <2>5. RowStands(v, entry[v], s)
    BY <2>4
  <2> QED
    BY <1>1, <1>2, <2>1, <2>5, OneRowChanges
<1>5. ASSUME NEW said \in {"failed", "blocked"}, entry' = [entry EXCEPT ![v].state = said] PROVE StepTrue
  <2> DEFINE s == [r EXCEPT !.state = said]
  <2>1. entry' = [entry EXCEPT ![v] = s]
    BY <1>1, <1>5
  <2>2. RowStands(v, r, s)
    <3> HIDE DEF r
    <3> QED
      BY <1>3 DEF RowStands, EntryRows, EntryStates
  <2> HIDE DEF s
  <2> QED
    BY <1>1, <1>2, <2>1, <2>2, OneRowChanges
<1> QED
  BY <1>4, <1>5 DEF JobEnds

LEMMA DeleteItemTrue == ASSUME SelectionsInv, NEW v \in Videos, DeleteItem(v) PROVE StepTrue
<1>1. v \in InCatalog /\ entry \in [Videos -> EntryRows] /\ queued' \subseteq InCatalog
  BY DEF DeleteItem, SelectionsInv
<1>2. UNCHANGED <<sort, bulk>> /\ picked' = NoPick
  BY DEF DeleteItem
<1> DEFINE r == entry[v]
           s == [r EXCEPT !.state = "deleted", !.listed = TRUE]
<1>3. r \in EntryRows
  BY <1>1
<1>4. entry' = [entry EXCEPT ![v] = s]
  BY <1>1 DEF DeleteItem
<1>5. RowStands(v, r, s)
  <2>1. r.ordinal # 0
    BY <1>1 DEF InCatalog
  <2> HIDE DEF r
  <2> QED
    BY <1>3, <2>1 DEF RowStands, EntryRows, EntryStates
<1> HIDE DEF s
<1> QED
  BY <1>1, <1>2, <1>4, <1>5, OneRowChanges

LEMMA FetchItemMetadataTrue == ASSUME SelectionsInv, NEW v \in Videos, FetchItemMetadata(v) PROVE StepTrue
<1>1. /\ v \in InCatalog /\ entry \in [Videos -> EntryRows] /\ queued' \subseteq InCatalog
      /\ RowTrue(v, entry[v])
  BY DEF FetchItemMetadata, SelectionsInv
<1>2. UNCHANGED <<sort, bulk>> /\ picked' = NoPick
  BY DEF FetchItemMetadata
<1> DEFINE r == entry[v]
           s == Dated(r, TrueDate[v])
<1>3. r \in EntryRows /\ r.ordinal # 0 /\ TrueDate[v] \in Nat \ {0} /\ RowTrue(v, r)
  BY <1>1, SelectionsAssumption DEF InCatalog
<1>4. entry' = [entry EXCEPT ![v] = s]
  BY <1>1 DEF FetchItemMetadata
<1>5. RowStands(v, r, s)
  <2> HIDE DEF r
  <2> QED
    BY <1>3 DEF RowStands, RowTrue, Dated, EntryRows, EntryStates
<1> HIDE DEF s
<1> QED
  BY <1>1, <1>2, <1>4, <1>5, OneRowChanges

LEMMA FoundTrue == ASSUME SelectionsInv, ArchiveAvailable \/ RetryFailed PROVE StepTrue
<1>1. PICK ids : ids \subseteq Videos /\ Found(ids)
  BY DEF ArchiveAvailable, RetryFailed, AvailableIds, FailedIds, InCatalog
<1>2. /\ UNCHANGED <<sort, entry, queued>> /\ picked' = NoPick /\ bulk' \in BulkPhases
  BY <1>1 DEF Found, BulkPhases
<1>3. RowsStand /\ queued' \subseteq InCatalog
  <2>1. \A v \in Videos : RowStands(v, entry[v], entry[v])
    BY DEF SelectionsInv, RowStands, RowTrue
  <2> QED
    BY <1>2, <2>1 DEF SelectionsInv, RowsStand
<1> QED
  BY <1>2, <1>3, RowsStandEnough, NothingSaid DEF StepTrue

\* A selection does what it names (ApplySelection), and no more.
LEMMA ApplyTrue ==
    ASSUME SelectionsInv, NEW request \in SelectionRequests, NEW strict \in BOOLEAN,
           ApplySelection(request, strict), sort' = sort, bulk' \in BulkPhases
    PROVE  StepTrue
<1> DEFINE parsed == ParseSelection(request.text)
           found == FoundFor(request)
           named == Named(request)
           chosen == Range(found.resolved)
           table == WantManually(entry, chosen)
           already == Cardinality({v \in chosen : entry[v].state = "archived"})
           NoErrors == parsed.errors = <<>>
           AnswersWith(outcome, said) ==
               picked' = [request |-> request, outcome |-> outcome, resolved |-> said.resolved,
                          unresolved |-> said.unresolved,
                          already |-> Cardinality({v \in Range(said.resolved) : entry[v].state = "archived"})]
           Left == entry' = entry /\ queued' = queued
<1>1. /\ ~NoErrors => AnswersWith("invalid", Nothing) /\ Left
      /\ NoErrors /\ request.dry_run => AnswersWith("dry", found) /\ Left
      /\ NoErrors /\ ~request.dry_run /\ strict /\ chosen = {} => AnswersWith("invalid", found) /\ Left
      /\ NoErrors /\ ~request.dry_run /\ ~(strict /\ chosen = {}) =>
            /\ AnswersWith("done", found) /\ entry' = table
            /\ queued' = queued \cup {v \in chosen : table[v].state = "wanted"}
  BY DEF ApplySelection, Responds, FoundFor
<1>2. request.text \in [given : BOOLEAN, tokens : Seq(Tokens)]
  BY DEF SelectionRequests
<1>3. /\ ~NoErrors => ~WellFormed(request.text) \/ TooLarge(request.text)
      /\ NoErrors => WellFormed(request.text) /\ ~TooLarge(request.text)
  BY <1>2, ParseFacts, TextFacts
<1>4. NoErrors => /\ chosen = named /\ IsInjective(found.resolved)
                  /\ \A n \in Denoted(request.text) :
                        Contains(found.unresolved, <<"number", n>>) <=> Meant(n, request.numbering) = {}
  BY NamedFacts DEF TakenWell
<1>5. named \subseteq InCatalog
  BY MeantIsOne DEF Named
<1>6. /\ entry \in [Videos -> EntryRows] /\ queued \subseteq InCatalog
      /\ \A v \in Videos : RowTrue(v, entry[v])
  BY DEF SelectionsInv
<1> DEFINE WantedRow(v) == IF v \in chosen /\ (Rewanted(entry[v], v) \/ entry[v].state = "blocked")
                           THEN [entry[v] EXCEPT !.state = "wanted"] ELSE entry[v]
<1>7. table = [v \in Videos |-> WantedRow(v)]
  BY DEF WantManually
<1>8. NoErrors => /\ picked'.request = request
                  /\ picked'.resolved = found.resolved /\ picked'.unresolved = found.unresolved
                  /\ picked'.already = Cardinality({v \in named : entry[v].state = "archived"})
  <2> SUFFICES ASSUME NoErrors
               PROVE  /\ picked'.request = request
                      /\ picked'.resolved = found.resolved /\ picked'.unresolved = found.unresolved
                      /\ picked'.already = Cardinality({v \in named : entry[v].state = "archived"})
    OBVIOUS
  <2>1. \E outcome : AnswersWith(outcome, found)
    BY <1>1
  <2>2. chosen = named
    BY <1>4
  <2> HIDE DEF found, named
  <2> QED
    BY <2>1, <2>2
<1> HIDE DEF table, found, named, parsed
<1>9. CASE ~NoErrors \/ request.dry_run \/ (strict /\ chosen = {})
  <2>1. Left
    BY <1>1, <1>9
  <2>2. RowsStand /\ queued' \subseteq InCatalog
    <3>1. \A v \in Videos : RowStands(v, entry[v], entry[v])
      BY <1>6 DEF RowStands, RowTrue
    <3> QED
      BY <1>6, <2>1, <3>1 DEF RowsStand
  <2>3. SelectedExactly
    <3>1. CASE ~NoErrors
      <4>1. picked'.outcome = "invalid" /\ picked'.request = request
        BY <1>1, <3>1
      <4> QED
        BY <1>3, <2>1, <3>1, <4>1 DEF SelectedExactly
    <3>2. CASE NoErrors /\ request.dry_run
      <4>1. picked'.outcome = "dry"
        BY <1>1, <3>2
      <4> QED
        BY <1>3, <1>4, <1>8, <2>1, <3>2, <4>1 DEF SelectedExactly, named
    <3>3. CASE NoErrors /\ ~request.dry_run /\ strict /\ chosen = {}
      <4>1. picked'.outcome = "invalid" /\ picked'.request = request
        BY <1>1, <3>3
      <4>2. named = {}
        BY <1>4, <3>3
      <4> QED
        BY <2>1, <4>1, <4>2 DEF SelectedExactly, named
    <3> QED
      BY <1>9, <3>1, <3>2, <3>3
  <2> QED
    BY <2>2, <2>3, RowsStandEnough DEF StepTrue
<1>10. CASE NoErrors /\ ~request.dry_run /\ ~(strict /\ chosen = {})
  <2>1. /\ picked'.outcome = "done" /\ entry' = table
        /\ queued' = queued \cup {v \in chosen : table[v].state = "wanted"}
    BY <1>1, <1>10
  <2>2. \A v \in Videos : entry'[v] = WantedRow(v)
    BY <1>7, <2>1
  <2>3. chosen = named /\ named \subseteq InCatalog /\ named \subseteq Videos
    BY <1>4, <1>5, <1>10 DEF InCatalog
  <2>4. ASSUME NEW v \in Videos
        PROVE  /\ RowStands(v, entry[v], entry'[v])
               /\ v \notin chosen \/ entry[v].state = "archived" => entry'[v] = entry[v]
               /\ v \in chosen /\ entry[v].state # "archived" /\ v \notin Unrecorded =>
                      entry'[v].state = "wanted"
    <3> DEFINE r == entry[v]
    <3>1. r \in EntryRows /\ RowTrue(v, r) /\ (v \in chosen => r.ordinal # 0)
      BY <1>6, <2>3 DEF InCatalog
    <3>2. entry'[v] = IF v \in chosen /\ (Rewanted(r, v) \/ r.state = "blocked")
                      THEN [r EXCEPT !.state = "wanted"] ELSE r
      BY <2>2
    <3> HIDE DEF r
    <3>3. RowStands(v, r, entry'[v])
      BY <3>1, <3>2 DEF RowStands, RowTrue, EntryRows, EntryStates
    <3>4. v \notin chosen \/ r.state = "archived" => entry'[v] = r
      BY <3>2 DEF Rewanted
    <3>5. v \in chosen /\ r.state # "archived" /\ v \notin Unrecorded => entry'[v].state = "wanted"
      BY <3>1, <3>2 DEF Rewanted, EntryRows, EntryStates, RowTrue
    <3> QED
      BY <3>3, <3>4, <3>5 DEF r
  <2>5. RowsStand /\ queued' \subseteq InCatalog
    <3>1. entry' = [v \in Videos |-> entry'[v]]
      BY <1>7, <2>1
    <3>2. queued' \subseteq InCatalog
      BY <1>6, <2>1, <2>3
    <3> QED
      BY <2>4, <3>1, <3>2 DEF RowsStand
  <2>6. \A v \in Videos \ named : entry'[v] = entry[v] /\ (v \in queued' <=> v \in queued)
    BY <2>1, <2>3, <2>4
  <2>7. \A v \in named : /\ entry[v].state = "archived" => entry'[v] = entry[v]
                         /\ entry[v].state # "archived" /\ v \notin Unrecorded =>
                                entry'[v].state = "wanted" /\ v \in queued'
    BY <2>1, <2>3, <2>4
  <2>8. SelectedExactly
    BY <1>3, <1>4, <1>8, <1>10, <2>1, <2>6, <2>7 DEF SelectedExactly, named
  <2> QED
    BY <2>5, <2>8, RowsStandEnough DEF StepTrue
<1> QED
  BY <1>9, <1>10

LEMMA SelectItemsTrue == ASSUME SelectionsInv, SelectItems PROVE StepTrue
<1>1. PICK request \in Selectable : ApplySelection(request, TRUE)
  BY DEF SelectItems
<1>2. sort' = sort /\ bulk' \in BulkPhases
  BY DEF SelectItems, SelectionsInv
<1>3. request \in SelectionRequests
  BY SelectionsAssumption DEF SelectionRequests, Tokens, Idents
<1> QED
  BY <1>1, <1>2, <1>3, ApplyTrue

LEMMA ArchiveIdsTrue == ASSUME SelectionsInv, ArchiveIds PROVE StepTrue
<1> DEFINE idents == SetToSeq(bulk.ids)
           request == [text |-> [given |-> FALSE, tokens |-> <<>>], idents |-> idents,
                       numbering |-> "source", dry_run |-> FALSE]
<1>1. ApplySelection(request, FALSE) /\ sort' = sort /\ bulk' \in BulkPhases
  BY DEF ArchiveIds, BulkPhases
<1>2. bulk.ids \subseteq Videos
  BY DEF ArchiveIds, SelectionsInv, BulkPhases
<1>3. idents \in Seq(Idents)
  <2>1. IsFiniteSet(bulk.ids)
    BY <1>2, SelectionsAssumption, FS_Subset
  <2>2. idents \in Seq(bulk.ids)
    BY <2>1, SetListed
  <2> HIDE DEF idents
  <2> QED
    BY <1>2, <2>2 DEF Idents
<1>4. request \in SelectionRequests
  <2> HIDE DEF idents
  <2>1. <<>> \in Seq(Tokens)
    OBVIOUS
  <2> QED
    BY <1>3, <2>1 DEF SelectionRequests
<1> HIDE DEF request
<1> QED
  BY <1>1, <1>4, ApplyTrue

-----------------------------------------------------------------------------
(* A listing: places, dates and Ordinals.                                    *)

\* A finite set of numbers has a greatest.
LEMMA GreatestGiven ==
    ASSUME NEW U \in SUBSET Nat, IsFiniteSet(U), U # {}
    PROVE  \E m \in U : \A x \in U : x <= m
<1> DEFINE Above(m) == {x \in U : m < x}
           Beyond(m) == Cardinality(Above(m))
           I == {Beyond(m) : m \in U}
<1>1. \A m \in U : IsFiniteSet(Above(m)) /\ Beyond(m) \in Nat
  BY FS_Subset, FS_CardinalityType
<1>2. I \in SUBSET Nat /\ I # {}
  <2> HIDE DEF Beyond
  <2> QED
    BY <1>1
<1>3. Min(I) \in I /\ \A n \in I : Min(I) <= n
  <2> HIDE DEF I
  <2> QED
    BY <1>2, MinIsLeast
<1>4. PICK m \in U : Beyond(m) = Min(I)
  BY <1>3
<1>5. ASSUME NEW x \in U, m < x PROVE FALSE
  <2>1. Above(x) \subseteq Above(m) \ {x} /\ x \in Above(m)
    <3>1. \A y \in U : x < y => m < y /\ y # x
      BY <1>5
    <3> QED
      BY <1>5, <3>1
  <2>2. IsFiniteSet(Above(m) \ {x}) /\ Cardinality(Above(m) \ {x}) = Beyond(m) - 1
    <3> HIDE DEF Above
    <3> QED
      BY <1>1, <2>1, FS_RemoveElement DEF Beyond
  <2>3. Beyond(x) <= Beyond(m) - 1
    <3> HIDE DEF Above
    <3> QED
      BY <2>1, <2>2, FS_Subset DEF Beyond
  <2>4. Beyond(x) \in Nat /\ Beyond(m) \in Nat /\ Beyond(m) <= Beyond(x)
    BY <1>1, <1>3, <1>4
  <2> HIDE DEF Beyond
  <2> QED
    BY <2>3, <2>4
<1> QED
  BY <1>5

\* Ranks in a strict order follow it.
RankIn(S, R, v) == Cardinality({u \in S : <<u, v>> \in R})

LEMMA RanksFollow ==
    ASSUME NEW S, IsFiniteSet(S), NEW R,
           \A v \in S : <<v, v>> \notin R,
           \A u, v, w \in S : <<u, v>> \in R /\ <<v, w>> \in R => <<u, w>> \in R
    PROVE  /\ \A v \in S : RankIn(S, R, v) \in Nat
           /\ \A v, w \in S : <<v, w>> \in R => RankIn(S, R, v) < RankIn(S, R, w)
<1> DEFINE Under(v) == {u \in S : <<u, v>> \in R}
<1>1. \A v \in S : IsFiniteSet(Under(v)) /\ Cardinality(Under(v)) \in Nat
  BY FS_Subset, FS_CardinalityType
<1>2. ASSUME NEW v \in S, NEW w \in S, <<v, w>> \in R
      PROVE  Cardinality(Under(v)) < Cardinality(Under(w))
  <2>1. Under(v) \subseteq Under(w) /\ v \in Under(w) /\ v \notin Under(v)
    BY <1>2
  <2>2. IsFiniteSet(Under(w)) /\ Cardinality(Under(w)) \in Nat /\ Cardinality(Under(v)) \in Nat
    BY <1>1
  <2> HIDE DEF Under
  <2>3. Cardinality(Under(v)) <= Cardinality(Under(w)) /\ Cardinality(Under(v)) # Cardinality(Under(w))
    BY <2>1, <2>2, FS_Subset
  <2> QED
    BY <2>2, <2>3
<1>3. \A v \in S : RankIn(S, R, v) = Cardinality(Under(v))
  BY DEF RankIn
<1> HIDE DEF Under
<1> QED
  BY <1>1, <1>2, <1>3

\* Each item of a listing has a place of its own; by date, in all but a playlist.
LEMMA PlaceFacts ==
    ASSUME NEW served \in Served
    PROVE  /\ Range(served) \subseteq Videos
           /\ \A v \in Range(served) : Position(served, v) \in Nat
           /\ \A v, w \in Range(served) : Position(served, v) = Position(served, w) => v = w
           /\ sort # "playlist" => \A v, w \in Range(served) :
                  Position(served, v) < Position(served, w) => TrueDate[v] > TrueDate[w]
<1>1. PICK n \in Nat : served \in [1..n -> Videos]
  <2>1. 1..Cardinality(Videos) \subseteq Nat
    OBVIOUS
  <2> QED
    BY <2>1 DEF Served
<1>2. DOMAIN served = 1..n /\ Range(served) = {served[i] : i \in 1..n}
  BY <1>1 DEF Range
<1>3. \A v \in Range(served) : Position(served, v) \in 1..n /\ served[Position(served, v)] = v
  BY <1>2 DEF Position
<1>4. sort # "playlist" => \A i, j \in 1..n : i < j => TrueDate[served[i]] > TrueDate[served[j]]
  BY <1>2 DEF Served
<1> QED
  BY <1>1, <1>2, <1>3, <1>4

\* What a listing says of an item.
FoundTruly(v, said) ==
    /\ said.number \in Nat /\ said.date \in Nat /\ said.exact \in BOOLEAN
    /\ said.date # 0 /\ said.exact => said.date = TrueDate[v]
    /\ sort = "rss" => said.exact

LEMMA ListingFacts ==
    ASSUME NEW served \in Served, NEW guess \in Guesses, NEW fed \in BOOLEAN,
           NEW listing, listing = IF fed THEN Enriched(Normalized(served, guess), FeedEntries(served))
                                  ELSE Normalized(served, guess)
    PROVE  \A v \in Range(served) : /\ FoundTruly(v, listing[v])
                                    /\ sort = "playlist" => listing[v].number = Position(served, v)
<1> SUFFICES ASSUME NEW v \in Range(served)
             PROVE  FoundTruly(v, listing[v]) /\ (sort = "playlist" => listing[v].number = Position(served, v))
  OBVIOUS
<1> DEFINE flat == Normalized(served, guess)
           said == flat[v]
<1>1. /\ v \in Videos /\ Position(served, v) \in Nat /\ guess[v] \in Nat /\ TrueDate[v] \in Nat
      /\ Episode[v] \in Nat
  BY PlaceFacts, SelectionsAssumption
<1>2. said = [number |-> CASE sort = "rss" -> Episode[v]
                           [] sort = "playlist" -> Position(served, v)
                           [] OTHER -> 0,
              date   |-> IF sort = "rss" /\ guess[v] # 0 THEN TrueDate[v] ELSE guess[v],
              exact  |-> sort = "rss" \/ guess[v] = 0]
  BY DEF Normalized
<1>3. /\ said.number = IF sort = "rss" THEN Episode[v] ELSE IF sort = "playlist" THEN Position(served, v) ELSE 0
      /\ said.date = IF sort = "rss" /\ guess[v] # 0 THEN TrueDate[v] ELSE guess[v]
      /\ said.exact \in BOOLEAN /\ (said.exact <=> sort = "rss" \/ guess[v] = 0)
  <2> HIDE DEF said
  <2>1. said.number = CASE sort = "rss" -> Episode[v]
                        [] sort = "playlist" -> Position(served, v)
                        [] OTHER -> 0
    BY <1>2
  <2>2. said.date = IF sort = "rss" /\ guess[v] # 0 THEN TrueDate[v] ELSE guess[v]
    BY <1>2
  <2>3. said.exact \in BOOLEAN /\ (said.exact <=> sort = "rss" \/ guess[v] = 0)
    BY <1>2
  <2> QED
    BY <2>1, <2>2, <2>3
<1>4. DOMAIN flat = Range(served)
  BY DEF Normalized
<1>5. listing[v] = said \/ listing[v] = [said EXCEPT !.date = TrueDate[v], !.exact = TRUE]
  <2> HIDE DEF flat
  <2> QED
    BY <1>4 DEF Enriched, flat
<1>6. DOMAIN said = {"number", "date", "exact"}
  BY <1>2
<1> DEFINE dated == [said EXCEPT !.date = TrueDate[v], !.exact = TRUE]
<1> HIDE DEF said
<1>7. FoundTruly(v, said) /\ (sort = "playlist" => said.number = Position(served, v))
  BY <1>1, <1>3 DEF FoundTruly
<1>8. dated.number = said.number /\ dated.date = TrueDate[v] /\ dated.exact = TRUE
  BY <1>6
<1> HIDE DEF dated
<1>9. FoundTruly(v, dated) /\ (sort = "playlist" => dated.number = Position(served, v))
  BY <1>1, <1>7, <1>8 DEF FoundTruly
<1> QED
  BY <1>5, <1>7, <1>9 DEF dated

\* The highest Ordinal there is.
LEMMA MaxOrdinalIs ==
    ASSUME SelectionsInv, Videos # {}
    PROVE  MaxOrdinal \in Nat /\ \A v \in Videos : entry[v].ordinal <= MaxOrdinal
<1> DEFINE given == {entry[v].ordinal : v \in Videos}
<1>1. given \in SUBSET Nat /\ given # {}
  BY DEF SelectionsInv, EntryRows
<1>2. IsFiniteSet(given)
  <2> DEFINE f == [v \in Videos |-> entry[v].ordinal]
  <2>1. f \in Surjection(Videos, given)
    BY DEF Surjection
  <2> HIDE DEF f
  <2> QED
    BY <2>1, SelectionsAssumption, FS_Surjection
<1> HIDE DEF given
<1>3. \E m \in given : \A x \in given : x <= m
  BY <1>1, <1>2, GreatestGiven
<1>4. MaxOrdinal \in given /\ \A x \in given : x <= MaxOrdinal
  BY <1>3 DEF MaxOrdinal, given
<1> QED
  BY <1>1, <1>4 DEF given

\* What a listing brings is numbered after all there was, in its order.
LEMMA OrdinalFacts ==
    ASSUME SelectionsInv, NEW served \in Served, NEW listing,
           \A v \in Range(served) : FoundTruly(v, listing[v]),
           NEW brought, brought = Range(served) \ InCatalog,
           NEW numbers, numbers = AssignOrdinals(served, listing)
    PROVE  /\ DOMAIN numbers = brought
           /\ \A v \in brought : numbers[v] \in Nat /\ \A w \in Videos : entry[w].ordinal < numbers[v]
           /\ \A v, w \in brought : OldestFirst(served, listing, brought, v, w) => numbers[v] < numbers[w]
           /\ \A v, w \in brought : numbers[v] = numbers[w] => v = w
<1> DEFINE Before(v, w) == OldestFirst(served, listing, brought, v, w)
           R == {p \in brought \X brought : Before(p[1], p[2])}
           Place(v) == RankIn(brought, R, v)
<1>1. /\ \A v \in brought : v \in Videos /\ listing[v].date \in Nat /\ Position(served, v) \in Nat
      /\ \A v, w \in brought : Position(served, v) = Position(served, w) => v = w
  BY PlaceFacts DEF FoundTruly
<1>2. IsFiniteSet(brought)
  BY <1>1, SelectionsAssumption, FS_Subset
<1>3. \A v, w \in brought : <<v, w>> \in R <=> Before(v, w)
  OBVIOUS
<1>4. /\ \A v \in brought : ~Before(v, v)
      /\ \A u, v, w \in brought : Before(u, v) /\ Before(v, w) => Before(u, w)
      /\ \A v, w \in brought : v = w \/ Before(v, w) \/ Before(w, v)
  BY <1>1 DEF OldestFirst, ByPosition
<1> HIDE DEF Before, R
<1>5. /\ \A v \in brought : Place(v) \in Nat
      /\ \A v, w \in brought : Before(v, w) => Place(v) < Place(w)
  <2>1. \A v \in brought : <<v, v>> \notin R
    BY <1>3, <1>4
  <2>2. \A u, v, w \in brought : <<u, v>> \in R /\ <<v, w>> \in R => <<u, w>> \in R
    BY <1>3, <1>4
  <2>3. /\ \A v \in brought : Place(v) \in Nat
        /\ \A v, w \in brought : <<v, w>> \in R => Place(v) < Place(w)
    BY <1>2, <2>1, <2>2, RanksFollow
  <2> HIDE DEF Place
  <2> QED
    BY <1>3, <2>3
<1>6. \A v \in brought : numbers[v] = MaxOrdinal + Place(v) + 1
  <2>1. \A v \in brought : {w \in brought : Before(w, v)} = {u \in brought : <<u, v>> \in R}
    BY <1>3
  <2> QED
    BY <2>1 DEF AssignOrdinals, Before, RankIn
<1>7. DOMAIN numbers = brought
  BY DEF AssignOrdinals
<1> HIDE DEF Place
<1>8. brought # {} => MaxOrdinal \in Nat /\ \A v \in Videos : entry[v].ordinal <= MaxOrdinal
  BY <1>1, MaxOrdinalIs
<1>9. \A w \in Videos : entry[w].ordinal \in Nat
  BY DEF SelectionsInv, EntryRows
<1>10. \A v \in brought : numbers[v] \in Nat /\ \A w \in Videos : entry[w].ordinal < numbers[v]
  BY <1>5, <1>6, <1>8, <1>9
<1>11. \A v, w \in brought : Before(v, w) => numbers[v] < numbers[w]
  BY <1>5, <1>6, <1>8
<1>12. \A v, w \in brought : numbers[v] = numbers[w] => v = w
  BY <1>4, <1>10, <1>11
<1> QED
  BY <1>7, <1>10, <1>11, <1>12 DEF Before

\* A row that is listed again keeps its Ordinal, and an exact date its value.
RowListed(v, r, s) ==
    /\ s \in EntryRows /\ s.ordinal = r.ordinal /\ s.state = r.state /\ RowTrue(v, s)
    /\ r.date # 0 => \/ s.date = r.date /\ (s.approximate => r.approximate)
                     \/ r.approximate /\ ~s.approximate

LEMMA RefreshedFacts ==
    ASSUME NEW v \in Videos, NEW r \in EntryRows, RowTrue(v, r), r.ordinal # 0,
           NEW said, FoundTruly(v, said), NEW partial \in BOOLEAN
    PROVE  RowListed(v, r, Refreshed(r, said, partial))
<1> DEFINE s == Refreshed(r, said, partial)
           taken == said.date # 0 /\ (said.exact \/ r.date = 0)
<1>1. DOMAIN r = {"ordinal", "number", "date", "approximate", "state", "listed"}
  BY DEF EntryRows
<1>2. /\ s.ordinal = r.ordinal /\ s.state = r.state /\ s.listed = TRUE
      /\ s.number = (IF partial THEN r.number ELSE said.number)
      /\ s.date = Redated(r, said).date /\ s.approximate = Redated(r, said).approximate
      /\ DOMAIN s = DOMAIN r
  BY <1>1 DEF Refreshed
<1>3. /\ s.date = (IF taken THEN said.date ELSE r.date)
      /\ taken => s.approximate = ~said.exact
      /\ ~taken => s.approximate = r.approximate
  <2>1. /\ Redated(r, said).date = (IF taken THEN said.date ELSE r.date)
        /\ Redated(r, said).approximate = (IF taken THEN ~said.exact ELSE r.approximate)
    BY DEF Redated
  <2> HIDE DEF s, taken
  <2> QED
    BY <1>2, <2>1
<1>4. /\ r.ordinal \in Nat /\ r.number \in Nat /\ r.date \in Nat /\ r.approximate \in BOOLEAN
      /\ r.state \in EntryStates /\ said.number \in Nat /\ said.date \in Nat /\ said.exact \in BOOLEAN
  BY DEF EntryRows, FoundTruly
<1>5. s \in EntryRows
  <2> DEFINE d == Redated(r, said).date
             a == Redated(r, said).approximate
             k == IF partial THEN r.number ELSE said.number
  <2>1. s = [r EXCEPT !.listed = TRUE, !.number = k, !.date = d, !.approximate = a]
    BY DEF Refreshed
  <2>2. d \in Nat /\ a \in BOOLEAN /\ k \in Nat
    BY <1>2, <1>3, <1>4
  <2> HIDE DEF d, a, k, s
  <2> QED
    BY <2>1, <2>2 DEF EntryRows
<1> HIDE DEF s
<1>6. RowTrue(v, s)
  BY <1>2, <1>3, <1>4 DEF RowTrue, FoundTruly
<1>7. r.date # 0 => \/ s.date = r.date /\ (s.approximate => r.approximate)
                    \/ r.approximate /\ ~s.approximate
  BY <1>3, <1>4 DEF RowTrue, FoundTruly
<1> QED
  BY <1>2, <1>5, <1>6, <1>7 DEF RowListed, s

LEMMA NewEntryFacts ==
    ASSUME NEW v \in Videos, NEW said, FoundTruly(v, said), NEW n \in Nat, n # 0
    PROVE  /\ NewEntry(said, n) \in EntryRows /\ RowTrue(v, NewEntry(said, n))
           /\ NewEntry(said, n).ordinal = n /\ NewEntry(said, n).number = said.number
           /\ NewEntry(said, n).date = said.date
<1> DEFINE guessed == said.date # 0 /\ ~said.exact
           r == NewEntry(said, n)
<1>1. guessed \in BOOLEAN /\ said.number \in Nat /\ said.date \in Nat /\ said.exact \in BOOLEAN
  BY DEF FoundTruly
<1>2. r = [ordinal |-> n, number |-> said.number, date |-> said.date, approximate |-> guessed,
           state |-> "available", listed |-> TRUE]
  BY DEF NewEntry
<1>3. r.approximate <=> guessed
  <2> HIDE DEF guessed, r
  <2> QED
    BY <1>1, <1>2
<1>4. r \in EntryRows
  <2> HIDE DEF guessed, r
  <2> QED
    BY <1>1, <1>2 DEF EntryRows, EntryStates
<1>5. /\ r.ordinal = n /\ r.number = said.number /\ r.date = said.date /\ r.state = "available"
  BY <1>2
<1> HIDE DEF r
<1>6. RowTrue(v, r)
  BY <1>1, <1>3, <1>5 DEF RowTrue, FoundTruly
<1> QED
  BY <1>4, <1>5, <1>6 DEF r

\* What a listing leaves alone but for its mark.
LEMMA UnlistedFacts ==
    ASSUME NEW v \in Videos, NEW r \in EntryRows, RowTrue(v, r)
    PROVE  RowListed(v, r, r) /\ RowListed(v, r, [r EXCEPT !.listed = FALSE])
BY DEF RowListed, RowTrue, EntryRows

LEMMA ListSourceTrue == ASSUME SelectionsInv, ListSource PROVE StepTrue
<1>1. PICK served \in Served, guess \in Guesses, fed \in BOOLEAN, partial \in BOOLEAN :
          LET flat    == Normalized(served, guess)
              listing == IF fed THEN Enriched(flat, FeedEntries(served)) ELSE flat
              numbers == AssignOrdinals(served, listing) IN
          entry' = [v \in Videos |->
              IF v \in DOMAIN numbers THEN NewEntry(listing[v], numbers[v])
              ELSE IF v \in Range(served) THEN Refreshed(entry[v], listing[v], partial)
              ELSE IF partial THEN entry[v] ELSE [entry[v] EXCEPT !.listed = FALSE]]
  BY DEF ListSource
<1>2. picked' = NoPick /\ UNCHANGED <<sort, queued, bulk>>
  BY DEF ListSource
<1> DEFINE listing == IF fed THEN Enriched(Normalized(served, guess), FeedEntries(served))
                      ELSE Normalized(served, guess)
           numbers == AssignOrdinals(served, listing)
           brought == Range(served) \ InCatalog
<1>3. \A v \in Range(served) : /\ FoundTruly(v, listing[v])
                               /\ sort = "playlist" => listing[v].number = Position(served, v)
  BY ListingFacts
<1>4. entry' = [v \in Videos |->
          IF v \in DOMAIN numbers THEN NewEntry(listing[v], numbers[v])
          ELSE IF v \in Range(served) THEN Refreshed(entry[v], listing[v], partial)
          ELSE IF partial THEN entry[v] ELSE [entry[v] EXCEPT !.listed = FALSE]]
  BY <1>1
<1> HIDE DEF listing
<1>5. /\ DOMAIN numbers = brought
      /\ \A v \in brought : numbers[v] \in Nat /\ \A w \in Videos : entry[w].ordinal < numbers[v]
      /\ \A v, w \in brought : OldestFirst(served, listing, brought, v, w) => numbers[v] < numbers[w]
      /\ \A v, w \in brought : numbers[v] = numbers[w] => v = w
  <2> DEFINE new == brought
             given == numbers
  <2>1. new = Range(served) \ InCatalog /\ given = AssignOrdinals(served, listing)
    OBVIOUS
  <2> HIDE DEF new, given
  <2>f. \A v \in Range(served) : FoundTruly(v, listing[v])
    BY <1>3
  <2>2. DOMAIN given = new
    BY <2>1, <2>f, OrdinalFacts
  <2>3. \A v \in new : given[v] \in Nat /\ \A w \in Videos : entry[w].ordinal < given[v]
    BY <2>1, <2>f, OrdinalFacts
  <2>4. \A v, w \in new : OldestFirst(served, listing, new, v, w) => given[v] < given[w]
    BY <2>1, <2>f, OrdinalFacts
  <2>5. \A v, w \in new : given[v] = given[w] => v = w
    <3> SUFFICES ASSUME NEW v \in new, NEW w \in new, given[v] = given[w] PROVE v = w
      OBVIOUS
    <3> QED
      BY <2>1, <2>f, OrdinalFacts
  <2> QED
    BY <2>2, <2>3, <2>4, <2>5 DEF new, given
<1>6. DOMAIN numbers = brought
  BY <1>5
<1> HIDE DEF numbers
<1>7. Range(served) \subseteq Videos /\ brought \subseteq Videos
  BY PlaceFacts
<1>8. /\ sort \in SourceKinds /\ entry \in [Videos -> EntryRows] /\ queued \subseteq InCatalog
      /\ bulk \in BulkPhases /\ \A v \in Videos : RowTrue(v, entry[v])
      /\ \A v, w \in InCatalog : entry[v].ordinal = entry[w].ordinal => v = w
  BY DEF SelectionsInv
<1>9. \A v \in brought : numbers[v] # 0
  BY <1>5, <1>7, <1>8 DEF EntryRows
<1>10. \A v \in brought : /\ entry'[v] \in EntryRows /\ RowTrue(v, entry'[v])
                          /\ entry'[v].ordinal = numbers[v] /\ entry'[v].number = listing[v].number
                          /\ entry'[v].date = listing[v].date /\ entry[v].ordinal = 0 /\ entry[v].date = 0
  <2> TAKE v \in brought
  <2>1. entry'[v] = NewEntry(listing[v], numbers[v])
    BY <1>4, <1>6, <1>7
  <2>2. FoundTruly(v, listing[v]) /\ numbers[v] \in Nat /\ numbers[v] # 0 /\ v \in Videos
    BY <1>3, <1>5, <1>7, <1>9
  <2>3. entry[v].ordinal = 0 /\ entry[v].date = 0
    BY <1>7, <1>8 DEF InCatalog, RowTrue
  <2> QED
    BY <2>1, <2>2, <2>3, NewEntryFacts
<1>11. \A v \in Videos \ brought : RowListed(v, entry[v], entry'[v])
  <2> TAKE v \in Videos \ brought
  <2> DEFINE r == entry[v]
  <2>1. r \in EntryRows /\ RowTrue(v, r)
    BY <1>8
  <2>2. CASE v \in Range(served)
    <3>1. entry'[v] = Refreshed(r, listing[v], partial) /\ r.ordinal # 0
      BY <1>4, <1>6, <2>2 DEF InCatalog
    <3>2. FoundTruly(v, listing[v])
      BY <1>3, <2>2
    <3> HIDE DEF r
    <3>3. RowListed(v, r, entry'[v])
      BY <2>1, <3>1, <3>2, RefreshedFacts
    <3> QED
      BY <3>3 DEF r
  <2>3. CASE v \notin Range(served)
    <3>1. entry'[v] = r \/ entry'[v] = [r EXCEPT !.listed = FALSE]
      BY <1>4, <1>6, <2>3
    <3> HIDE DEF r
    <3>2. RowListed(v, r, entry'[v])
      BY <2>1, <3>1, UnlistedFacts
    <3> QED
      BY <3>2 DEF r
  <2> QED
    BY <2>2, <2>3
<1>o. \A v, w \in Videos : v # w /\ entry'[v].ordinal # 0 => entry'[v].ordinal # entry'[w].ordinal
  <2> SUFFICES ASSUME NEW v \in Videos, NEW w \in Videos, entry'[v].ordinal # 0,
                      entry'[v].ordinal = entry'[w].ordinal
               PROVE  v = w
    OBVIOUS
  <2>1. CASE v \in brought /\ w \in brought
    BY <1>5, <1>10, <2>1
  <2>2. CASE v \in brought /\ w \notin brought
    <3>1. numbers[v] = entry[w].ordinal
      BY <1>10, <1>11, <2>2 DEF RowListed
    <3> QED
      BY <1>5, <1>8, <2>2, <3>1 DEF EntryRows
  <2>3. CASE v \notin brought /\ w \in brought
    <3>1. numbers[w] = entry[v].ordinal
      BY <1>10, <1>11, <2>3 DEF RowListed
    <3> QED
      BY <1>5, <1>8, <2>3, <3>1 DEF EntryRows
  <2>4. CASE v \notin brought /\ w \notin brought
    BY <1>8, <1>11, <2>4 DEF RowListed, InCatalog
  <2> QED
    BY <2>1, <2>2, <2>3, <2>4
<1>12. SelectionsInv'
  <2>1. entry' \in [Videos -> EntryRows]
    <3>1. \A v \in Videos : entry'[v] \in EntryRows
      BY <1>10, <1>11 DEF RowListed
    <3> QED
      BY <1>4, <3>1
  <2>2. \A v \in Videos : RowTrue(v, entry[v])'
    <3>1. \A v \in Videos : RowTrue(v, entry'[v])
      BY <1>10, <1>11 DEF RowListed
    <3> QED
      BY <1>2, <3>1 DEF RowTrue
  <2>3. (queued \subseteq InCatalog)'
    <3>1. \A v \in InCatalog : v \in InCatalog'
      BY <1>10, <1>11 DEF RowListed, InCatalog
    <3> QED
      BY <1>2, <1>8, <3>1
  <2>4. (\A v, w \in InCatalog : entry[v].ordinal = entry[w].ordinal => v = w)'
    BY <1>o DEF InCatalog
  <2> QED
    BY <1>2, <1>8, <2>1, <2>2, <2>3, <2>4 DEF SelectionsInv, BulkPhases, NoBulk
<1>13. OrdinalsStand
  <2> DEFINE new == {v \in Videos : entry[v].ordinal = 0 /\ entry'[v].ordinal # 0}
             dated == \A v \in new : entry'[v].date # 0
             before(v, w) == IF dated THEN entry'[v].date < entry'[w].date
                             ELSE IF sort = "playlist" THEN entry'[v].number < entry'[w].number
                             ELSE TrueDate[v] < TrueDate[w]
  <2>1. new = brought
    BY <1>7, <1>9, <1>10, <1>11 DEF RowListed
  <2>2. \A v \in InCatalog : entry'[v].ordinal = entry[v].ordinal
    BY <1>11 DEF RowListed, InCatalog
  <2>3. \A v \in InCatalog, w \in brought : entry[v].ordinal < entry'[w].ordinal
    BY <1>5, <1>10 DEF InCatalog
  <2>4. dated <=> \A v \in brought : listing[v].date # 0
    BY <1>10, <2>1
  <2>5. ASSUME NEW v \in brought, NEW w \in brought, before(v, w)
        PROVE  OldestFirst(served, listing, brought, v, w)
    <3>1. /\ Position(served, v) \in Nat /\ Position(served, w) \in Nat
          /\ Position(served, v) = Position(served, w) => v = w
          /\ sort # "playlist" =>
                (Position(served, v) < Position(served, w) => TrueDate[v] > TrueDate[w])
      BY PlaceFacts
    <3>2. TrueDate[v] \in Nat /\ TrueDate[w] \in Nat
      BY <1>7, SelectionsAssumption
    <3>3. CASE dated
      <4>1. listing[v].date < listing[w].date
        BY <1>10, <2>5, <3>3
      <4> QED
        BY <2>4, <3>3, <4>1 DEF OldestFirst
    <3>4. CASE ~dated /\ sort = "playlist"
      <4>1. Position(served, v) < Position(served, w)
        BY <1>3, <1>10, <2>5, <3>4
      <4>2. ByPosition(served, v, w)
        BY <3>4, <4>1 DEF ByPosition, listing_order
      <4> QED
        BY <2>4, <3>4, <4>2 DEF OldestFirst
    <3>5. CASE ~dated /\ sort # "playlist"
      <4>1. TrueDate[v] < TrueDate[w]
        BY <2>5, <3>5
      <4>2. Position(served, v) > Position(served, w)
        BY <3>1, <3>2, <3>5, <4>1
      <4>3. ByPosition(served, v, w)
        BY <3>5, <4>2 DEF ByPosition, listing_order
      <4> QED
        BY <2>4, <3>5, <4>3 DEF OldestFirst
    <3> QED
      BY <3>3, <3>4, <3>5
  <2>6. \A v, w \in brought : before(v, w) => entry'[v].ordinal < entry'[w].ordinal
    BY <1>5, <1>10, <2>5
  <2> HIDE DEF before
  <2>7. /\ \A v \in InCatalog, w \in new : entry[v].ordinal < entry'[w].ordinal
        /\ \A v, w \in new : before(v, w) => entry'[v].ordinal < entry'[w].ordinal
    BY <2>1, <2>3, <2>6
  <2> QED
    BY <1>o, <2>2, <2>7 DEF OrdinalsStand, before
<1>14. DatesStand
  <2>1. \A v \in Videos : RowTrue(v, entry'[v]) /\ (v \notin brought => RowListed(v, entry[v], entry'[v]))
    BY <1>10, <1>11 DEF RowListed
  <2>2. \A v \in Videos : v \in brought => entry[v].date = 0
    BY <1>10
  <2> QED
    BY <2>1, <2>2 DEF DatesStand, RowTrue, RowListed
<1> QED
  BY <1>2, <1>12, <1>13, <1>14, NothingSaid DEF StepTrue

LEMMA SelectionsHold ==
    SelectionsInv /\ [SelectionsNext]_selectionVars =>
        SelectionsInv' /\ [OrdinalsStand /\ DatesStand /\ SelectedExactly]_selectionVars
<1> SUFFICES ASSUME SelectionsInv, [SelectionsNext]_selectionVars
             PROVE  SelectionsInv' /\ [OrdinalsStand /\ DatesStand /\ SelectedExactly]_selectionVars
  OBVIOUS
<1>1. CASE UNCHANGED selectionVars
  BY <1>1 DEF selectionVars, SelectionsInv, RowTrue, InCatalog, BulkPhases, NoBulk
<1>2. SelectionsNext => StepTrue
  BY ListSourceTrue, SelectItemsTrue, ArchiveIdsTrue, FoundTrue, JobEndsTrue, DeleteItemTrue,
     FetchItemMetadataTrue DEF SelectionsNext
<1> QED
  BY <1>1, <1>2 DEF StepTrue

-----------------------------------------------------------------------------
(* The theorems: a step of the perimeter is one part's, and leaves the       *)
(* others' variables alone.                                                  *)

\* Whose step it is.
LEMMA OneDirection ==
    [Next]_vars => [OutNext]_outVars /\ [EngineNext]_engineVars /\ [AccessNext]_accessVars /\ [HealthNext]_healthVars
                   /\ [AccountsNext]_accountVars /\ [RegistryNext]_registryVars /\ [ProbeNext]_probeVars
                   /\ [SelectionsNext]_selectionVars
BY DEF Next, vars

\* Every connection goes to an address that the policy in force accepted, whatever the
\* name resolves to later and wherever a redirect leads, and a proxy is only sent to
\* destinations judged at this hop (adapters/sources/guard.py).
THEOREM NothingInside == Spec => []NothingInsideReached
<1>1. Init => GuardInv
  BY GuardStarts DEF Init
<1>2. GuardInv /\ [Next]_vars => GuardInv'
  BY GuardHolds, OneDirection
<1> QED
  BY <1>1, <1>2, GuardSuffices, PTL DEF Spec

\* A fetch that the guard refused something ends as refused, through yt-dlp's own
\* retries and fallbacks, and never as a failure worth another attempt.
THEOREM RefusalsFinal == Spec => []RefusalIsFinal
<1>1. Init => GuardInv
  BY GuardStarts DEF Init
<1>2. GuardInv /\ [Next]_vars => GuardInv'
  BY GuardHolds, OneDirection
<1> QED
  BY <1>1, <1>2, GuardSuffices, PTL DEF Spec

\* A call of yt-dlp ends as what it was, whatever chain of errors yt-dlp raised; it
\* downloads no live stream and nothing above the quota, and with no option that a Feed
\* may not set (adapters/engine/ytdlp.py, domain/engine_options.py).
THEOREM CallsTruthful == Spec => []CallTruthful
<1>1. Init => EngineInv
  BY EngineStarts DEF Init
<1>2. EngineInv /\ [Next]_vars => EngineInv'
  BY EngineHolds, OneDirection
<1> QED
  BY <1>1, <1>2, EngineSuffices, PTL DEF Spec

\* Whoever has seen a pair of a Feed, or changed the Feed under it, had a right to that
\* at some time since the pair was minted, or holds a key that ended with a request of
\* its own under way; and a pair opens the one Feed it was minted for, until it has
\* another or is gone (application/services/context.py, adapters/api/auth.py).
THEOREM RightsKept == Spec => []EffectsByRight
<1>1. Init => AccessInv
  BY AccessStarts DEF Init
<1>2. AccessInv /\ [Next]_vars => AccessInv'
  BY AccessHolds, OneDirection
<1> QED
  BY <1>1, <1>2, AccessSuffices, PTL DEF Spec

\* The status and the readiness of the api tell of a worker that is gone, and of a
\* scheduler that stopped, in time, and of no worker that beats; with the Object store
\* away there may be no status, and readiness tells (services/status.py, api/health.py).
THEOREM StatusTruthful == Spec => []StatusTellsTheTruth
<1>1. Init => HealthInv
  BY HealthStarts DEF Init
<1>2. HealthInv /\ [Next]_vars => HealthInv'
  BY HealthHolds, OneDirection
<1> QED
  BY <1>1, <1>2, HealthSuffices, PTL DEF Spec

\* Signing in (services/auth.py): attempts on a name that reach its password are a whole
\* lock apart from the threshold on, a one-time code is good once, and the slots of the
\* hashing are all held or free, however logins, prunes and restarts overlap.
THEOREM LoginsBounded == Spec => []LoginsAreBounded
<1> DEFINE Inv == SlotInv /\ GuessInv /\ CodeInv /\ UsersKept
<1>1. Init => Inv
  BY AccountsStart DEF Init
<1>2. Inv /\ [Next]_vars => Inv'
  BY SlotsHold, GuessesHold, CodesHold, OneDirection
<1>3. Inv => LoginsAreBounded
  BY AccountsSuffice
<1> HIDE DEF Inv
<1> QED
  BY <1>1, <1>2, <1>3, PTL DEF Spec

\* While the api serves, no session was opened with credentials that it does not have,
\* in whatever order the api and the worker start with whatever file (sync_users), but for
\* one opened after the worker had stored the digest of others.
THEOREM NoOldSession == Spec => []NobodyKeepsASession
<1> DEFINE Inv == SessionInv /\ CodeInv /\ UsersKept
<1>1. Init => Inv
  BY AccountsStart DEF Init
<1>2. Inv /\ [Next]_vars => Inv'
  BY SessionsHold, CodesHold, OneDirection
<1>3. Inv => NobodyKeepsASession
  BY DEF SessionInv
<1> HIDE DEF Inv
<1> QED
  BY <1>1, <1>2, <1>3, PTL DEF Spec

\* On an instance with users, requests of two Users at once, the probes they share, an
\* Admin's retargets and a reassign that may die at any point name no other User's Feed
\* in a refusal, list nothing under a User who never had the Feed, and leave each User's
\* settings and default Bucket alone (mirrors.py, adapters/db/reassign.py).
THEOREM OwnersStayApart ==
    ASSUME Salted
    PROVE  Spec => OwnersApart
<1> DEFINE Act == ListedForItsOwners' /\ NamesOwnFeeds /\ SettingsStand /\ DefaultsStand
<1>1. Init => RegistryInv
  BY RegistryStarts DEF Init
<1>2. RegistryInv /\ [Next]_vars => RegistryInv' /\ [Act]_registryVars
  <2>1. RegistryInv' => ListedForItsOwners'
    BY RegistrySuffices DEF RegistryInv, RegistryTypes, RowKept, ListedForItsOwners
  <2>2. RegistryInv /\ [Next]_vars => RegistryInv' /\ [StepApart]_registryVars
    BY RegistryHolds, OneDirection
  <2> QED
    BY <2>1, <2>2 DEF StepApart
<1>3. OwnersApart <=> [][Act]_registryVars
  BY DEF OwnersApart
<1> HIDE DEF Act
<1> QED
  BY <1>1, <1>2, <1>3, PTL DEF Spec

\* A probe offers what answered it and nothing else, each Source once, whichever links of
\* a page fail or are refused (probe.py); and a Refresh that follows the pages of an RSS
\* Source lists what those it read list, each item once and in their order, whatever
\* pages name as their next one (rss.py, _follow_pages).
THEOREM ProbesTellTheTruth == Spec => []ProbeTruthful
<1> DEFINE Inv == LookupInv /\ WalkInv
<1>1. Init => Inv
  BY LookupStarts, WalkStarts DEF Init
<1>2. Inv /\ [Next]_vars => Inv'
  BY LookupHolds, WalkHolds, OneDirection
<1>3. Inv => ProbeTruthful
  BY LookupSuffices, WalkSuffices DEF ProbeTruthful
<1> HIDE DEF Inv
<1> QED
  BY <1>1, <1>2, <1>3, PTL DEF Spec

\* Numbers and selections of a Mirror's items, over listings, deletions, fetches and bulk
\* requests in any order (upsert_listing, resolve_selection, _apply_selection): an Ordinal
\* stays and is given in the order of the listing, an exact date stays and an approximate
\* one never drifts, and a selection archives what it names and nothing else.
THEOREM SelectionsMeanIt == Spec => SelectionsTrue
<1> DEFINE Act == OrdinalsStand /\ DatesStand /\ SelectedExactly
<1>1. Init => SelectionsInv
  BY SelectionsStart DEF Init
<1>2. SelectionsInv /\ [Next]_vars => SelectionsInv' /\ [Act]_selectionVars
  BY SelectionsHold, OneDirection
<1>3. SelectionsTrue <=> [][Act]_selectionVars
  BY DEF SelectionsTrue
<1> HIDE DEF Act
<1> QED
  BY <1>1, <1>2, <1>3, PTL DEF Spec
=============================================================================
