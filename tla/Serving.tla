------------------------------ MODULE Serving ------------------------------
(***************************************************************************)
(* What the api serves to apps and browsers: the feed XML (FeedCache), the *)
(* media (OnDemand), what the XML says of the media (Publishing), and the  *)
(* event streams of the web interface (Events).  The four views share no   *)
(* state, so a behaviour takes one of them.                                *)
(***************************************************************************)
EXTENDS FeedCache, OnDemand, Publishing, Events

VARIABLE route

vars == <<route, feedVars, mediaVars, pubVars, eventVars>>

InFeed(A)    == route = "feed" /\ A /\ UNCHANGED <<route, mediaVars, pubVars, eventVars>>
InMedia(A)   == route = "media" /\ A /\ UNCHANGED <<route, feedVars, pubVars, eventVars>>
InListing(A) == route = "listing" /\ A /\ UNCHANGED <<route, feedVars, mediaVars, eventVars>>
InEvents(A)  == route = "events" /\ A /\ UNCHANGED <<route, feedVars, mediaVars, pubVars>>

Init ==
    /\ route \in {"feed", "media", "listing", "events"}
    /\ FeedInit /\ MediaInit /\ PubInit /\ EventInit
    /\ route # "listing" => /\ mirror = [kind |-> "rss", automatic |-> TRUE]
                            /\ remaining = CHOOSE b \in Budgets : TRUE
    /\ route # "events" => /\ client = CHOOSE k \in [Streamers -> ClientStarts] : TRUE
                           /\ left = CHOOSE b \in EventBudgets : TRUE

Next == InFeed(FeedNext) \/ InMedia(MediaNext) \/ InListing(PubNext) \/ InEvents(EventNext)

Spec == Init /\ [][Next]_vars

\* Requests are answered and time passes; the hub reconnects with backoff and
\* reads what it is sent, a browser reconnects on its own, an open stream is
\* written to and rechecked.
FairSpec ==
    /\ Spec
    /\ \A c \in Clients : WF_vars(InFeed(Request(c)))
    /\ \A a \in Apps :
         /\ WF_vars(InMedia(Archive(a) \/ Look(a) \/ Settle(a) \/ Wake(a) \/ Open(a)))
         /\ WF_vars(InMedia(Send(a) \/ End(a)))
         /\ WF_vars(InMedia(Deadline(a)))
    /\ WF_vars(InEvents(Listen)) /\ WF_vars(InEvents(Handle))
    /\ \A c \in Streamers : /\ WF_vars(InEvents(Connect(c)))
                             /\ WF_vars(InEvents(StreamStep(c)))
                             /\ WF_vars(InEvents(Recheck(c)))

\* Every request is answered: that of a Feed, though the winner of the render
\* lock dies or Valkey does, and that of an Episode that must be archived first,
\* whether the job ends, fails, is blocked by the quota or never runs.
Answered == FeedAnswered /\ MediaAnswered
=============================================================================
