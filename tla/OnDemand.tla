------------------------------ MODULE OnDemand ------------------------------
(***************************************************************************)
(* GET /feeds/{id}/media/{item}.{ext} (adapters/api/routes/public.py) of   *)
(* an item of an Ephemeral Mirror: a podcast app asks for media that may   *)
(* not be archived, the request queues the archive and holds the line      *)
(* until it is there, or a deadline passes; what is archived is streamed   *)
(* from the Object store (adapters/api/objects.py), each range by a read   *)
(* of its own, and an app whose body ends short asks for the rest.         *)
(* Meanwhile the worker archives, the prune and the users delete, and an   *)
(* item that is archived again replaces the object under the same key.     *)
(***************************************************************************)
EXTENDS Integers, FiniteSets

CONSTANTS
    Apps,           \* podcast apps asking for the item
    Ranges,         \* the parts of the object an app wants, each read on its own
    Archives,       \* bound: how often the item is archived
    Deletions,      \* bound: deletions, changes of the Owner's usage, cut bodies
    Asks            \* bound: requests of one app

ASSUME OnDemandAssumption ==
    Archives \in Nat /\ Deletions \in Nat /\ Asks \in Nat /\ IsFiniteSet(Ranges)

VARIABLES
    row,        \* the item: archive_state, blocked_reason, a removal that is due
    object,     \* the version under the item's key, 0 for none
    work,       \* the archive job
    over,       \* the Owner is Over quota
    ask,        \* the request of each app
    app,        \* what each app has: the ETag, and the version each range is of
    used        \* what was used of the bounds

mediaVars == <<row, object, work, over, ask, app, used>>

NoAsk == [at |-> "idle", saw |-> "unsettled", etag |-> 0, todo |-> {}, late |-> FALSE, had |-> FALSE,
          code |-> 0]

NoBytes == [r \in Ranges |-> 0]

MediaInit ==
    /\ row = [state |-> "available", blocked |-> FALSE, doomed |-> FALSE]
    /\ object = 0
    /\ work = "none"
    /\ over = FALSE
    /\ ask = [a \in Apps |-> NoAsk]
    /\ app = [a \in Apps |-> [etag |-> 0, has |-> NoBytes, asked |-> 0]]
    /\ used = [archives |-> 0, bad |-> 0]

Bad == used.bad < Deletions /\ used' = [used EXCEPT !.bad = @ + 1]
Archived == row.state = "archived"

-----------------------------------------------------------------------------
(* The worker, the prune, the quota.  Archive.tla has them in full.         *)
Take ==
    /\ work = "queued" /\ row.state = "wanted" /\ used.archives < Archives
    /\ used' = [used EXCEPT !.archives = @ + 1]
    /\ work' = "running" /\ row' = [row EXCEPT !.state = "archiving"]
    /\ UNCHANGED <<object, over, ask, app>>

\* The object is there before the row says so.
Store ==
    /\ work = "running" /\ object # used.archives
    /\ object' = used.archives
    /\ UNCHANGED <<row, work, over, ask, app, used>>

Register ==
    /\ work = "running" /\ object = used.archives
    /\ work' = "none"
    /\ row' = [row EXCEPT !.state = "archived"]
    /\ UNCHANGED <<object, over, ask, app, used>>

\* For good; at the bound nothing else can happen.
Fail ==
    /\ work = "running" \/ (work = "queued" /\ used.archives = Archives)
    /\ work' = "none" /\ row' = [row EXCEPT !.state = "failed"]
    /\ UNCHANGED <<object, over, ask, app, used>>

\* The item does not fit its Owner's quota.
Block ==
    /\ work = "running" /\ over
    /\ work' = "none" /\ row' = [row EXCEPT !.state = "wanted", !.blocked = TRUE]
    /\ UNCHANGED <<object, over, ask, app, used>>

\* A user or the prune: the Tombstone is committed, the object goes after it,
\* whatever has happened to the item since.
Delete ==
    /\ Archived /\ Bad
    /\ row' = [row EXCEPT !.state = "deleted", !.doomed = TRUE]
    /\ ask' = [a \in Apps |-> [ask[a] EXCEPT !.had = FALSE]]
    /\ UNCHANGED <<object, work, over, app>>

Remove ==
    /\ row.doomed
    /\ row' = [row EXCEPT !.doomed = FALSE] /\ object' = 0
    /\ UNCHANGED <<work, over, ask, app, used>>

\* The User archives the item by hand.
Want ==
    /\ row.state \in {"available", "failed", "deleted"} /\ work = "none"
    /\ used.archives < Archives
    /\ row' = [row EXCEPT !.state = "wanted", !.blocked = FALSE] /\ work' = "queued"
    /\ UNCHANGED <<object, over, ask, app, used>>

Usage ==
    /\ Bad
    /\ over' = ~over
    /\ UNCHANGED <<row, object, work, ask, app>>

-----------------------------------------------------------------------------
(* The request.                                                             *)
Is(a, step)   == ask[a].at = step
Go(a, step)   == ask' = [ask EXCEPT ![a].at = step]
Code(a, code) == ask' = [ask EXCEPT ![a].at = "done", ![a].code = code]

Missing(a) == {r \in Ranges : app[a].has[r] = 0}

\* get_item; an app resumes with the ETag of what it has as If-Range.
Ask(a) ==
    /\ Is(a, "idle") \/ (Is(a, "done") /\ Missing(a) # {})
    /\ app[a].asked < Asks
    /\ app' = [app EXCEPT ![a].asked = @ + 1]
    /\ ask' = [ask EXCEPT ![a] = [NoAsk EXCEPT !.at = IF Archived THEN "open" ELSE "archive"]]
    /\ UNCHANGED <<row, object, work, over, used>>

\* archive_item: Over quota is told at once, an item that is archived by now or
\* whose job is just finishing is a Conflict, and the wait settles both.
Archive(a) ==
    /\ Is(a, "archive")
    /\ \/ over /\ Code(a, 507) /\ UNCHANGED <<row, work>>
       \/ ~over /\ (Archived \/ work # "none") /\ Go(a, "look") /\ UNCHANGED <<row, work>>
       \/ /\ ~over /\ ~Archived
          /\ row' = [row EXCEPT !.state = IF @ = "archiving" THEN @ ELSE "wanted", !.blocked = FALSE]
          /\ work' = IF work = "none" THEN "queued" ELSE work
          /\ Go(a, "look")
    /\ UNCHANGED <<object, over, app, used>>

\* The client has waited ON_DEMAND_WAIT_SECONDS; "had" is whether the Episode
\* was there by then, or for the look that is under way, when that read the row.
Deadline(a) ==
    /\ Is(a, "look") \/ Is(a, "seen") \/ Is(a, "wait")
    /\ ~ask[a].late
    /\ ask' = [ask EXCEPT ![a].late = TRUE,
                          ![a].had = IF Is(a, "seen") THEN Archived /\ ask[a].saw = "archived" ELSE Archived]
    /\ UNCHANGED <<row, object, work, over, app, used>>

\* get_item reads the row in a transaction of its own.
Reading == IF row.state \in {"archived", "failed"} THEN row.state
           ELSE IF row.blocked THEN "blocked" ELSE "unsettled"

\* One pass reads the item,
Look(a) ==
    /\ Is(a, "look")
    /\ ask' = [ask EXCEPT ![a].at = "seen", ![a].saw = Reading]
    /\ UNCHANGED <<row, object, work, over, app, used>>

\* and when that answers, settles by what was read, whatever it is by now, and
\* by the time that is left.
Settle(a) ==
    /\ Is(a, "seen")
    /\ \/ ask[a].saw = "archived" /\ Go(a, "open")
       \/ ask[a].saw = "failed" /\ Code(a, 503)
       \/ ask[a].saw = "blocked" /\ Code(a, 507)
       \/ ask[a].saw = "unsettled" /\ ask[a].late /\ Code(a, 503)
       \/ ask[a].saw = "unsettled" /\ ~ask[a].late /\ Go(a, "wait")
    /\ UNCHANGED <<row, object, work, over, app, used>>

\* _next_change: an event of the item, a resync, five seconds or the deadline.
Wake(a) ==
    /\ Is(a, "wait")
    /\ Go(a, "look")
    /\ UNCHANGED <<row, object, work, over, app, used>>

\* media_object and ObjectResponse: the head, and what of the object to send.
\* If-Range names another version: all of it.
Open(a) ==
    /\ Is(a, "open")
    /\ IF object = 0 THEN Code(a, 404) /\ UNCHANGED app
       ELSE LET resumed == app[a].etag = object
            IN  /\ ask' = [ask EXCEPT ![a].at = "send", ![a].etag = object,
                            ![a].todo = IF resumed THEN Missing(a) ELSE Ranges]
                /\ app' = [app EXCEPT ![a].etag = object,
                                      ![a].has = IF resumed THEN @ ELSE NoBytes]
    /\ UNCHANGED <<row, object, work, over, used>>

\* mutant: the reads are not pinned
SendUnpinned(a) ==
    /\ Is(a, "send") /\ ask[a].todo # {} /\ object # 0
    /\ \E r \in ask[a].todo :
          /\ ask' = [ask EXCEPT ![a].todo = @ \ {r}]
          /\ app' = [app EXCEPT ![a].has[r] = object]
    /\ UNCHANGED <<row, object, work, over, used>>

\* stream, with If-Match.
Send(a) ==
    /\ Is(a, "send") /\ ask[a].todo # {} /\ object = ask[a].etag
    /\ \E r \in ask[a].todo :
          /\ ask' = [ask EXCEPT ![a].todo = @ \ {r}]
          /\ app' = [app EXCEPT ![a].has[r] = object]
    /\ UNCHANGED <<row, object, work, over, used>>

\* The body ends: whole, short because the object was replaced or removed, or
\* short because the store or the network failed.
End(a) ==
    /\ Is(a, "send")
    /\ \/ (ask[a].todo = {} \/ object # ask[a].etag) /\ UNCHANGED used
       \/ ask[a].todo # {} /\ object = ask[a].etag /\ Bad
    /\ Code(a, 200)
    /\ UNCHANGED <<row, object, work, over, app>>

-----------------------------------------------------------------------------
Serve(a)  == \/ Archive(a) \/ Deadline(a) \/ Look(a) \/ Settle(a) \/ Wake(a)
             \/ Open(a) \/ Send(a) \/ End(a)
Worker    == Take \/ Store \/ Register \/ Fail \/ Block
MediaNext == Worker \/ Want \/ Delete \/ Remove \/ Usage \/ \E a \in Apps : Ask(a) \/ Serve(a)

-----------------------------------------------------------------------------
\* The bytes an app puts together are of one version of the Episode, the one
\* whose ETag and length it was told, over all the ranges and requests it took.
NoSplice == \A a \in Apps, r \in Ranges : app[a].has[r] \in {0, app[a].etag}

\* An Episode that is archived when the time to hold the line is over is served,
\* not refused, unless it is deleted before the request looks again.  The look
\* that is under way at that moment counts with what it read: what is archived
\* between its reading and its answer is refused, and there for the next request.
InTimeIsServed == \A a \in Apps : ask[a].code = 503 => ~ask[a].had

\* Both: what an app is given is one Episode, and it is given it when it is there.
OneEpisodeServed == NoSplice /\ InTimeIsServed

\* Every request that archives on demand is answered, whether the job ends,
\* fails, is blocked by the quota or never runs.
MediaAnswered == \A a \in Apps : Is(a, "archive") ~> Is(a, "done")
=============================================================================
