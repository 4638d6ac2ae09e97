------------------------------ MODULE Catalog ------------------------------
(***************************************************************************)
(* How the Catalog of one Feed follows its Source.  A Mirror is listed by  *)
(* the worker's Refresh (worker/jobs/refresh.py), by light Refreshes that  *)
(* feed fetches run in any api process (application/services/              *)
(* light_refresh.py) and by a retarget (update_mirror); a Bucket is filled *)
(* by Requests the worker expands (worker/jobs/expand_request.py).  All of *)
(* them list outside any transaction and apply what they got later, in one *)
(* transaction under the Feed's row lock (upsert_listing).                 *)
(*                                                                         *)
(* The Source is a sequence of versions.  Archive jobs are one step here:  *)
(* their life, quota and Locks are Archive.tla's.                          *)
(***************************************************************************)
EXTENDS Integers, FiniteSets

CONSTANTS
    Items,
    Kinds,          \* of Feeds, for the start: rss, channel, playlist, bucket
    Modes,          \* of a Mirror, for the start: all, automatic
    SyncDeletions,  \* whether the Mirror has Sync
    Follow,         \* and Follow
    Versions,       \* bound: versions of the Source, 1 .. Versions
    First,          \* the items on a version's first page
    Rest,           \* and those on the pages after it
    Streams,        \* the items a version lists as streams without a recording
    Calls,          \* the api processes, each with its per-feed lock
    Requests,       \* bound: Requests of a Bucket
    Wants,          \* the items each Request lists
    MaxAttempts,    \* of an expand job
    Overlap,        \* FALSE: cooldown and deadlines keep listings from overtaking
    Budget          \* bound: failures, crashes, retargets and user calls

ASSUME CatalogAssumption ==
    /\ Kinds \subseteq {"rss", "channel", "playlist", "bucket"}
    /\ Modes \subseteq {"all", "automatic"}
    /\ SyncDeletions \in BOOLEAN /\ Follow \in BOOLEAN /\ Overlap \in BOOLEAN
    /\ Versions \in Nat \ {0} /\ MaxAttempts \in Nat \ {0} /\ Budget \in Nat
    /\ First \in [1 .. Versions -> SUBSET Items \ {{}}]
    /\ Rest \in [1 .. Versions -> SUBSET Items]
    /\ Streams \in [1 .. Versions -> SUBSET Items]
    /\ Wants \in [Requests -> SUBSET Items]

VARIABLES
    src,        \* the Source's version now
    feed,       \* the Feed's row
    item,       \* the Catalog
    active,     \* the items with an active archive job
    snapshot,   \* the version in source/feed.xml, 0 without it
    refresh,    \* the Refresh job
    light,      \* the light Refresh in flight in each process
    req,        \* the Requests and their expand jobs
    left        \* what remains of Budget

catalogVars == <<src, feed, item, active, snapshot, refresh, light, req, left>>

Mirror == feed.kind # "bucket"
Spend  == left > 0 /\ left' = left - 1

NoRow     == [state |-> "none", listed |-> FALSE, archivable |-> FALSE, later |-> FALSE]
NoRefresh == [phase |-> "none", etag |-> 0, first |-> FALSE, got |-> 0]
NoLight   == [phase |-> "idle", etag |-> 0, got |-> 0, changed |-> FALSE]
NoRequest == [status |-> "none", job |-> "none", tries |-> 0]

-----------------------------------------------------------------------------
(* The Catalog's operations, on an item table.                              *)

\* upsert_listing of the items in S, of which those in A are archivable.
Upsert(table, S, A, partial) ==
    [i \in Items |->
        IF i \in S
        THEN [state      |-> IF table[i].state = "none" THEN "available" ELSE table[i].state,
              listed     |-> TRUE,
              archivable |-> i \in A,
              later      |-> IF table[i].state = "none" THEN feed.applied ELSE table[i].later]
        ELSE IF partial \/ S = {} THEN table[i] ELSE [table[i] EXCEPT !.listed = FALSE]]

Known(table) == {i \in Items : table[i].state # "none"}

\* delete_episode: a Bucket's row hides, a Mirror's stays visible as Available.
Tombstone(table, S) ==
    [i \in Items |-> IF i \in S THEN [table[i] EXCEPT !.state = "deleted", !.listed = Mirror]
                                ELSE table[i]]

\* delisted_archived, deleted: what Sync does after a complete listing.
Dropped(table) == {i \in Items : table[i].state = "archived" /\ ~table[i].listed}
Synced(table)  == IF SyncDeletions THEN Tombstone(table, Dropped(table)) ELSE table

\* apply_policy: once everything, then, with Follow, what was first seen later.
PolicyWants(table) ==
    IF feed.mode = "automatic" THEN {}
    ELSE {i \in Items : /\ table[i].state = "available" /\ table[i].listed
                        /\ table[i].archivable
                        /\ (feed.applied => Follow /\ table[i].later)}

SetWanted(table, S) ==
    [i \in Items |-> IF i \in S THEN [table[i] EXCEPT !.state = "wanted"] ELSE table[i]]
ReWantable(table) ==
    {i \in Items : table[i].state \in {"available", "deleted", "failed"} /\ table[i].archivable}

\* enqueue_archive_jobs, _enqueue_wanted: a job per wanted item without one.
Wanted(table)  == {i \in Items : table[i].state = "wanted"}
EnqueueWanted(table) == active' = active \cup Wanted(table)

\* for_render
Rendered(table) ==
    {i \in Items : \/ table[i].state = "archived"
                   \/ feed.mode = "automatic" /\ table[i].listed /\ table[i].archivable}

\* Whether the document a client would get differs from the one of this
\* revision: its items, or the text the last listing gave them.
Outdated(table, text) == feed.outdated \/ text # feed.text \/ Rendered(table) # Rendered(item)

-----------------------------------------------------------------------------
(* create_mirror, create_bucket: the probe's first page is in the Catalog,  *)
(* the first Refresh is queued.                                             *)
CatalogInit ==
    \E kind \in Kinds, mode \in Modes :
        /\ src = 1
        /\ feed = [kind |-> kind, mode |-> mode, applied |-> FALSE, first |-> TRUE,
                   etag |-> IF kind = "rss" THEN 1 ELSE 0, seen |-> 1, text |-> 1,
                   cooling |-> FALSE, outdated |-> FALSE]
        /\ item = [i \in Items |->
                      IF kind # "bucket" /\ i \in First[1]
                      THEN [state |-> "available", listed |-> TRUE,
                            archivable |-> i \notin Streams[1], later |-> FALSE]
                      ELSE NoRow]
        /\ active = {}
        /\ snapshot = IF kind = "rss" THEN 1 ELSE 0
        /\ refresh = IF kind = "bucket" THEN NoRefresh ELSE [NoRefresh EXCEPT !.phase = "queued"]
        /\ light = [c \in Calls |-> NoLight]
        /\ req = [r \in Requests |-> NoRequest]
        /\ left = Budget

-----------------------------------------------------------------------------
(* The Source, and what a listing of it answers.                            *)

SourceChanges ==
    /\ Mirror /\ src < Versions
    /\ src' = src + 1
    /\ UNCHANGED <<feed, item, active, snapshot, refresh, light, req, left>>

\* A full listing: an RSS Source's later pages only on the Mirror's first
\* Refresh, an Engine's always.
Listing(v, first) == IF feed.kind # "rss" \/ first THEN First[v] \cup Rest[v] ELSE First[v]
Archivable(v)     == Items \ Streams[v]

\* A conditional GET answers 304 to the validators of the current version.
NotModified(etag) == feed.kind = "rss" /\ etag = src

-----------------------------------------------------------------------------
(* The worker's Refresh.                                                    *)

\* enqueue_refresh: the scheduler's, a user's, or a feed fetch's.  It is
\* dropped while a Refresh is queued or running.
EnqueueRefresh(job) == IF job.phase = "none" THEN [job EXCEPT !.phase = "queued"] ELSE job

RequestRefresh ==
    /\ Mirror /\ refresh.phase = "none"
    /\ refresh' = EnqueueRefresh(refresh)
    /\ UNCHANGED <<src, feed, item, active, snapshot, light, req, left>>

RefreshStart ==
    /\ refresh.phase = "queued"
    /\ Overlap \/ \A c \in Calls : light[c].phase # "listed"
    /\ refresh' = [phase |-> "listing", etag |-> IF feed.first THEN 0 ELSE feed.etag,
                   first |-> feed.first, got |-> 0]
    /\ feed' = [feed EXCEPT !.cooling = TRUE]
    /\ UNCHANGED <<src, item, active, snapshot, light, req, left>>

RefreshLists ==
    /\ refresh.phase = "listing"
    /\ refresh' = IF NotModified(refresh.etag) THEN [refresh EXCEPT !.phase = "saved"]
                  ELSE [refresh EXCEPT !.phase = "listed", !.got = src]
    /\ UNCHANGED <<src, feed, item, active, snapshot, light, req, left>>

\* write_source_snapshot, still before the transaction.
RefreshSaves ==
    /\ refresh.phase = "listed"
    /\ refresh' = [refresh EXCEPT !.phase = "saved"]
    /\ snapshot' = IF feed.kind = "rss" THEN refresh.got ELSE snapshot
    /\ UNCHANGED <<src, feed, item, active, light, req, left>>

\* The last transaction: the listing and its validators, Sync, the policy and
\* the jobs; a 304 stores its validators and runs the policy.
RefreshApplies ==
    LET full    == refresh.got # 0
        listed  == IF full THEN Upsert(item, Listing(refresh.got, refresh.first),
                                       Archivable(refresh.got), FALSE)
                           ELSE item
        kept    == IF full THEN Synced(listed) ELSE listed
        table   == SetWanted(kept, PolicyWants(kept))
        seen    == IF full THEN refresh.got ELSE feed.seen
    IN  /\ refresh.phase = "saved"
        /\ item' = table
        /\ EnqueueWanted(table)
        /\ feed' = [feed EXCEPT !.applied = TRUE, !.first = FALSE, !.outdated = FALSE,
                                !.etag = IF feed.kind # "rss" THEN 0
                                         ELSE IF full THEN refresh.got ELSE refresh.etag,
                                !.seen = seen,
                                !.text = IF full THEN refresh.got ELSE @]
        /\ refresh' = NoRefresh
        /\ UNCHANGED <<src, snapshot, light, req, left>>

\* mutant: the failed Refresh keeps its key, so none is queued after it
RefreshFailsKeyed ==
    /\ refresh.phase = "listing" /\ Spend
    /\ refresh' = [NoRefresh EXCEPT !.phase = "failed"]
    /\ feed' = [feed EXCEPT !.outdated = FALSE]
    /\ UNCHANGED <<src, item, active, snapshot, light, req>>

\* _record_failure: the run row, the error and, for the error, the revision.
RefreshFails ==
    /\ refresh.phase \in {"listing", "listed", "saved"} /\ Spend
    /\ refresh' \in {NoRefresh, [NoRefresh EXCEPT !.phase = "queued"]}
    /\ feed' = [feed EXCEPT !.outdated = IF refresh.phase = "listing" THEN FALSE ELSE @]
    /\ UNCHANGED <<src, item, active, snapshot, light, req>>

\* Cancelled by the user, or by a crash of the worker (requeued by the sweep).
RefreshStops ==
    /\ refresh.phase \in {"queued", "listing", "listed", "saved"} /\ Spend
    /\ refresh' \in {NoRefresh, [NoRefresh EXCEPT !.phase = "queued"]}
    /\ UNCHANGED <<src, feed, item, active, snapshot, light, req>>

\* update_mirror with another Source, listed when it was probed: its version is
\* the next one.  The Refresh it asks for is dropped while one runs.
Retarget ==
    /\ Mirror /\ src < Versions /\ Spend
    /\ src' = src + 1
    /\ item' = Upsert(item, Listing(src + 1, FALSE), Archivable(src + 1), FALSE)
    /\ feed' = [feed EXCEPT !.etag = IF feed.kind = "rss" THEN src + 1 ELSE 0,
                            !.seen = src + 1, !.text = src + 1, !.outdated = FALSE]
    /\ snapshot' = IF feed.kind = "rss" THEN src + 1 ELSE snapshot
    /\ refresh' = EnqueueRefresh(refresh)
    /\ UNCHANGED <<active, light, req>>

-----------------------------------------------------------------------------
(* light_refresh, in one process: plan (the row read, checked and stamped), *)
(* list within the deadline, apply.                                         *)
InLight(c, phase) == light[c].phase = phase

\* _run's first transaction.  A playlist lists oldest first, which its URL or
\* its listing says: a full Refresh is queued instead.
LightPlan(c) ==
    /\ Mirror /\ InLight(c, "idle") /\ ~feed.cooling
    /\ feed' = [feed EXCEPT !.cooling = TRUE]
    /\ IF feed.kind = "playlist"
       THEN refresh' = EnqueueRefresh(refresh) /\ UNCHANGED light
       ELSE /\ light' = [light EXCEPT ![c] = [NoLight EXCEPT !.phase = "planned", !.etag = feed.etag]]
            /\ UNCHANGED refresh
    /\ UNCHANGED <<src, item, active, snapshot, req, left>>

\* _list: a complete RSS document replaces source/feed.xml at once, and whether
\* it differs from what was there is remembered for the apply.
LightLists(c) ==
    /\ InLight(c, "planned")
    /\ light' = [light EXCEPT ![c] =
           IF NotModified(@.etag) THEN [@ EXCEPT !.phase = "listed"]
           ELSE [light[c] EXCEPT !.phase = "listed", !.got = src, !.changed = snapshot # src]]
    /\ snapshot' = IF feed.kind = "rss" /\ ~NotModified(light[c].etag) THEN src ELSE snapshot
    /\ UNCHANGED <<src, feed, item, active, refresh, req, left>>

\* The deadline, a Source error, the client gone or the process: the thread may
\* still write the document it gets.
LightGivesUp(c) ==
    /\ InLight(c, "planned") /\ Spend
    /\ light' = [light EXCEPT ![c] = NoLight]
    /\ snapshot' \in {snapshot,
                      IF feed.kind = "rss" /\ ~NotModified(light[c].etag) THEN src ELSE snapshot}
    /\ UNCHANGED <<src, feed, item, active, refresh, req>>

LightUnchanged(c) ==
    /\ InLight(c, "listed") /\ light[c].got = 0
    /\ feed' = [feed EXCEPT !.etag = light[c].etag]
    /\ light' = [light EXCEPT ![c] = NoLight]
    /\ UNCHANGED <<src, item, active, snapshot, refresh, req, left>>

\* _apply: RSS is a complete listing of the first page, a channel's a partial
\* one.  The revision moves only for what the code counts as observable.
LightApplies(c) ==
    LET got      == light[c].got
        complete == feed.kind = "rss"
        listed   == Upsert(item, First[got], Archivable(got), ~complete)
        kept     == IF complete THEN Synced(listed) ELSE listed
        wants    == PolicyWants(kept)
        table    == SetWanted(kept, wants)
        flipped  == {i \in First[got] : item[i].state # "none"
                                        /\ item[i].archivable # listed[i].archivable}
        left_out == {i \in Items : item[i].listed /\ ~listed[i].listed}
        observed == \/ Known(listed) # Known(item) \/ wants # {} \/ flipped # {}
                    \/ complete /\ (light[c].changed \/ left_out # {} \/ kept # listed)
    IN  /\ InLight(c, "listed") /\ got # 0
        /\ item' = table
        /\ EnqueueWanted(table)
        /\ feed' = [feed EXCEPT !.applied = TRUE, !.text = got,
                                !.etag = IF complete THEN got ELSE @,
                                !.seen = IF complete THEN got ELSE @,
                                !.outdated = ~observed /\ Outdated(table, got)]
        /\ light' = [light EXCEPT ![c] = NoLight]
        /\ UNCHANGED <<src, snapshot, refresh, req, left>>

\* mutant: the validators are stored although the apply rolled back
LightApplyFailsStored(c) ==
    /\ InLight(c, "listed") /\ Spend
    /\ light' = [light EXCEPT ![c] = NoLight]
    /\ feed' = [feed EXCEPT !.etag = IF light[c].got # 0 THEN light[c].got ELSE @]
    /\ UNCHANGED <<src, item, active, snapshot, refresh, req>>

LightApplyFails(c) ==
    /\ InLight(c, "listed") /\ Spend
    /\ light' = [light EXCEPT ![c] = NoLight]
    /\ UNCHANGED <<src, feed, item, active, snapshot, refresh, req>>

\* fetch_cooldown_minutes since the last stamp.
CooldownOver ==
    /\ feed.cooling
    /\ Overlap \/ /\ refresh.phase \in {"none", "queued"}
                  /\ \A c \in Calls : InLight(c, "idle")
    /\ feed' = [feed EXCEPT !.cooling = FALSE]
    /\ UNCHANGED <<src, item, active, snapshot, refresh, light, req, left>>

-----------------------------------------------------------------------------
(* Archive jobs and users.                                                  *)

\* An archive job, claim to settle; one whose item was deleted leaves it alone.
ArchiveEnds(i) ==
    /\ i \in active
    /\ active' = active \ {i}
    /\ IF item[i].state = "wanted"
       THEN /\ \E s \in {"archived", "failed"} : item' = [item EXCEPT ![i] = [@ EXCEPT !.state = s]]
            /\ feed' = [feed EXCEPT !.outdated = FALSE]
       ELSE UNCHANGED <<item, feed>>
    /\ UNCHANGED <<src, snapshot, refresh, light, req, left>>

\* A selection, a retry or a first play.
UserWants(i) ==
    /\ i \in ReWantable(item) /\ Spend
    /\ item' = SetWanted(item, {i})
    /\ active' = active \cup {i}
    /\ feed' = [feed EXCEPT !.outdated = FALSE]
    /\ UNCHANGED <<src, snapshot, refresh, light, req>>

\* delete_item, of any row: its job is cancelled.
UserDeletes(i) ==
    /\ i \in Known(item) /\ Spend
    /\ item' = Tombstone(item, {i})
    /\ active' = active \ {i}
    /\ feed' = [feed EXCEPT !.outdated = FALSE]
    /\ UNCHANGED <<src, snapshot, refresh, light, req>>

-----------------------------------------------------------------------------
(* Requests of a Bucket and their expand jobs (one job of a Feed at a time).*)
SetJob(r, job) == req' = [req EXCEPT ![r] = [@ EXCEPT !.job = job]]

AddRequest(r) ==
    /\ ~Mirror /\ req[r].status = "none"
    /\ req' = [req EXCEPT ![r] = [NoRequest EXCEPT !.status = "queued", !.job = "queued"]]
    /\ UNCHANGED <<src, feed, item, active, snapshot, refresh, light, left>>

\* A Feed whose expand job was found stuck is quarantined until the worker restarts.
ExpandStart(r) ==
    /\ req[r].job = "queued"
    /\ \A q \in Requests : req[q].job \notin {"running", "recorded", "stuck"}
    /\ req' = [req EXCEPT ![r] = [@ EXCEPT !.job = "running", !.tries = @ + 1]]
    /\ UNCHANGED <<src, feed, item, active, snapshot, refresh, light, left>>

\* relist_hidden: what the complete listing of one Request delisted of others.
RelistHidden(table) ==
    [i \in Items |-> IF table[i].state \notin {"none", "deleted"}
                     THEN [table[i] EXCEPT !.listed = TRUE] ELSE table[i]]

\* What became of the Request is committed before its job is settled.
MarkExpanded(r) == req' = [req EXCEPT ![r] = [@ EXCEPT !.status = "expanded", !.job = "recorded"]]
MarkFailed(r)   == req' = [req EXCEPT ![r] = [@ EXCEPT !.status = "failed", !.job = "recorded"]]

\* mutant: without relist_hidden
ExpandApplyHides(r) ==
    LET listed == Upsert(item, Wants[r], Wants[r], FALSE)
    IN  /\ req[r].job = "running" /\ Wants[r] # {}
        /\ item' = SetWanted(listed, ReWantable(listed) \cap Wants[r])
        /\ active' = active \cup (Wanted(item') \cap Wants[r])
        /\ MarkExpanded(r)
        /\ feed' = [feed EXCEPT !.outdated = FALSE]
        /\ UNCHANGED <<src, snapshot, refresh, light, left>>

\* The listing, then one transaction: everything it lists is wanted again, what
\* it does not list stays, the Request is expanded.
ExpandApply(r) ==
    LET listed == Upsert(item, Wants[r], Wants[r], FALSE)
        table  == SetWanted(listed, ReWantable(listed) \cap Wants[r])
    IN  /\ req[r].job = "running" /\ Wants[r] # {}
        /\ item' = RelistHidden(table)
        /\ active' = active \cup (Wanted(item') \cap Wants[r])
        /\ MarkExpanded(r)
        /\ feed' = [feed EXCEPT !.outdated = FALSE]
        /\ UNCHANGED <<src, snapshot, refresh, light, left>>

ExpandSettle(r) ==
    /\ req[r].job = "recorded"
    /\ SetJob(r, "done")
    /\ UNCHANGED <<src, feed, item, active, snapshot, refresh, light, left>>

\* The runner's answer to a failure with nothing recorded of it: another attempt,
\* or a failed job whose Request is queued.
Unrecorded(r) == SetJob(r, IF req[r].tries < MaxAttempts THEN "queued" ELSE "lost")

\* A permanent error, as a listing of nothing is, or a transient one on the last
\* attempt fails the Request; a transient one before leaves it to the retry.
ExpandFails(r) ==
    /\ req[r].job = "running"
    /\ IF Wants[r] = {} THEN UNCHANGED left ELSE Spend
    /\ \/ MarkFailed(r)
       \/ Wants[r] # {} /\ req[r].tries < MaxAttempts /\ Unrecorded(r)
    /\ UNCHANGED <<src, feed, item, active, snapshot, refresh, light>>

\* The transactions around the listing, and the one that records its failure, are
\* outside the try: an error of the database records nothing.
ExpandRaises(r) ==
    /\ req[r].job = "running" /\ Spend /\ Unrecorded(r)
    /\ UNCHANGED <<src, feed, item, active, snapshot, refresh, light>>

\* A cancelled job, or one whose soft timeouts are spent, ends as Cancelled:
\* _record_failure leaves the Request as it is.
ExpandStops(r) ==
    /\ req[r].job \in {"queued", "running"} /\ Spend
    /\ SetJob(r, "stopped")
    /\ UNCHANGED <<src, feed, item, active, snapshot, refresh, light>>

\* _fail_stuck: the thread ignored its token.  The job fails, the Feed is
\* quarantined, and only an archive job's item is settled with it.
ExpandSticks(r) ==
    /\ req[r].job = "running" /\ Spend
    /\ SetJob(r, "stuck")
    /\ UNCHANGED <<src, feed, item, active, snapshot, refresh, light>>

\* The worker stops: a row still running is queued again, by the drain, which
\* gives the attempt back, or after a crash by the sweep, which does not.
ExpandDies(r) ==
    /\ req[r].job \in {"running", "recorded", "stuck"} /\ Spend
    /\ IF req[r].job = "stuck" THEN SetJob(r, "lost")
       ELSE \E back \in {0, 1} :
               req' = [req EXCEPT ![r] = [@ EXCEPT !.job = "queued", !.tries = @ - back]]
    /\ UNCHANGED <<src, feed, item, active, snapshot, refresh, light>>

-----------------------------------------------------------------------------
RefreshStep    == RefreshStart \/ RefreshLists \/ RefreshSaves \/ RefreshApplies
LightStep(c)   == LightLists(c) \/ LightUnchanged(c) \/ LightApplies(c)
RequestStep(r) == ExpandStart(r) \/ ExpandApply(r) \/ ExpandSettle(r) \/ ExpandFails(r)

CatalogNext ==
    \/ SourceChanges \/ Retarget \/ CooldownOver
    \/ RequestRefresh \/ RefreshStep \/ RefreshFails \/ RefreshStops
    \/ \E c \in Calls : LightPlan(c) \/ LightStep(c) \/ LightGivesUp(c) \/ LightApplyFails(c)
    \/ \E i \in Items : ArchiveEnds(i) \/ UserWants(i) \/ UserDeletes(i)
    \/ \E r \in Requests : AddRequest(r) \/ RequestStep(r) \/ ExpandRaises(r) \/ ExpandStops(r)
                            \/ ExpandSticks(r) \/ ExpandDies(r)

-----------------------------------------------------------------------------

\* Where the Source would answer 304 to the validators in the Feed's row, the
\* Catalog has applied what it serves: a Source that has not changed since has
\* nothing the Catalog misses, in whatever order listings are applied.  And once a
\* Refresh has succeeded, some version of the Source is in the Catalog whole, the
\* pages only a Mirror's first Refresh follows included: no 304 and no listing of
\* the first page alone stands in for it.
NoLostListing ==
    /\ NotModified(feed.etag) => feed.seen = src
    /\ Mirror /\ ~feed.first => \E v \in 1 .. Versions : First[v] \cup Rest[v] \subseteq Known(item)


\* A Bucket has no Source to leave: a row goes from its list only by a deletion,
\* whatever the Requests that come after list.
BucketKeeps ==
    [][~Mirror => \A i \in Items : (item[i].listed /\ ~item'[i].listed)
                                       => item'[i].state = "deleted"]_catalogVars

\* When the Source stops changing the Catalog is brought up to it, and no
\* listing still in flight takes it back for good.
Converges == [](Mirror => <>(feed.seen = src))

\* Every Request expands or fails, whatever errors of the listing and crashes its
\* job meets, except where the code leaves it queued: its job was stopped, found
\* stuck (which holds the other Requests of the Feed too), or met on its last attempt
\* a failure it does not record.
Forsaken(r) == req[r].job \in {"stopped", "lost"} \/ \E q \in Requests : req[q].job = "stuck"
RequestSettles ==
    \A r \in Requests :
        req[r].status = "queued" ~> (req[r].status # "queued" \/ Forsaken(r))

\* Both.
RowsSettle == Converges /\ RequestSettles

-----------------------------------------------------------------------------
(* What documents say and the code does not do.                             *)

\* "deletes an Episode when its item leaves the Source" (the operations guide):
\* Sync takes no Episode whose item the Source still lists, on whatever page.
SyncDeletesDropped ==
    [][\A i \in Items :
          (item[i].state = "archived" /\ item'[i].state = "deleted" /\ left' = left)
              => i \notin First[src] \cup Rest[src]]_catalogVars
=============================================================================
