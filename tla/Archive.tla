------------------------------ MODULE Archive ------------------------------
(***************************************************************************)
(* The life of the Episodes of one Mirror: the archive job that fetches an *)
(* item, uploads its media and registers it (worker/jobs/archive_item.py), *)
(* against everything that moves the same rows and objects: the users'     *)
(* requests, deletions and Locks, the Refresh with its policy, the prune,  *)
(* the quota's blocks, and the death of the worker.                        *)
(*                                                                         *)
(* Postgres runs the transactions at READ COMMITTED.  A transaction is one *)
(* action, except where it reads a row before it holds a lock on it or on  *)
(* the Feed: then the read and the commit are two actions and anything may *)
(* happen in between.  What runs after the commit (removing objects) is an *)
(* action of its own.  Every other step of a job is what it does between   *)
(* two awaits.  The jobs table is JobQueue's; of the Runner there is what  *)
(* decides a row's fate (settling, the drain, stuck jobs, crashes), one    *)
(* execution per job: Runner.tla shows what happens when heartbeats stall. *)
(***************************************************************************)
EXTENDS Integers, FiniteSets

CONSTANTS
    Items,          \* the Catalog: listed, archivable items, by publication
    Jobs, KindOf, ItemOf, OnDemand,     \* bound: the job ids; what each is about
    RefreshKey, PruneKey,               \* dedup keys of the two other kinds
    Modes,          \* bound: the policies the Mirror may be given
    Window,         \* backfill_latest_n of the Rolling policy
    MaxAttempts,    \* jobs.max_attempts
    Scenarios,      \* bounds: how often each kind of misfortune and user call happens
    Feed, NoFeed, NoItem, NoJob

Locking == "all"        \* stands for the four modes of ARCHIVE_POLICY_MODES
Hazards == {"crash", "api", "drain", "fault", "stuck", "quota", "wait", "user"}
FeedOf  == [j \in Jobs |-> Feed]
KeyOf   == [j \in Jobs |-> CASE KindOf[j] = "archive" -> ItemOf[j]
                             [] KindOf[j] = "refresh" -> RefreshKey
                             [] OTHER                 -> PruneKey]

ASSUME ArchiveAssumption ==
    /\ Items \subseteq Nat /\ IsFiniteSet(Items) /\ NoItem \notin Items
    /\ RefreshKey \notin Items /\ PruneKey \notin Items
    /\ KindOf \in [Jobs -> {"archive", "refresh", "prune"}]
    /\ \A j \in Jobs : ItemOf[j] \in (IF KindOf[j] = "archive" THEN Items ELSE {NoItem})
    /\ OnDemand \subseteq {j \in Jobs : KindOf[j] = "archive"}
    /\ Modes \subseteq {"all", "rolling", "automatic"}
    /\ MaxAttempts \in Nat \ {0} /\ Window \in Nat \ {0}
    /\ Scenarios \subseteq [Hazards -> Nat]
    /\ Feed # NoFeed /\ NoJob \notin Jobs

VARIABLES
    job,        \* the jobs table
    item,       \* the Catalog rows
    mode,       \* the Mirror's backfill_mode
    paused,     \* the Mirror's paused
    objects,    \* the items whose media object is in the Object store
    exec,       \* the execution of each job
    erase,      \* the deletion in flight in the api process and in the worker
    late,       \* items an abandoned thread is still uploading
    stop,       \* the worker's stop_event
    unheard,    \* history: the items whose archive job ended in an error nothing recorded
    left        \* what remains of a scenario

Q == INSTANCE JobQueue WITH job <- job

vars == <<job, item, mode, paused, objects, exec, erase, late, stop, unheard, left>>

States   == {"available", "wanted", "archiving", "archived", "failed", "deleted"}
Outcomes == {"success", "cancelled", "storageFull", "notReady", "permanent", "transient"}
Phases   == {"none", "begin", "fetching", "uploading", "uploaded", "committing",
             "discarding", "erasing", "settling"}
Actors   == {"api", "worker"}

NoExec  == [phase |-> "none", token |-> FALSE, user |-> FALSE, timedOut |-> FALSE,
            lock |-> FALSE, outcome |-> "success"]
NoErase == [phase |-> "idle", doomed |-> {}, media |-> {}, job |-> NoJob]

Init ==
    /\ Q!Init
    /\ item = [i \in Items |-> [state |-> "available", flag |-> FALSE,
                                blocked |-> FALSE, media |-> FALSE]]
    /\ mode \in Modes
    /\ paused = FALSE
    /\ objects = {}
    /\ exec = [j \in Jobs |-> NoExec]
    /\ erase = [a \in Actors |-> NoErase]
    /\ late = {}
    /\ stop = FALSE
    /\ unheard = {}
    /\ left \in Scenarios

Spend(h) == left[h] > 0 /\ left' = [left EXCEPT ![h] = @ - 1]

-----------------------------------------------------------------------------
(* Rows, locks and the statements several transactions share.               *)
InState(S) == {i \in Items : item[i].state \in S}
Rewantable == {"available", "deleted", "failed"}

\* The archive job's last transaction holds the row from mark_state on.
RowLocked(i) == \E j \in Jobs : exec[j].phase = "committing" /\ ItemOf[j] = i

Wanted(S) == [i \in Items |-> IF i \in S /\ item[i].state \in Rewantable
                              THEN [item[i] EXCEPT !.state = "wanted"] ELSE item[i]]
Tombstoned(rows, S) ==
    [i \in Items |-> IF i \in S THEN [rows[i] EXCEPT !.state = "deleted", !.media = FALSE]
                                ELSE rows[i]]

BlockedFromWanted(i) ==     \* mutant: archiving is left out
    IF item[i].state = "wanted" THEN [item EXCEPT ![i] = [@ EXCEPT !.blocked = TRUE]] ELSE item

\* mark_blocked: only from wanted or archiving.
Blocked(i) == IF item[i].state \in {"wanted", "archiving"}
              THEN [item EXCEPT ![i] = [@ EXCEPT !.state = "wanted", !.blocked = TRUE]]
              ELSE item
\* mark_state with only_from = archiving.
FromArchiving(i, s) == IF item[i].state = "archiving"
                       THEN [item EXCEPT ![i] = [@ EXCEPT !.state = s]] ELSE item

\* Enqueuing for each key in S that has no active job, on a fresh job id.
Spare(k, od) == {j \in Jobs : KeyOf[j] = k /\ job[j].status = "unborn" /\ (j \in OnDemand) = od}
Lacking(S)   == {k \in S : \A j \in Q!InStatus(Q!Active) : KeyOf[j] # k}
CanQueue(S, od) == \A k \in Lacking(S) : Spare(k, od) # {}
Queued(rows, S, od) ==
    LET new == {CHOOSE j \in Spare(k, od) : TRUE : k \in Lacking(S)}
    IN  [j \in Jobs |-> IF j \in new
                        THEN [Q!Unborn EXCEPT !.status = "queued", !.due = TRUE] ELSE rows[j]]

\* apply_policy.  Under "all" the first application wants every Available item
\* and Follow the ones first seen later: any of them.
InWindow == {i \in Items \ InState({"deleted"}) :
                Cardinality({k \in Items \ InState({"deleted"}) : k > i}) < Window}
PolicyWants(m) == CASE m = "all"     -> SUBSET InState({"available"})
                    [] m = "rolling" -> {InWindow \cap InState({"available"})}
                    [] OTHER         -> {{}}
Unlocked == {i \in Items : ~item[i].flag}
RolledOut(m) == IF m = "rolling" THEN (InState({"archived"}) \ InWindow) \cap Unlocked ELSE {}

\* delete_episode for each of S: the media of the rows as they were read.
MediaOf(S) == {i \in S : item[i].media}

-----------------------------------------------------------------------------
(* The archive job.                                                         *)
Is(j, p) == exec[j].phase = p
To(j, p) == exec' = [exec EXCEPT ![j] = [@ EXCEPT !.phase = p]]
Return(j, o) == exec' = [exec EXCEPT ![j] = [@ EXCEPT !.phase = "settling", !.outcome = o]]

Claim(j) ==
    /\ ~stop /\ Is(j, "none")
    /\ \E b \in BOOLEAN : Q!Claim(j, b)
    /\ To(j, "begin")
    /\ UNCHANGED <<item, mode, paused, objects, erase, late, stop, unheard, left>>

\* The first transaction: skip, stop at a Paused Mirror, block, or start.
Begin(j) ==
    LET i == ItemOf[j] IN
    /\ KindOf[j] = "archive" /\ Is(j, "begin")
    /\ ~RowLocked(i)
    /\ \/ /\ item[i].state # "wanted"
          /\ Return(j, "success") /\ UNCHANGED <<item, unheard, left>>
       \/ /\ item[i].state = "wanted" /\ paused
          /\ Return(j, "cancelled") /\ UNCHANGED <<item, unheard, left>>
       \/ /\ item[i].state = "wanted" /\ ~paused
          /\ Spend("quota")
          /\ item' = Blocked(i) /\ Return(j, "success") /\ UNCHANGED unheard
       \/ /\ item[i].state = "wanted" /\ ~paused
          /\ item' = [item EXCEPT ![i] = [@ EXCEPT !.state = "archiving"]]
          /\ To(j, "fetching") /\ unheard' = unheard \ {i} /\ UNCHANGED left
    /\ UNCHANGED <<job, mode, paused, objects, erase, late, stop>>

FetchOk(j) ==
    /\ Is(j, "fetching")
    /\ To(j, "uploading")
    /\ UNCHANGED <<job, item, mode, paused, objects, erase, late, stop, unheard, left>>

RecordedTooSoon(j, o) ==    \* mutant: off by one against the runner
    IF o = "permanent" \/ (o = "transient" /\ job[j].attempt >= MaxAttempts - 1)
    THEN "failed" ELSE "wanted"

\* _record_failure: exhausted is the last attempt allowed.
Recorded(j, o) ==
    CASE o = "permanent" -> "failed"
      [] o = "transient" -> IF job[j].attempt >= MaxAttempts THEN "failed" ELSE "wanted"
      [] OTHER           -> "wanted"

FetchFails(j, o) ==
    /\ Is(j, "fetching") /\ o # "success"
    /\ ~RowLocked(ItemOf[j])
    /\ o = "cancelled" => exec[j].token
    /\ IF o \in {"storageFull", "notReady"} THEN Spend("wait") ELSE UNCHANGED left
    /\ item' = FromArchiving(ItemOf[j], Recorded(j, o))
    /\ Return(j, o)
    /\ UNCHANGED <<job, mode, paused, objects, erase, late, stop, unheard>>

\* QuotaExceeded, then _block.
FetchTooLarge(j) ==
    /\ Is(j, "fetching") /\ ~RowLocked(ItemOf[j])
    /\ Spend("quota")
    /\ item' = Blocked(ItemOf[j])
    /\ Return(j, "success")
    /\ UNCHANGED <<job, mode, paused, objects, erase, late, stop, unheard>>

Upload(j) ==
    /\ Is(j, "uploading")
    /\ objects' = objects \cup {ItemOf[j]}
    /\ To(j, "uploaded")
    /\ UNCHANGED <<job, item, mode, paused, erase, late, stop, unheard, left>>

\* The store went away, before or after the media was in: discard, record.
UploadFails(j) ==
    /\ Is(j, "uploading") /\ ~RowLocked(ItemOf[j])
    /\ objects' \in {objects, objects \ {ItemOf[j]}}
    /\ item' = FromArchiving(ItemOf[j], Recorded(j, "transient"))
    /\ Return(j, "transient")
    /\ UNCHANGED <<job, mode, paused, erase, late, stop, unheard, left>>

\* The last transaction: mark_state locks the row, then the Feed is read; the
\* rest of it (assets, recount, intent) waits for the Feed's row.
Mark(j) ==
    LET i == ItemOf[j] IN
    /\ Is(j, "uploaded") /\ ~RowLocked(i)
    /\ IF item[i].state = "archiving"
       THEN exec' = [exec EXCEPT ![j] = [@ EXCEPT !.phase = "committing",
                                                  !.lock = (mode = Locking)]]
       ELSE To(j, "discarding")
    /\ UNCHANGED <<job, item, mode, paused, objects, erase, late, stop, unheard, left>>

CommitThenDiscard(j) ==     \* mutant: the discard not limited to a changed row
    /\ Is(j, "committing")
    /\ item' = [item EXCEPT ![ItemOf[j]] =
                  [state |-> "archived", flag |-> @.flag \/ exec[j].lock,
                   blocked |-> @.blocked, media |-> TRUE]]
    /\ To(j, "discarding")
    /\ UNCHANGED <<job, mode, paused, objects, erase, late, stop, unheard, left>>

Commit(j) ==
    /\ Is(j, "committing")
    /\ item' = [item EXCEPT ![ItemOf[j]] =
                  [state |-> "archived", flag |-> @.flag \/ exec[j].lock,
                   blocked |-> @.blocked, media |-> TRUE]]
    /\ Return(j, "success")
    /\ UNCHANGED <<job, mode, paused, objects, erase, late, stop, unheard, left>>

\* after_commit(_discard), still within the job.
Discard(j) ==
    /\ Is(j, "discarding")
    /\ objects' = objects \ {ItemOf[j]}
    /\ Return(j, "success")
    /\ UNCHANGED <<job, item, mode, paused, erase, late, stop, unheard, left>>

\* Errors no except clause sees: the Catalog is not told, and the runner takes
\* them for transient.
Unheard(j) == Spend("fault") /\ unheard' = unheard \cup {ItemOf[j]} /\ Return(j, "transient")

\* scratch.job cannot make its directory, the row being archiving already.
ScratchFails(j) ==
    /\ Is(j, "fetching") /\ Unheard(j)
    /\ UNCHANGED <<job, item, mode, paused, objects, erase, late, stop>>

\* mirror_description_attachments meets a link no URL parser takes, after the
\* upload: what is uploaded stays.
AttachmentsFail(j) ==
    /\ Is(j, "uploaded") /\ Unheard(j)
    /\ UNCHANGED <<job, item, mode, paused, objects, erase, late, stop>>

\* A transaction of the job loses a deadlock or its connection, the one that
\* records a failure included.
DatabaseError(j) ==
    /\ exec[j].phase \in {"begin", "fetching", "uploading", "uploaded", "committing"}
    /\ KindOf[j] = "archive" /\ Unheard(j)
    /\ UNCHANGED <<job, item, mode, paused, objects, erase, late, stop>>

-----------------------------------------------------------------------------
(* Deletions.  delete_item and clear_feed read the rows with plain SELECTs, *)
(* tombstone them, and remove the objects after the commit.                 *)
Reading(a, S, j) ==
    erase' = [erase EXCEPT ![a] = [phase |-> "read", doomed |-> S, media |-> MediaOf(S),
                                   job |-> j]]
Removing(a, S) ==
    erase' = [erase EXCEPT ![a] = IF S = {} THEN NoErase
                                  ELSE [phase |-> "hook", doomed |-> {}, media |-> MediaOf(S),
                                        job |-> NoJob]]

ActiveJob(i) == {j \in Q!InStatus(Q!Active) : ItemOf[j] = i}

DeleteItem(i) ==
    /\ erase["api"].phase = "idle"
    /\ Spend("user") /\ ~item[i].flag
    /\ \E j \in (IF ActiveJob(i) = {} THEN {NoJob} ELSE ActiveJob(i)) : Reading("api", {i}, j)
    /\ UNCHANGED <<job, item, mode, paused, objects, exec, late, stop, unheard>>

ClearFeed ==
    /\ erase["api"].phase = "idle"
    /\ Spend("user") /\ InState({"archived"}) \cap Unlocked # {}
    /\ Reading("api", InState({"archived"}) \cap Unlocked, NoJob)
    /\ UNCHANGED <<job, item, mode, paused, objects, exec, late, stop, unheard>>

ExpireLocked(j) ==      \* mutant: prunable() without the Lock
    /\ KindOf[j] = "prune" /\ Is(j, "begin")
    /\ \E S \in SUBSET InState({"archived"}) : Reading("worker", S, NoJob) /\ To(j, "erasing")
    /\ UNCHANGED <<job, item, mode, paused, objects, late, stop, unheard, left>>

\* The expiry of an Automatic Mirror: any of the archived, unlocked Episodes
\* may be idle for long enough.
Expire(j) ==
    /\ KindOf[j] = "prune" /\ Is(j, "begin")
    /\ IF mode = "automatic"
       THEN \E S \in SUBSET (InState({"archived"}) \cap Unlocked) :
               Reading("worker", S, NoJob) /\ To(j, "erasing")
       ELSE Return(j, "success") /\ UNCHANGED erase
    /\ UNCHANGED <<job, item, mode, paused, objects, late, stop, unheard, left>>

EraseCommit(a) ==
    LET e == erase[a] IN
    /\ e.phase = "read"
    /\ \A i \in e.doomed : ~RowLocked(i)
    /\ item' = Tombstoned(item, e.doomed)
    /\ job' = IF e.job = NoJob THEN job ELSE [job EXCEPT ![e.job] = Q!Cancelled(e.job)]
    /\ erase' = [erase EXCEPT ![a] = [@ EXCEPT !.phase = "hook", !.doomed = {}, !.job = NoJob]]
    /\ UNCHANGED <<mode, paused, objects, exec, late, stop, unheard, left>>

\* The hook, and with it the end of a Refresh or a prune.
EraseHook(a) ==
    /\ erase[a].phase = "hook"
    /\ objects' = objects \ erase[a].media
    /\ erase' = [erase EXCEPT ![a] = NoErase]
    /\ UNCHANGED <<job, item, mode, paused, exec, late, stop, unheard, left>>

Erased(j) ==
    /\ Is(j, "erasing") /\ erase["worker"].phase = "idle"
    /\ Return(j, "success")
    /\ UNCHANGED <<job, item, mode, paused, objects, erase, late, stop, unheard, left>>

-----------------------------------------------------------------------------
(* The Refresh: its last transaction takes the Feed's row, updates every    *)
(* listed row, applies the policy and queues what is wanted.                *)
RefreshApply(j) ==
    /\ KindOf[j] = "refresh" /\ Is(j, "begin")
    /\ \A i \in Items : ~RowLocked(i)
    /\ \E W \in PolicyWants(mode) :
          LET rows   == Tombstoned(Wanted(W), RolledOut(mode))
              asked  == {i \in Items : rows[i].state = "wanted" /\ ~rows[i].blocked}
          IN  /\ item' = rows
              /\ CanQueue(asked, FALSE)
              /\ job' = Queued(job, asked, FALSE)
    /\ Removing("worker", RolledOut(mode))
    /\ To(j, "erasing")
    /\ UNCHANGED <<mode, paused, objects, late, stop, unheard, left>>

\* A Refresh or a prune that fails or notices its token.
OtherFails(j, o) ==
    /\ KindOf[j] # "archive" /\ Is(j, "begin")
    /\ o \in {"transient", "permanent", "cancelled"}
    /\ o = "cancelled" => exec[j].token
    /\ Return(j, o)
    /\ UNCHANGED <<job, item, mode, paused, objects, erase, late, stop, unheard, left>>

-----------------------------------------------------------------------------
(* The Runner around a job.                                                 *)
Settled(j) ==
    LET o == exec[j].outcome IN
    CASE o = "success"   -> Q!Finish(j, "succeeded")
      [] o = "permanent" -> Q!Finish(j, "failed")
      [] o = "cancelled" -> IF stop /\ ~exec[j].user THEN Q!Requeue(j, TRUE, FALSE)
                                                      ELSE Q!Finish(j, "cancelled")
      [] o = "transient" -> IF job[j].attempt < MaxAttempts THEN Q!Requeue(j, TRUE, TRUE)
                                                            ELSE Q!Finish(j, "failed")
      [] OTHER           -> Q!Requeue(j, TRUE, FALSE)

Settle(j) ==
    /\ Is(j, "settling")
    /\ Settled(j)
    /\ exec' = [exec EXCEPT ![j] = NoExec]
    /\ UNCHANGED <<item, mode, paused, objects, erase, late, stop, unheard, left>>

MonitorPoll(j) ==
    /\ exec[j].phase \notin {"none", "settling"} /\ job[j].cancel
    /\ exec' = [exec EXCEPT ![j] = [@ EXCEPT !.token = TRUE, !.user = TRUE]]
    /\ UNCHANGED <<job, item, mode, paused, objects, erase, late, stop, unheard, left>>

SoftTimeout(j) ==
    /\ exec[j].phase \in {"fetching", "uploading"} /\ ~exec[j].timedOut
    /\ Spend("stuck")
    /\ exec' = [exec EXCEPT ![j] = [@ EXCEPT !.token = TRUE, !.timedOut = TRUE]]
    /\ UNCHANGED <<job, item, mode, paused, objects, erase, late, stop, unheard>>

\* _mark_stuck and _fail_stuck; the thread goes on, an upload with it.
MarkStuck(j) ==
    LET i == ItemOf[j] IN
    /\ exec[j].phase \in {"fetching", "uploading"} /\ exec[j].timedOut
    /\ ~RowLocked(i)
    /\ Q!Finish(j, "failed")
    /\ item' = FromArchiving(i, "failed")
    /\ late' = IF Is(j, "uploading") THEN late \cup {i} ELSE late
    /\ exec' = [exec EXCEPT ![j] = NoExec]
    /\ UNCHANGED <<mode, paused, objects, erase, stop, unheard, left>>

LateUpload(i) ==
    /\ i \in late
    /\ objects' = objects \cup {i} /\ late' = late \ {i}
    /\ UNCHANGED <<job, item, mode, paused, exec, erase, stop, unheard, left>>

\* SIGTERM: no more claims, every token set; after DRAIN_SECONDS the tasks
\* that are left are cancelled and their jobs re-queued; then a new process.
Sigterm ==
    /\ ~stop /\ Spend("drain")
    /\ stop' = TRUE
    /\ exec' = [j \in Jobs |-> IF Is(j, "none") THEN NoExec ELSE [exec[j] EXCEPT !.token = TRUE]]
    /\ UNCHANGED <<job, item, mode, paused, objects, erase, late, unheard>>

\* What dies with a task: its transaction, its hooks, perhaps after the upload.
Dropped(j) == erase' = [erase EXCEPT !["worker"] = IF Is(j, "erasing") THEN NoErase ELSE @]
HalfUploads(S) == {objects \cup U : U \in SUBSET {ItemOf[j] : j \in {k \in S : Is(k, "uploading")}}}

Leftover(j) ==
    /\ stop /\ ~Is(j, "none")
    /\ Q!Requeue(j, TRUE, FALSE)
    /\ exec' = [exec EXCEPT ![j] = NoExec]
    /\ objects' \in HalfUploads({j})
    /\ Dropped(j)
    /\ UNCHANGED <<item, mode, paused, late, stop, unheard, left>>

Restart ==
    /\ stop /\ \A j \in Jobs : Is(j, "none")
    /\ stop' = FALSE /\ late' = {}
    /\ UNCHANGED <<job, item, mode, paused, objects, exec, erase, unheard, left>>

Crash ==
    /\ Spend("crash")
    /\ exec' = [j \in Jobs |-> NoExec]
    /\ erase' = [erase EXCEPT !["worker"] = NoErase]
    /\ objects' \in HalfUploads(Jobs)
    /\ late' = {} /\ stop' = FALSE
    /\ UNCHANGED <<job, item, mode, paused, unheard>>

GoStale(j) ==
    /\ Is(j, "none") /\ Q!GoStale(j)
    /\ UNCHANGED <<item, mode, paused, objects, exec, erase, late, stop, unheard, left>>

-----------------------------------------------------------------------------
(* The scheduler.                                                           *)
Maintenance ==
    /\ Q!Stale # {} /\ Q!Maintenance({})
    /\ UNCHANGED <<item, mode, paused, objects, exec, erase, late, stop, unheard, left>>

Schedule ==
    /\ \E S \in SUBSET ((IF paused THEN {} ELSE {RefreshKey})
                          \cup (IF mode = "automatic" THEN {PruneKey} ELSE {})) :
          S # {} /\ CanQueue(S, FALSE) /\ job' = Queued(job, S, FALSE)
    /\ UNCHANGED <<item, mode, paused, objects, exec, erase, late, stop, unheard, left>>

\* _due_unblocks: some of the blocked items fit again.
Release ==
    \E S \in SUBSET {i \in InState({"wanted"}) : item[i].blocked} :
        /\ S # {} /\ ~paused /\ CanQueue(S, FALSE)
        /\ \A i \in S : ~RowLocked(i)
        /\ item' = [i \in Items |-> IF item[i].blocked /\ (i \in S \/ item[i].state # "wanted")
                                    THEN [item[i] EXCEPT !.blocked = FALSE] ELSE item[i]]
        /\ job' = Queued(job, S, FALSE)
        /\ UNCHANGED <<mode, paused, objects, exec, erase, late, stop, unheard, left>>

-----------------------------------------------------------------------------
(* The users.                                                               *)

\* archive_item, and select_items, archive_available and retry_failed for one
\* item; od: the media route of an Automatic feed asks for it.
ArchiveItem(i, od) ==
    /\ item[i].state # "archived" /\ ~RowLocked(i)
    /\ od => mode = "automatic"
    /\ CanQueue({i}, od)
    /\ item' = [Wanted({i}) EXCEPT ![i] = [@ EXCEPT !.blocked = FALSE]]
    /\ job' = Queued(job, {i}, od)
    /\ UNCHANGED <<mode, paused, objects, exec, erase, late, stop, unheard, left>>

SetArchiveFlag(i, b) ==
    /\ Spend("user") /\ ~RowLocked(i) /\ item[i].flag # b
    /\ item' = [item EXCEPT ![i] = [@ EXCEPT !.flag = b]]
    /\ UNCHANGED <<job, mode, paused, objects, exec, erase, late, stop, unheard>>

CancelJob(j) ==
    /\ job[j].status \in Q!Active /\ ~job[j].cancel
    /\ Spend("user") /\ Q!Cancel(j)
    /\ UNCHANGED <<item, mode, paused, objects, exec, erase, late, stop, unheard>>

SetPaused(b) ==
    /\ Spend("user") /\ paused # b /\ paused' = b
    /\ b \/ CanQueue({RefreshKey}, FALSE)
    /\ IF b THEN Q!CancelForFeed(Feed) ELSE job' = Queued(job, {RefreshKey}, FALSE)
    /\ UNCHANGED <<item, mode, objects, exec, erase, late, stop, unheard>>

\* update_mirror: Rolling applies at once; switching to the Archive policy
\* locks what is archived.  The Feed's row is taken before any item is read.
UpdateMirror(m) ==
    LET asks == IF m # "automatic" /\ ~paused THEN {RefreshKey} ELSE {}
        rows == Tombstoned(Wanted(IF m = "rolling" THEN UNION PolicyWants(m) ELSE {}),
                           RolledOut(m))
    IN  /\ Spend("user") /\ mode # m /\ mode' = m
        /\ erase["api"].phase = "idle" /\ CanQueue(asks, FALSE)
        /\ item' = [i \in Items |-> IF m = Locking /\ item[i].state = "archived"
                                    THEN [rows[i] EXCEPT !.flag = TRUE] ELSE rows[i]]
        /\ Removing("api", RolledOut(m))
        /\ job' = Queued(job, asks, FALSE)
        /\ UNCHANGED <<paused, objects, exec, late, stop, unheard>>

\* The api process dies between a commit and its hook, or before it.
ApiCrash ==
    /\ erase["api"].phase # "idle" /\ Spend("api")
    /\ erase' = [erase EXCEPT !["api"] = NoErase]
    /\ UNCHANGED <<job, item, mode, paused, objects, exec, late, stop, unheard>>

-----------------------------------------------------------------------------
Handler(j) ==
    \/ Begin(j) \/ FetchOk(j) \/ (\E o \in Outcomes : FetchFails(j, o)) \/ FetchTooLarge(j)
    \/ Upload(j) \/ UploadFails(j) \/ Mark(j) \/ Commit(j) \/ Discard(j)
    \/ Expire(j) \/ RefreshApply(j) \/ (\E o \in Outcomes : OtherFails(j, o)) \/ Erased(j)
    \/ Settle(j)

Raises(j) == ScratchFails(j) \/ AttachmentsFail(j) \/ DatabaseError(j)

Next ==
    \/ \E j \in Jobs : \/ Claim(j) \/ Handler(j) \/ Raises(j) \/ MonitorPoll(j)
                       \/ SoftTimeout(j) \/ MarkStuck(j) \/ Leftover(j) \/ GoStale(j)
                       \/ CancelJob(j)
    \/ \E i \in Items : \/ DeleteItem(i) \/ LateUpload(i)
                        \/ \E b \in BOOLEAN : ArchiveItem(i, b) \/ SetArchiveFlag(i, b)
    \/ \E a \in Actors : EraseCommit(a) \/ EraseHook(a)
    \/ \E m \in Modes : UpdateMirror(m)
    \/ \E b \in BOOLEAN : SetPaused(b)
    \/ ClearFeed \/ Sigterm \/ Restart \/ Crash \/ ApiCrash
    \/ Maintenance \/ Schedule \/ Release

Spec == Init /\ [][Next]_vars

\* A handler goes on running, and settles.
FairSpec == Spec /\ \A j \in Jobs : WF_vars(Handler(j))

-----------------------------------------------------------------------------
ItemRow  == [state : States, flag : BOOLEAN, blocked : BOOLEAN, media : BOOLEAN]
ExecRow  == [phase : Phases, token : BOOLEAN, user : BOOLEAN, timedOut : BOOLEAN,
             lock : BOOLEAN, outcome : Outcomes]
EraseRow == [phase : {"idle", "read", "hook"}, doomed : SUBSET Items, media : SUBSET Items,
             job : Jobs \cup {NoJob}]

TypeOK ==
    /\ Q!TypeOK
    /\ item \in [Items -> ItemRow]
    /\ mode \in Modes /\ paused \in BOOLEAN /\ stop \in BOOLEAN
    /\ objects \subseteq Items /\ late \subseteq Items /\ unheard \subseteq Items
    /\ exec \in [Jobs -> ExecRow]
    /\ erase \in [Actors -> EraseRow]
    /\ left \in [Hazards -> Nat]

\* No step but an archive job's discard, or the hook of a deletion that read
\* the item archived, takes the object away from an archived Episode; and the
\* discard never does: the job that finds its row changed removes what it
\* uploaded, never what another job registered meanwhile.
ServedKeepsObject ==
    [][\A i \in InState({"archived"}) \cap objects :
          i \in objects' \/ i \in erase["api"].media \cup erase["worker"].media]_vars

\* A locked Episode is only deleted by a transaction that had read it unlocked
\* before the Lock: no user's deletion, expiry, Refresh or switch to Rolling
\* that begins after the Lock takes it.
LockSeenIsKept ==
    [][\A i \in Items : item[i].flag =>
          /\ (item[i].state # "deleted" /\ item'[i].state = "deleted")
                => \E a \in Actors : i \in erase[a].doomed
          /\ \A a \in Actors : i \in erase'[a].doomed => i \in erase[a].doomed]_vars

\* While handlers are left to finish, an item is archiving only as long as an
\* execution is on it: no path through blocks, failures, cancels, deletions
\* and renewed requests leaves the row behind.  The errors no except clause
\* sees do, and nothing else: a row one of them left is archiving without a job.
Working == {"fetching", "uploading", "uploaded", "committing"}
ArchivingIsRunning ==
    \A i \in InState({"archiving"}) \ unheard :
        \E j \in Jobs : ItemOf[j] = i /\ exec[j].phase \in Working

\* An item the quota blocks costs no queued job: a block and the jobs of the
\* Refresh, the scheduler and the users never coexist.
BlockedCostsNoJob ==
    \A i \in InState({"wanted"}) :
        item[i].blocked => \A j \in ActiveJob(i) : job[j].status = "running"

\* The Catalog and the job agree: a job that ends failed leaves its item
\* failed (or deleted, or asked for again meanwhile), one that goes back to
\* the queue leaves it wanted, whatever the exhaustion rule said on each side;
\* unless the Catalog never heard of the error.
Agreement ==
    \A j \in Jobs : (Is(j, "settling") /\ KindOf[j] = "archive" /\ ItemOf[j] \notin unheard) =>
        LET s == item[ItemOf[j]].state
            last == job[j].attempt >= MaxAttempts
        IN  CASE exec[j].outcome = "permanent" -> s \in {"failed", "deleted", "wanted"}
              [] exec[j].outcome = "transient" ->
                    s \in {"wanted", "deleted"} \cup (IF last THEN {"failed"} ELSE {})
              [] exec[j].outcome \in {"notReady", "storageFull"} -> s \in {"wanted", "deleted"}
              [] OTHER -> TRUE

\* All three, and one active job per item: while no worker dies, the row of an
\* item follows the job about it, through blocks, failures, stuck threads, lost
\* transactions and whatever users ask for.
RowFollowsJob ==
    ArchivingIsRunning /\ BlockedCostsNoJob /\ Agreement /\ Q!OneActivePerKey

\* While no worker dies, an archiving item does not stay so, unless an error the
\* Catalog did not hear of ended its job: the next one skips what is archiving.
ArchivingEnds ==
    \A i \in Items : item[i].state = "archiving" ~> (item[i].state # "archiving" \/ i \in unheard)

\* "re-queues what is still running ([...] the retry downloads again)"
\* (worker/runner.py, module docstring): a queued job finds its item wanted.
RetryDownloads ==
    \A j \in Q!InStatus({"queued"}) :
        KindOf[j] = "archive" => item[ItemOf[j]].state # "archiving"
=============================================================================
