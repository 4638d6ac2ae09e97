------------------------------ MODULE JobQueue ------------------------------
(***************************************************************************)
(* The jobs table of Copycast: the queue that the api processes fill and   *)
(* the worker drains (adapters/db/repositories/jobs.py, models/jobs.py).   *)
(*                                                                         *)
(* Every action is one method of JobRepository, that is one SQL statement  *)
(* or one short transaction, with exactly the WHERE clause the statement   *)
(* carries.  The module says nothing about who calls which method when:    *)
(* any client may call any of them at any time, so what is shown here is   *)
(* what the table guarantees by itself.  Runner.tla is the client.         *)
(*                                                                         *)
(* Time is abstract: `due` stands for run_after <= now() and `fresh` for a *)
(* heartbeat younger than STALE_HEARTBEAT.                                 *)
(***************************************************************************)
EXTENDS Integers

CONSTANTS
    Jobs,       \* job ids (uuids, never reused)
    FeedOf,     \* jobs.feed_id of each job, NoFeed for null
    ItemOf,     \* jobs.item_id of each job, NoItem for null
    KeyOf,      \* jobs.dedup_key of each job (every caller passes one)
    OnDemand,   \* the jobs with kind archive_item and trigger feed_fetch
    NoFeed, NoItem

\* An archive job names an item, an item lives in one feed, and an on-demand
\* job is an archive job (JobRepository.claim, the on_demand condition).  The
\* clients assume it.
QueueAssumption ==
    /\ OnDemand \subseteq Jobs
    /\ \A j \in OnDemand : ItemOf[j] # NoItem
    /\ \A j, k \in Jobs :
          (ItemOf[j] = ItemOf[k] /\ ItemOf[j] # NoItem)
              => FeedOf[j] = FeedOf[k] /\ FeedOf[j] # NoFeed

VARIABLE job    \* the rows of the table, one record per job id

Active   == {"queued", "running"}
Finished == {"succeeded", "failed", "cancelled"}
Status   == Active \cup Finished \cup {"unborn", "gone"}

Row == [status : Status, attempt : Nat, cancel : BOOLEAN,
        due : BOOLEAN, fresh : BOOLEAN]

Exists(j) == job[j].status \notin {"unborn", "gone"}
InStatus(S) == {j \in Jobs : job[j].status \in S}

Unborn == [status |-> "unborn", attempt |-> 0, cancel |-> FALSE,
           due |-> FALSE, fresh |-> FALSE]

Init == job = [j \in Jobs |-> Unborn]

-----------------------------------------------------------------------------
(* enqueue: INSERT ... ON CONFLICT DO NOTHING on the partial unique index   *)
(* over the dedup keys of the active rows.                                  *)

Duplicate(j) == \E k \in InStatus(Active) : KeyOf[k] = KeyOf[j]

Enqueue(j, due) ==
    /\ job[j].status = "unborn"
    /\ ~Duplicate(j)
    /\ job' = [job EXCEPT ![j] = [Unborn EXCEPT !.status = "queued", !.due = due]]

(* claim: the candidate is due, and no other job of its item (on demand) or *)
(* of its feed (any other job) runs.  ORDER BY priority decides between     *)
(* candidates, but SKIP LOCKED passes over a row another transaction holds, *)
(* so any candidate can be the one returned.  The comparison with a null    *)
(* feed is never true: feed-less jobs exclude nothing.                      *)
RunningSameItem(j) == \E r \in InStatus({"running"}) : ItemOf[r] = ItemOf[j]
RunningSameFeed(j) ==
    FeedOf[j] # NoFeed /\ \E r \in InStatus({"running"}) : FeedOf[r] = FeedOf[j]

Claimable(j, onDemandOnly) ==
    /\ job[j].status = "queued"
    /\ job[j].due
    /\ IF j \in OnDemand THEN ~RunningSameItem(j) ELSE ~RunningSameFeed(j)
    /\ onDemandOnly => j \in OnDemand

Claim(j, onDemandOnly) ==
    /\ Claimable(j, onDemandOnly)
    /\ job' = [job EXCEPT ![j].status = "running", ![j].fresh = TRUE,
                          ![j].attempt = @ + 1]

(* heartbeat: touches a running row only. *)
Heartbeat(j) ==
    job' = IF job[j].status = "running" THEN [job EXCEPT ![j].fresh = TRUE] ELSE job

(* finish: UPDATE ... WHERE id = :id, whatever the status of the row is.    *)
(* On a deleted row the caller gets NotFound and nothing changes.           *)
Finish(j, s) ==
    /\ s \in Finished
    /\ Exists(j)
    /\ job' = [job EXCEPT ![j].status = s]

(* requeue: a running row only; the claim counted an attempt, which         *)
(* count = FALSE gives back.  cancel_requested is left as it is.            *)
Counted(n, count) == IF count \/ n = 0 THEN n ELSE n - 1

Released(row, due, count) ==
    [row EXCEPT !.status = "queued", !.due = due, !.fresh = FALSE,
                !.attempt = Counted(@, count)]

Requeue(j, due, count) ==
    /\ Exists(j)
    /\ job' = IF job[j].status = "running"
              THEN [job EXCEPT ![j] = Released(@, due, count)]
              ELSE job

(* cancel and cancel_for_feed: queued rows are cancelled at once, running   *)
(* ones are flagged for the worker.                                         *)

Cancelled(j) ==
    CASE job[j].status = "queued"  -> [job[j] EXCEPT !.status = "cancelled"]
      [] job[j].status = "running" -> [job[j] EXCEPT !.cancel = TRUE]
      [] OTHER                     -> job[j]

Cancel(j) == Exists(j) /\ job' = [job EXCEPT ![j] = Cancelled(j)]

CancelForFeed(f) ==
    /\ f # NoFeed
    /\ job' = [j \in Jobs |-> IF FeedOf[j] = f THEN Cancelled(j) ELSE job[j]]

(* requeue_stale: every running row without a recent heartbeat goes back to *)
(* queued, its attempt counted and its (past) run_after kept.               *)
(* purge_finished deletes rows that finished long ago (any subset of them). *)
(* The scheduler's maintenance transaction runs the two in this order.      *)
AnyRunning == InStatus({"running"})                             \* mutant
StaleAmongQueued == {j \in InStatus({"queued"}) : ~job[j].fresh}  \* mutant

Stale == {j \in InStatus({"running"}) : ~job[j].fresh}

Maintenance(purged) ==
    /\ purged \subseteq InStatus(Finished)
    /\ job' = [j \in Jobs |->
                  IF j \in Stale       THEN [job[j] EXCEPT !.status = "queued"]
                  ELSE IF j \in purged THEN [job[j] EXCEPT !.status = "gone"]
                  ELSE job[j]]

(* Deleting a feed cascades to every row of it, and the foreign key lets no *)
(* job of it be inserted later.                                             *)
DeleteFeed(f) ==
    /\ f # NoFeed
    /\ job' = [j \in Jobs |-> IF FeedOf[j] = f THEN [job[j] EXCEPT !.status = "gone"]
                                               ELSE job[j]]

(* The passage of time. *)
BecomeDue(j) == job[j].status = "queued" /\ job' = [job EXCEPT ![j].due = TRUE]
GoStale(j) == job[j].status = "running" /\ job' = [job EXCEPT ![j].fresh = FALSE]

-----------------------------------------------------------------------------
Feeds == {FeedOf[j] : j \in Jobs} \ {NoFeed}

Next ==
    \/ \E j \in Jobs : \/ \E b \in BOOLEAN : Enqueue(j, b) \/ Claim(j, b)
                       \/ Heartbeat(j) \/ Cancel(j) \/ BecomeDue(j) \/ GoStale(j)
                       \/ \E s \in Finished : Finish(j, s)
                       \/ \E b, c \in BOOLEAN : Requeue(j, b, c)
    \/ \E f \in Feeds : CancelForFeed(f) \/ DeleteFeed(f)
    \/ \E purged \in SUBSET Jobs : Maintenance(purged)

Spec == Init /\ [][Next]_job

-----------------------------------------------------------------------------
TypeOK == job \in [Jobs -> Row]

\* Per-feed exclusivity (claim): of two running jobs of one feed at least one
\* is an on-demand archive, however claims, requeues and finishes interleave.
FeedExclusive ==
    \A j, k \in InStatus({"running"}) :
        (j # k /\ FeedOf[j] = FeedOf[k] /\ FeedOf[j] # NoFeed)
            => j \in OnDemand \/ k \in OnDemand

\* No two running jobs are about the same item: the on-demand exemption from
\* per-feed exclusivity still waits for another job of its item, and a job
\* that is not on demand waits for the on-demand one through the feed.
ItemExclusive ==
    \A j, k \in InStatus({"running"}) :
        (ItemOf[j] = ItemOf[k] /\ ItemOf[j] # NoItem) => j = k

\* One active job per dedup key: no requeue, retry or cancel of a running job
\* brings back a row whose key was taken by a newer job meanwhile.
OneActivePerKey ==
    \A j, k \in InStatus(Active) : KeyOf[j] = KeyOf[k] => j = k
=============================================================================
