------------------------------- MODULE Quota -------------------------------
(***************************************************************************)
(* The quota of one Owner among archive jobs (application/services/        *)
(* quota.py, the start and the end of worker/jobs/archive_item.py) and     *)
(* deletions.  What a Feed stores is a column that each transaction        *)
(* recounts from the rows its statement sees (READ COMMITTED); the room an *)
(* archive job has is read when it starts.                                 *)
(*                                                                         *)
(* The quota is a number, no Feed is Paused and no upload is added: an     *)
(* unlimited Owner is never over, a Paused Feed starts no job.             *)
(***************************************************************************)
EXTENDS Integers, FiniteSets, SequencesExt, Sums

CONSTANTS
    Episodes, Feeds,
    FeedOf,             \* the Feed of each item
    Bytes,              \* what each item takes once it is archived
    Announced,          \* the Engine's estimate of it; 0: an enclosure has none
    Rank,               \* the archive priority of its wanted_reason
    Slots,              \* archive jobs that run at a time, the on-demand slot included
    RELEASE_PER_TICK,
    Quotas,             \* the quotas a configuration may set
    Overlapping,        \* FALSE: no two transactions recount one Feed side by side
    QuotaBudgets        \* bound: what may happen, [asks, failures, deletions, restarts]

States == {"available", "wanted", "archiving", "archived", "failed", "deleted"}

ASSUME QuotaAssumption ==
    /\ IsFiniteSet(Episodes) /\ IsFiniteSet(Feeds) /\ FeedOf \in [Episodes -> Feeds] /\ Slots \in Nat
    /\ Bytes \in [Episodes -> Nat \ {0}] /\ Announced \in [Episodes -> Nat] /\ Rank \in [Episodes -> Nat]
    /\ Quotas \subseteq Nat /\ RELEASE_PER_TICK \in Nat \ {0} /\ Overlapping \in BOOLEAN
    /\ QuotaBudgets \subseteq [asks : Nat, failures : Nat, deletions : Nat, restarts : Nat]

VARIABLES
    state,      \* archive_state of each item
    block,      \* blocked_reason is set, and blocked_bytes: 0 when it is null
    job,        \* the active archive job of each item
    room,       \* max_bytes of its execution
    stored,     \* feeds.storage_bytes
    counting,   \* the transactions of each Feed that have recounted, in the order of its row's lock
    quota,      \* what the configuration of the running worker says
    landed,     \* history: what was archived since the Owner last had room
    base,       \* history: what was stored when the worker started
    ahead       \* what remains of the budget

quotaVars == <<state, block, job, room, stored, counting, quota, landed, base, ahead>>

NoBlock == [on |-> FALSE, bytes |-> 0]

QuotaInit ==
    /\ state = [i \in Episodes |-> "available"] /\ block = [i \in Episodes |-> NoBlock]
    /\ job = [i \in Episodes |-> "none"] /\ room = [i \in Episodes |-> 0]
    /\ stored = [f \in Feeds |-> Sum(Bytes, {})] /\ counting = [f \in Feeds |-> <<>>]
    /\ quota \in Quotas /\ landed = {} /\ base = 0 /\ ahead \in QuotaBudgets

-----------------------------------------------------------------------------
(* quota_status, quota_state and remaining.                                 *)
Used == Sum(stored, Feeds)
Over == Used >= quota
Remaining == IF Over THEN 0 ELSE quota - Used

Pays(kind) == ahead[kind] > 0 /\ ahead' = [ahead EXCEPT ![kind] = @ - 1]

\* A row a transaction has written is its own until it ends.
Held(i) == \E n \in DOMAIN counting[FeedOf[i]] : counting[FeedOf[i]][n].item = i
Becomes(i, s) == ~Held(i) /\ state' = [state EXCEPT ![i] = s]

\* enqueue: one active archive job per item.
Enqueued(S) == [i \in Episodes |-> IF i \in S /\ job[i] = "none" THEN "queued" ELSE job[i]]

-----------------------------------------------------------------------------
\* Follow and Backfill, whatever the quota says, and the next Refresh.
BecomesDue(i) ==
    /\ state[i] = "available" /\ Becomes(i, "wanted") /\ job' = Enqueued({i})
    /\ UNCHANGED <<block, room, stored, counting, quota, landed, base, ahead>>
Requeue(i) ==
    /\ state[i] = "wanted" /\ ~block[i].on /\ job[i] = "none" /\ job' = Enqueued({i})
    /\ UNCHANGED <<state, block, room, stored, counting, quota, landed, base, ahead>>

\* archive_item: gate_manual, set_wanted, on_manual_wanted.
Ask(i) ==
    /\ ~Over /\ Pays("asks")
    /\ state[i] \in {"available", "wanted", "failed", "deleted"} /\ Becomes(i, "wanted")
    /\ block' = [block EXCEPT ![i] = NoBlock] /\ job' = Enqueued({i})
    /\ UNCHANGED <<room, stored, counting, quota, landed, base>>

-----------------------------------------------------------------------------
(* The archive job.                                                         *)
Running == {i \in Episodes : job[i] = "running"}
Busy == {i \in Episodes : job[i] \in {"running", "ending"}}
Goes(i, to) == job' = [job EXCEPT ![i] = to]

Skip(i) ==
    /\ job[i] = "queued" /\ Cardinality(Busy) < Slots /\ state[i] # "wanted" /\ Goes(i, "ending")
    /\ UNCHANGED <<state, block, room, stored, counting, quota, landed, base, ahead>>

\* mark_blocked
Blocks(i, bytes) ==
    /\ ~Held(i)
    /\ IF state[i] \in {"wanted", "archiving"}
       THEN /\ state' = [state EXCEPT ![i] = "wanted"]
            /\ block' = [block EXCEPT ![i] = [on |-> TRUE, bytes |-> bytes]]
       ELSE UNCHANGED <<state, block>>

StartOver(i) ==
    /\ job[i] = "queued" /\ Cardinality(Busy) < Slots /\ state[i] = "wanted" /\ Over
    /\ Blocks(i, 0) /\ Goes(i, "ending")
    /\ UNCHANGED <<room, stored, counting, quota, landed, base, ahead>>

StartUnchecked(i) ==    \* the quota is left to the announced sizes
    /\ job[i] = "queued" /\ Cardinality(Busy) < Slots /\ state[i] = "wanted"
    /\ Becomes(i, "archiving") /\ Goes(i, "running") /\ room' = [room EXCEPT ![i] = Remaining]
    /\ UNCHANGED <<block, stored, counting, quota, landed, base, ahead>>

Start(i) ==
    /\ job[i] = "queued" /\ Cardinality(Busy) < Slots /\ state[i] = "wanted" /\ ~Over
    /\ Becomes(i, "archiving") /\ Goes(i, "running") /\ room' = [room EXCEPT ![i] = Remaining]
    /\ UNCHANGED <<block, stored, counting, quota, landed, base, ahead>>

\* QuotaExceeded: the estimate is above the room the job was started with.
TooLarge(i) ==
    /\ job[i] = "running" /\ Announced[i] > room[i]
    /\ Blocks(i, Announced[i]) /\ Goes(i, "ending")
    /\ UNCHANGED <<room, stored, counting, quota, landed, base, ahead>>

Fails(i, to) ==
    /\ job[i] = "running" /\ Pays("failures") /\ ~Held(i)
    /\ state' = IF state[i] = "archiving" THEN [state EXCEPT ![i] = to] ELSE state
    /\ Goes(i, IF to = "wanted" THEN "queued" ELSE "ending")
    /\ UNCHANGED <<block, room, stored, counting, quota, landed, base>>

Changed(i) ==
    /\ job[i] = "running" /\ Announced[i] <= room[i] /\ state[i] # "archiving" /\ ~Held(i)
    /\ Goes(i, "ending")
    /\ UNCHANGED <<state, block, room, stored, counting, quota, landed, base, ahead>>

Finish(i) ==
    /\ job[i] = "ending" /\ Goes(i, "none")
    /\ UNCHANGED <<state, block, room, stored, counting, quota, landed, base, ahead>>

-----------------------------------------------------------------------------
(* The transactions that recount a Feed.                                    *)
ArchivedOf(f) == {i \in Episodes : FeedOf[i] = f /\ state[i] = "archived"}

\* recount_storage begins: its SUM sees what is committed and the row of its own
\* transaction, and waits with that for the lock of the Feed's row.
Counts(i, to, seen) ==
    /\ ~Held(i) /\ (Overlapping \/ counting[FeedOf[i]] = <<>>)
    /\ counting' = [counting EXCEPT ![FeedOf[i]] =
                       Append(@, [item |-> i, to |-> to, seen |-> seen])]

Fetched(i) ==
    /\ job[i] = "running" /\ Announced[i] <= room[i] /\ state[i] = "archiving"
    /\ Counts(i, "archived", ArchivedOf(FeedOf[i]) \cup {i})
    /\ UNCHANGED <<state, block, job, room, stored, quota, landed, base, ahead>>

\* delete_episode, by a user, an expiry or a prune.
Delete(i) ==
    /\ state[i] # "deleted" /\ Pays("deletions")
    /\ Counts(i, "deleted", ArchivedOf(FeedOf[i]) \ {i})
    /\ UNCHANGED <<state, block, job, room, stored, quota, landed, base>>

\* The commit of the one that holds the lock.
Commit(f) ==
    /\ counting[f] # <<>>
    /\ LET done == Head(counting[f])
           now  == [stored EXCEPT ![f] = Sum(Bytes, done.seen)]
       IN  /\ state' = [state EXCEPT ![done.item] = done.to]
           /\ stored' = now
           /\ counting' = [counting EXCEPT ![f] = Tail(@)]
           /\ job' = IF done.to = "archived" THEN [job EXCEPT ![done.item] = "ending"] ELSE job
           /\ landed' = IF Sum(now, Feeds) >= quota
                        THEN landed \cup (IF done.to = "archived" THEN {done.item} ELSE {}) ELSE {}
    /\ UNCHANGED <<block, room, quota, base, ahead>>

\* The database refuses it: the job that archived is retried and finds its row as
\* it left it, the deletion is an error of its request.
RollBack(f) ==
    /\ counting[f] # <<>> /\ Pays("failures")
    /\ counting' = [counting EXCEPT ![f] = Tail(@)]
    /\ LET undone == Head(counting[f])
       IN  job' = IF undone.to = "archived" THEN [job EXCEPT ![undone.item] = "queued"] ELSE job
    /\ UNCHANGED <<state, block, room, stored, quota, landed, base>>

-----------------------------------------------------------------------------
\* clear_unwanted
ClearBlocks ==
    /\ \E i \in Episodes : block[i].on /\ state[i] # "wanted"
    /\ block' = [i \in Episodes |-> IF state[i] # "wanted" THEN NoBlock ELSE block[i]]
    /\ UNCHANGED <<state, job, room, stored, counting, quota, landed, base, ahead>>

\* blocked_for_release: by priority, an unknown size first, then the small ones.
Before(i, k) == Rank[i] < Rank[k] \/ (Rank[i] = Rank[k] /\ block[i].bytes < block[k].bytes)
Releasable(fits) ==
    LET rows == SetToSortSeq({i \in Episodes : block[i].on /\ state[i] = "wanted" /\ block[i].bytes <= fits},
                             Before)
    IN  SubSeq(rows, 1, IF Len(rows) < RELEASE_PER_TICK THEN Len(rows) ELSE RELEASE_PER_TICK)

\* Each one that fits what is left of the room spends it.
Spends(walk, i) ==
    IF block[i].bytes <= walk.left
    THEN [ids |-> walk.ids \cup {i}, left |-> walk.left - block[i].bytes] ELSE walk
Picked(rows) == FoldLeft(Spends, [ids |-> {}, left |-> Remaining], rows).ids

ReleasedOfAll == Picked(Releasable(quota + Sum(Announced, Episodes)))    \* rows of any size are looked at
Released == Picked(Releasable(Remaining))

\* release_if_room, every minute and after a prune that freed bytes.
Release ==
    /\ ~Over /\ Released # {} /\ \A i \in Released : ~Held(i)
    /\ block' = [i \in Episodes |-> IF i \in Released THEN NoBlock ELSE block[i]]
    /\ job' = Enqueued(Released)
    /\ UNCHANGED <<state, room, stored, counting, quota, landed, base, ahead>>

\* The worker dies, between the last transactions of its jobs, and another starts,
\* perhaps with another quota; the jobs that ran are queued again.
Restart(q) ==
    /\ Pays("restarts") /\ \A i \in Running : ~Held(i)
    /\ quota' = q /\ base' = Used /\ landed' = {}
    /\ job' = [i \in Episodes |-> IF i \in Busy THEN "queued" ELSE job[i]]
    /\ UNCHANGED <<state, block, room, stored, counting>>

JobStep(i) == Skip(i) \/ StartOver(i) \/ Start(i) \/ TooLarge(i) \/ Changed(i) \/ Fetched(i) \/ Finish(i)

QuotaNext ==
    \/ \E i \in Episodes :
         \/ BecomesDue(i) \/ Requeue(i) \/ Ask(i) \/ Delete(i)
         \/ JobStep(i) \/ Fails(i, "wanted") \/ Fails(i, "failed")
    \/ \E f \in Feeds : Commit(f) \/ RollBack(f)
    \/ ClearBlocks \/ Release
    \/ \E q \in Quotas : Restart(q)

-----------------------------------------------------------------------------
\* "an Owner can therefore end up over quota by up to one Episode per archive job
\* running in parallel": what lands while the Owner is over was in flight when
\* it last had room, and that is all there is above the quota (or above what was
\* stored when a worker started with a smaller one).
SlotsBound == Cardinality(landed \cup Running) <= Slots
OvershootBounded ==
    /\ SlotsBound
    /\ LET real == Sum(Bytes, {i \in Episodes : state[i] = "archived"})
       IN  real <= (IF base > quota THEN base ELSE quota) + Sum(Bytes, landed)

\* A blocked item that fits the room left does not wait for ever behind those
\* that do not: it gets an archive job, unless it is wanted no longer or the room goes
\* to others.  One case is left out, as the code leaves it: released before the job
\* that blocked it has ended, it gets no other (enqueue takes that job for an active
\* one) and waits, unblocked, for a Refresh of its Feed.
Fits(i) == block[i].on /\ state[i] = "wanted" /\ ~Over /\ block[i].bytes <= Remaining
HasJob(i) == job[i] \in {"queued", "running"}
TakenForActive(i) == ~block[i].on /\ job[i] = "ending"
GivenUp(i) == state[i] # "wanted" \/ (block[i].on /\ ~Fits(i))
BlockedReleased == \A i \in Episodes : Fits(i) ~> (HasJob(i) \/ TakenForActive(i) \/ GivenUp(i))

\* "storage_bytes = archived media bytes + archived asset bytes"
\* (adapters/db/repositories/feeds.py, recount_storage).
UsageIsTheSum == \A f \in Feeds : counting[f] = <<>> => stored[f] = Sum(Bytes, ArchivedOf(f))
=============================================================================
