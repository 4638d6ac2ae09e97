---------------------------- MODULE ArchiveProofs ----------------------------
(***************************************************************************)
(* What holds of the Episodes for every Catalog, every set of jobs and any *)
(* amount of misfortune: the Locks that deletions have seen, and that no   *)
(* archive job takes the object of an archived Episode; and, while no      *)
(* worker dies, that the row of every item follows the job about it.       *)
(***************************************************************************)
EXTENDS Archive, TLAPS

-----------------------------------------------------------------------------
(* The rows of the jobs table.                                              *)

\* Queuing only touches job ids that were not used yet.
LEMMA QueuedKeeps ==
    ASSUME Q!TypeOK, NEW S, NEW od, CanQueue(S, od)
    PROVE  /\ Queued(job, S, od) \in [Jobs -> Q!Row]
           /\ \A j \in Jobs : job[j].status # "unborn" => Queued(job, S, od)[j] = job[j]
           /\ \A j \in Jobs : Queued(job, S, od)[j] = job[j]
                                \/ Queued(job, S, od)[j].status = "queued"
<1> DEFINE new == {CHOOSE j \in Spare(k, od) : TRUE : k \in Lacking(S)}
<1>1. \A j \in new : job[j].status = "unborn"
  BY DEF CanQueue, Spare
<1>2. [Q!Unborn EXCEPT !.status = "queued", !.due = TRUE] \in Q!Row
  BY DEF Q!Unborn, Q!Row, Q!Status, Q!Active
<1>3. [Q!Unborn EXCEPT !.status = "queued", !.due = TRUE].status = "queued"
  BY DEF Q!Unborn
<1>4. Queued(job, S, od) =
        [j \in Jobs |-> IF j \in new
                        THEN [Q!Unborn EXCEPT !.status = "queued", !.due = TRUE] ELSE job[j]]
  BY DEF Queued
<1> HIDE DEF new
<1> QED
  BY <1>1, <1>2, <1>3, <1>4 DEF Q!TypeOK

\* A cancel flags a running row and leaves it running.
LEMMA CancelledKeeps ==
    ASSUME Q!TypeOK, NEW j \in Jobs
    PROVE  /\ Q!Cancelled(j) \in Q!Row
           /\ Q!Cancelled(j).status = "running" <=> job[j].status = "running"
           /\ Q!Cancelled(j).fresh = job[j].fresh
BY DEF Q!TypeOK, Q!Row, Q!Cancelled, Q!Status, Q!Active, Q!Finished

\* The methods of the table that end or release a row.
LEMMA EndedKeeps ==
    ASSUME Q!TypeOK, NEW j \in Jobs,
           \/ \E s \in Q!Finished : Q!Finish(j, s)
           \/ \E b, c \in BOOLEAN : Q!Requeue(j, b, c)
    PROVE  /\ Q!TypeOK'
           /\ \A k \in Jobs : k # j => job'[k] = job[k]
           /\ job'[j].status # "running"
<1>1. CASE \E s \in Q!Finished : Q!Finish(j, s)
  BY <1>1 DEF Q!TypeOK, Q!Row, Q!Finish, Q!Status, Q!Finished
<1>2. ASSUME NEW b \in BOOLEAN, NEW c \in BOOLEAN, Q!Requeue(j, b, c)
      PROVE  /\ Q!TypeOK'
             /\ \A k \in Jobs : k # j => job'[k] = job[k]
             /\ job'[j].status # "running"
  <2>1. job[j] \in Q!Row
    BY DEF Q!TypeOK
  <2>2. Q!Counted(job[j].attempt, c) \in Nat
    BY <2>1 DEF Q!Counted, Q!Row
  <2>3. Q!Released(job[j], b, c) \in Q!Row /\ Q!Released(job[j], b, c).status = "queued"
    BY <2>1, <2>2 DEF Q!Released, Q!Row, Q!Status, Q!Active
  <2> QED
    BY <1>2, <2>1, <2>3 DEF Q!TypeOK, Q!Requeue
<1> QED
  BY <1>1, <1>2

\* Settling a job finishes or releases its row.
LEMMA SettledEnds ==
    ASSUME NEW j \in Jobs, Settled(j)
    PROVE  \/ \E s \in Q!Finished : Q!Finish(j, s)
           \/ \E b, c \in BOOLEAN : Q!Requeue(j, b, c)
BY DEF Settled, Q!Finished

-----------------------------------------------------------------------------
(* The inductive invariant: an execution owns a running row that is fresh,  *)
(* an item has one running job, and what a job downloads is not archived.   *)
OwnsRow == \A j \in Jobs : exec[j].phase # "none" => job[j].status = "running" /\ job[j].fresh

OneRunning ==
    \A j, k \in Q!InStatus({"running"}) : (ItemOf[j] = ItemOf[k] /\ ItemOf[j] \in Items) => j = k

Downloading == Working \cup {"discarding"}
NotYetArchived ==
    \A j \in Jobs : exec[j].phase \in Downloading =>
        KindOf[j] = "archive" /\ item[ItemOf[j]].state # "archived"

IInv == TypeOK /\ OwnsRow /\ OneRunning /\ NotYetArchived

\* The rows that run go on running, and no other row starts.
Kept == \A k \in Jobs :
    /\ job'[k].status = "running" => job[k].status = "running"
    /\ (job[k].status = "running" /\ job[k].fresh) => job'[k].status = "running" /\ job'[k].fresh

\* Queuing, cancelling and the stale sweep start no row, and leave the running
\* rows with a fresh heartbeat running.
LEMMA GentleRows ==
    ASSUME Q!TypeOK,
           \/ UNCHANGED job
           \/ \E S, od : CanQueue(S, od) /\ job' = Queued(job, S, od)
           \/ \E j \in Jobs : job' = [job EXCEPT ![j] = Q!Cancelled(j)]
           \/ Q!CancelForFeed(Feed)
           \/ Q!Maintenance({})
    PROVE  Q!TypeOK' /\ Kept
<1>1. CASE UNCHANGED job
  BY <1>1 DEF Q!TypeOK, Kept
<1>2. ASSUME NEW S, NEW od, CanQueue(S, od), job' = Queued(job, S, od) PROVE Q!TypeOK' /\ Kept
  <2>1. \A j \in Jobs : job[j].status # "unborn" => job'[j] = job[j]
    BY <1>2, QueuedKeeps
  <2>2. \A j \in Jobs : job'[j] = job[j] \/ job'[j].status = "queued"
    BY <1>2, QueuedKeeps
  <2>3. job' \in [Jobs -> Q!Row]
    BY <1>2, QueuedKeeps
  <2> QED
    BY <2>1, <2>2, <2>3 DEF Q!TypeOK, Kept
<1>3. ASSUME NEW j \in Jobs, job' = [job EXCEPT ![j] = Q!Cancelled(j)] PROVE Q!TypeOK' /\ Kept
  BY <1>3, CancelledKeeps DEF Q!TypeOK, Kept
<1>4. CASE Q!CancelForFeed(Feed)
  BY <1>4, CancelledKeeps DEF Q!CancelForFeed, Q!TypeOK, Kept
<1>5. CASE Q!Maintenance({})
  <2>1. \A k \in Jobs : k \notin Q!Stale => job'[k] = job[k]
    BY <1>5 DEF Q!Maintenance
  <2>2. \A k \in Q!Stale : job'[k] = [job[k] EXCEPT !.status = "queued"] /\ ~job[k].fresh
    BY <1>5 DEF Q!Maintenance, Q!Stale, Q!InStatus
  <2>3. Q!TypeOK'
    BY <1>5 DEF Q!Maintenance, Q!TypeOK, Q!Row, Q!Status, Q!Active
  <2> QED
    BY <2>1, <2>2, <2>3 DEF Kept, Q!TypeOK, Q!Row, Q!Stale, Q!InStatus
<1> QED
  BY <1>1, <1>2, <1>3, <1>4, <1>5

\* A claim starts its own row, which was queued, and touches no other.
LEMMA ClaimStarts ==
    ASSUME Q!TypeOK, NEW j \in Jobs, NEW b \in BOOLEAN, Q!Claim(j, b)
    PROVE  /\ Q!TypeOK'
           /\ job'[j].status = "running" /\ job'[j].fresh /\ job[j].status = "queued"
           /\ \A k \in Jobs : k # j => job'[k] = job[k]
<1>1. job[j] \in Q!Row
  BY DEF Q!TypeOK
<1>2. job[j].attempt + 1 \in Nat
  BY <1>1 DEF Q!Row
<1> QED
  BY <1>1, <1>2 DEF Q!Claim, Q!Claimable, Q!TypeOK, Q!Row, Q!Status, Q!Active

-----------------------------------------------------------------------------
(* The executions.                                                          *)

\* A handler that goes on: its record changes, and it still runs.
Moves(j) ==
    \E r \in ExecRow : exec[j].phase # "none" /\ r.phase # "none" /\ exec' = [exec EXCEPT ![j] = r]

\* Moving to a phase, or returning an outcome, is such a change.
LEMMA MoveTo ==
    ASSUME TypeOK, NEW j \in Jobs, exec[j].phase # "none",
           \/ \E p \in Phases \ {"none"} : To(j, p)
           \/ \E o \in Outcomes : Return(j, o)
    PROVE  Moves(j)
<1>1. exec[j] \in ExecRow
  BY DEF TypeOK
<1>2. ASSUME NEW p \in Phases \ {"none"}, To(j, p) PROVE Moves(j)
  <2>1. [exec[j] EXCEPT !.phase = p] \in ExecRow /\ [exec[j] EXCEPT !.phase = p].phase = p
    BY <1>1 DEF ExecRow
  <2> QED
    BY <1>2, <2>1 DEF To, Moves
<1>3. ASSUME NEW o \in Outcomes, Return(j, o) PROVE Moves(j)
  <2>1. [exec[j] EXCEPT !.phase = "settling", !.outcome = o] \in ExecRow
        /\ [exec[j] EXCEPT !.phase = "settling", !.outcome = o].phase = "settling"
    BY <1>1 DEF ExecRow, Phases
  <2> QED
    BY <1>3, <2>1 DEF Return, Moves
<1> QED
  BY <1>2, <1>3

\* Every step of a handler or its monitor is such a change of its own execution.
LEMMA HandlerMoves ==
    ASSUME TypeOK, NEW j \in Jobs,
           \/ Handler(j) /\ ~Settle(j)
           \/ Raises(j) \/ MonitorPoll(j) \/ SoftTimeout(j)
    PROVE  Moves(j)
<1>0. exec[j] \in ExecRow /\ mode \in Modes
  BY DEF TypeOK
<1>1. CASE Begin(j)
  BY <1>1, MoveTo DEF Begin, Is, Phases, Outcomes
<1>2. CASE FetchOk(j) \/ Upload(j)
  BY <1>2, MoveTo DEF FetchOk, Upload, Is, Phases
<1>3. CASE FetchTooLarge(j) \/ UploadFails(j) \/ Commit(j) \/ Discard(j) \/ Erased(j)
  BY <1>3, MoveTo DEF FetchTooLarge, UploadFails, Commit, Discard, Erased, Is, Outcomes
<1>4. ASSUME NEW o \in Outcomes, FetchFails(j, o) \/ OtherFails(j, o) PROVE Moves(j)
  BY <1>4, MoveTo DEF FetchFails, OtherFails, Is
<1>5. CASE Mark(j)
  <2>1. CASE To(j, "discarding")
    BY <1>5, <2>1, MoveTo DEF Mark, Is, Phases
  <2>2. CASE exec' = [exec EXCEPT ![j] = [@ EXCEPT !.phase = "committing",
                                                  !.lock = (mode = Locking)]]
    <3> DEFINE r == [exec[j] EXCEPT !.phase = "committing", !.lock = (mode = Locking)]
    <3>1. r \in ExecRow /\ r.phase = "committing"
      BY <1>0 DEF ExecRow, Phases
    <3>2. exec' = [exec EXCEPT ![j] = r] /\ exec[j].phase # "none"
      BY <1>5, <2>2 DEF Mark, Is
    <3> HIDE DEF r
    <3> QED
      BY <3>1, <3>2 DEF Moves
  <2> QED
    BY <1>5, <2>1, <2>2 DEF Mark
<1>6. CASE Expire(j)
  BY <1>6, MoveTo DEF Expire, Is, Phases, Outcomes
<1>7. CASE RefreshApply(j)
  BY <1>7, MoveTo DEF RefreshApply, Is, Phases
<1>8. CASE Raises(j)
  BY <1>8, MoveTo DEF Raises, ScratchFails, AttachmentsFail, DatabaseError, Unheard, Is, Outcomes
<1>9. CASE MonitorPoll(j)
  <2> DEFINE r == [exec[j] EXCEPT !.token = TRUE, !.user = TRUE]
  <2>1. r \in ExecRow /\ r.phase = exec[j].phase
    BY <1>0 DEF ExecRow
  <2>2. exec' = [exec EXCEPT ![j] = r] /\ exec[j].phase # "none"
    BY <1>9 DEF MonitorPoll
  <2> HIDE DEF r
  <2> QED
    BY <2>1, <2>2 DEF Moves
<1>10. CASE SoftTimeout(j)
  <2> DEFINE r == [exec[j] EXCEPT !.token = TRUE, !.timedOut = TRUE]
  <2>1. r \in ExecRow /\ r.phase = exec[j].phase
    BY <1>0 DEF ExecRow
  <2>2. exec' = [exec EXCEPT ![j] = r] /\ exec[j].phase # "none"
    BY <1>10 DEF SoftTimeout
  <2> HIDE DEF r
  <2> QED
    BY <2>1, <2>2 DEF Moves
<1> QED
  BY <1>1, <1>2, <1>3, <1>4, <1>5, <1>6, <1>7, <1>8, <1>9, <1>10 DEF Handler

\* A job leaves its execution with its row ended or queued.
LEMMA Leaves ==
    ASSUME TypeOK, OwnsRow, NEW j \in Jobs, Settle(j) \/ MarkStuck(j) \/ Leftover(j)
    PROVE  /\ Q!TypeOK' /\ exec' = [exec EXCEPT ![j] = NoExec]
           /\ \A k \in Jobs : k # j => job'[k] = job[k]
           /\ job'[j].status # "running"
<1>1. \/ \E s \in Q!Finished : Q!Finish(j, s)
      \/ \E b, c \in BOOLEAN : Q!Requeue(j, b, c)
  BY SettledEnds DEF Settle, MarkStuck, Leftover, Q!Finished
<1>2. exec' = [exec EXCEPT ![j] = NoExec]
  BY DEF Settle, MarkStuck, Leftover
<1>3. Q!TypeOK
  BY DEF TypeOK
<1> QED
  BY <1>1, <1>2, <1>3, EndedKeeps

\* The steps of nobody's execution leave the running rows running.
Others ==
    \/ \E i \in Items : \/ DeleteItem(i) \/ LateUpload(i)
                        \/ \E b \in BOOLEAN : ArchiveItem(i, b) \/ SetArchiveFlag(i, b)
    \/ \E a \in Actors : EraseCommit(a) \/ EraseHook(a)
    \/ \E m \in Modes : UpdateMirror(m)
    \/ \E b \in BOOLEAN : SetPaused(b)
    \/ \E j \in Jobs : CancelJob(j)
    \/ ClearFeed \/ Restart \/ ApiCrash
    \/ Maintenance \/ Schedule \/ Release
    \/ UNCHANGED vars

\* They change no execution either.
LEMMA OthersAreGentle ==
    ASSUME TypeOK, Others
    PROVE  Q!TypeOK' /\ Kept /\ UNCHANGED exec
<1>0. Q!TypeOK
  BY DEF TypeOK
<1>1. CASE UNCHANGED <<job, exec>>
  BY <1>0, <1>1, GentleRows
<1>2. ASSUME NEW S, NEW od, CanQueue(S, od), job' = Queued(job, S, od), UNCHANGED exec
      PROVE  Q!TypeOK' /\ Kept /\ UNCHANGED exec
  BY <1>0, <1>2, GentleRows
<1>3. ASSUME NEW i \in Items PROVE
        /\ DeleteItem(i) \/ LateUpload(i) => UNCHANGED <<job, exec>>
        /\ \A b \in BOOLEAN : SetArchiveFlag(i, b) => UNCHANGED <<job, exec>>
        /\ \A b \in BOOLEAN : ArchiveItem(i, b) =>
              UNCHANGED exec /\ \E S, od : CanQueue(S, od) /\ job' = Queued(job, S, od)
  BY DEF DeleteItem, LateUpload, SetArchiveFlag, ArchiveItem
<1>4. ASSUME NEW a \in Actors, EraseCommit(a) PROVE Q!TypeOK' /\ Kept /\ UNCHANGED exec
  <2>1. CASE erase[a].job = NoJob
    BY <1>1, <1>4, <2>1 DEF EraseCommit
  <2>2. CASE erase[a].job # NoJob
    <3>1. erase[a].job \in Jobs
      BY <2>2 DEF TypeOK, EraseRow
    <3>2. job' = [job EXCEPT ![erase[a].job] = Q!Cancelled(erase[a].job)] /\ UNCHANGED exec
      BY <1>4, <2>2 DEF EraseCommit
    <3> QED
      BY <1>0, <3>1, <3>2, GentleRows
  <2> QED
    BY <2>1, <2>2
<1>5. ASSUME NEW a \in Actors, EraseHook(a) PROVE UNCHANGED <<job, exec>>
  BY <1>5 DEF EraseHook
<1>6. ASSUME NEW m \in Modes, UpdateMirror(m) PROVE Q!TypeOK' /\ Kept /\ UNCHANGED exec
  BY <1>2, <1>6 DEF UpdateMirror
<1>7. ASSUME NEW b \in BOOLEAN, SetPaused(b) PROVE Q!TypeOK' /\ Kept /\ UNCHANGED exec
  <2>1. CASE b
    BY <1>0, <1>7, <2>1, GentleRows DEF SetPaused
  <2>2. CASE ~b
    BY <1>2, <1>7, <2>2 DEF SetPaused
  <2> QED
    BY <2>1, <2>2
<1>8. ASSUME NEW j \in Jobs, CancelJob(j) PROVE Q!TypeOK' /\ Kept /\ UNCHANGED exec
  BY <1>0, <1>8, GentleRows DEF CancelJob, Q!Cancel
<1>9. CASE ClearFeed \/ Restart \/ ApiCrash \/ UNCHANGED vars
  BY <1>1, <1>9 DEF ClearFeed, Restart, ApiCrash, vars
<1>10. CASE Maintenance
  BY <1>0, <1>10, GentleRows DEF Maintenance
<1>11. CASE Schedule
  BY <1>2, <1>11 DEF Schedule
<1>12. CASE Release
  BY <1>2, <1>12 DEF Release
<1> QED
  BY <1>1, <1>2, <1>3, <1>4, <1>5, <1>6, <1>7, <1>8, <1>9, <1>10, <1>11, <1>12 DEF Others

\* Who takes a step: the worker, a handler of its, or somebody else.
LEMMA WhoSteps ==
    ASSUME [Next]_vars
    PROVE  \/ \E j \in Jobs : Claim(j)
           \/ \E j \in Jobs : Settle(j) \/ MarkStuck(j) \/ Leftover(j)
           \/ \E j \in Jobs : \/ Handler(j) /\ ~Settle(j)
                              \/ Raises(j) \/ MonitorPoll(j) \/ SoftTimeout(j)
           \/ \E j \in Jobs : GoStale(j)
           \/ Sigterm \/ Crash
           \/ Others
BY Zenon DEF Next, Others

\* Every step keeps the types of the rows and executions, an execution's hold on
\* its row, and the one running job of an item.
LEMMA RowsStep ==
    ASSUME TypeOK, OwnsRow, OneRunning, [Next]_vars
    PROVE  Q!TypeOK' /\ exec' \in [Jobs -> ExecRow] /\ OwnsRow' /\ OneRunning'
<1>0. Q!TypeOK /\ exec \in [Jobs -> ExecRow]
  BY DEF TypeOK
<1>0a. NoExec \in ExecRow /\ NoExec.phase = "none"
  BY DEF NoExec, ExecRow, Phases, Outcomes
<1>1. Kept => OneRunning'
  BY DEF Kept, OneRunning, Q!InStatus
<1>2. ASSUME NEW j \in Jobs, Claim(j)
      PROVE  Q!TypeOK' /\ exec' \in [Jobs -> ExecRow] /\ OwnsRow' /\ OneRunning'
  <2>1. PICK b \in BOOLEAN : Q!Claim(j, b)
    BY <1>2 DEF Claim
  <2>2. /\ Q!TypeOK'
        /\ job'[j].status = "running" /\ job'[j].fresh /\ job[j].status = "queued"
        /\ \A k \in Jobs : k # j => job'[k] = job[k]
    BY <1>0, <2>1, ClaimStarts
  <2>3. exec' \in [Jobs -> ExecRow] /\ \A k \in Jobs : k # j => exec'[k] = exec[k]
    <3>1. [exec[j] EXCEPT !.phase = "begin"] \in ExecRow
      BY <1>0 DEF ExecRow, Phases
    <3> QED
      BY <1>0, <1>2, <3>1 DEF Claim, To
  <2>4. OwnsRow'
    BY <2>2, <2>3 DEF OwnsRow
  <2>5. \A k \in Jobs : (job[k].status = "running" /\ ItemOf[k] = ItemOf[j]) => ItemOf[j] \notin Items
    BY <2>1, ArchiveAssumption
    DEF Q!Claim, Q!Claimable, Q!RunningSameItem, Q!RunningSameFeed, Q!InStatus, FeedOf
  <2>6. OneRunning'
    BY <2>2, <2>5 DEF OneRunning, Q!InStatus
  <2> QED
    BY <2>2, <2>3, <2>4, <2>6
<1>3. ASSUME NEW j \in Jobs, Settle(j) \/ MarkStuck(j) \/ Leftover(j)
      PROVE  Q!TypeOK' /\ exec' \in [Jobs -> ExecRow] /\ OwnsRow' /\ OneRunning'
  <2>1. /\ Q!TypeOK' /\ exec' = [exec EXCEPT ![j] = NoExec]
        /\ \A k \in Jobs : k # j => job'[k] = job[k]
        /\ job'[j].status # "running"
    BY <1>3, Leaves
  <2> QED
    BY <1>0, <1>0a, <2>1 DEF OwnsRow, OneRunning, Q!InStatus
<1>4. ASSUME NEW j \in Jobs,
             \/ Handler(j) /\ ~Settle(j)
             \/ Raises(j) \/ MonitorPoll(j) \/ SoftTimeout(j)
      PROVE  Q!TypeOK' /\ exec' \in [Jobs -> ExecRow] /\ OwnsRow' /\ OneRunning'
  <2>1. PICK r \in ExecRow :
           exec[j].phase # "none" /\ r.phase # "none" /\ exec' = [exec EXCEPT ![j] = r]
    BY <1>4, HandlerMoves DEF Moves
  <2>2. UNCHANGED job \/ \E S, od : CanQueue(S, od) /\ job' = Queued(job, S, od)
    BY <1>4 DEF Handler, Raises, ScratchFails, AttachmentsFail, DatabaseError, Unheard, MonitorPoll, SoftTimeout, Begin, FetchOk, FetchFails,
                FetchTooLarge, Upload, UploadFails, Mark, Commit, Discard, Expire,
                RefreshApply, OtherFails, Erased
  <2>3. Q!TypeOK' /\ Kept
    BY <1>0, <2>2, GentleRows
  <2> QED
    BY <1>0, <1>1, <2>1, <2>3 DEF OwnsRow, Kept
<1>5. ASSUME NEW j \in Jobs, GoStale(j)
      PROVE  Q!TypeOK' /\ exec' \in [Jobs -> ExecRow] /\ OwnsRow' /\ OneRunning'
  <2>1. /\ exec[j].phase = "none" /\ job[j].status = "running" /\ UNCHANGED exec
        /\ job' = [job EXCEPT ![j].fresh = FALSE]
    BY <1>5 DEF GoStale, Is, Q!GoStale
  <2>2. /\ Q!TypeOK'
        /\ \A k \in Jobs : job'[k].status = job[k].status
        /\ \A k \in Jobs : k # j => job'[k] = job[k]
    BY <1>0, <2>1 DEF Q!TypeOK, Q!Row
  <2> QED
    BY <1>0, <2>1, <2>2 DEF OwnsRow, OneRunning, Q!InStatus
<1>6. ASSUME Sigterm \/ Crash
      PROVE  Q!TypeOK' /\ exec' \in [Jobs -> ExecRow] /\ OwnsRow' /\ OneRunning'
  <2>1. UNCHANGED job
    BY <1>6 DEF Sigterm, Crash
  <2>2. \A k \in Jobs : [exec[k] EXCEPT !.token = TRUE] \in ExecRow
    BY <1>0 DEF ExecRow
  <2>3. exec' \in [Jobs -> ExecRow] /\ \A k \in Jobs : exec[k].phase = "none" => exec'[k].phase = "none"
    BY <1>0, <1>0a, <1>6, <2>2 DEF Sigterm, Crash, Is
  <2> QED
    BY <1>0, <2>1, <2>3 DEF OwnsRow, OneRunning, Q!InStatus, Q!TypeOK
<1>7. ASSUME Others
      PROVE  Q!TypeOK' /\ exec' \in [Jobs -> ExecRow] /\ OwnsRow' /\ OneRunning'
  <2>1. Q!TypeOK' /\ Kept /\ UNCHANGED exec
    BY <1>7, OthersAreGentle
  <2> QED
    BY <1>0, <1>1, <2>1 DEF OwnsRow, Kept
<1> QED
  BY <1>2, <1>3, <1>4, <1>5, <1>6, <1>7, WhoSteps

-----------------------------------------------------------------------------
(* The Catalog rows.                                                        *)

\* Rows of the right type in which nothing has become archived.
Sound(rows) ==
    /\ rows \in [Items -> ItemRow]
    /\ \A i \in Items : rows[i].state = "archived" => item[i].state = "archived"

\* What the Catalog's statements write is sound, apart from the last transaction
\* of an archive job.
LEMMA ChangesAreSound ==
    ASSUME TypeOK, NEW i \in Items
    PROVE  /\ Sound(item)
           /\ \A S : Sound(Wanted(S))
           /\ \A rows, S : Sound(rows) => Sound(Tombstoned(rows, S))
           /\ Sound(Blocked(i))
           /\ \A s \in {"wanted", "failed"} : Sound(FromArchiving(i, s))
           /\ \A b \in BOOLEAN : Sound([item EXCEPT ![i] = [@ EXCEPT !.flag = b]])
           /\ \A rows : Sound(rows) => Sound([rows EXCEPT ![i] = [@ EXCEPT !.blocked = FALSE]])
           /\ Sound([item EXCEPT ![i] = [@ EXCEPT !.state = "archiving"]])
<1>0. item \in [Items -> ItemRow]
  BY DEF TypeOK
<1>1. Sound(item)
  BY <1>0 DEF Sound
<1>2. ASSUME NEW S PROVE Sound(Wanted(S))
  <2>1. \A k \in Items : [item[k] EXCEPT !.state = "wanted"] \in ItemRow
    BY <1>0 DEF ItemRow, States
  <2>2. \A k \in Items : [item[k] EXCEPT !.state = "wanted"].state = "wanted"
    BY <1>0 DEF ItemRow
  <2> QED
    BY <1>0, <2>1, <2>2 DEF Sound, Wanted
<1>3. ASSUME NEW rows, NEW S, Sound(rows) PROVE Sound(Tombstoned(rows, S))
  <2>1. \A k \in Items : /\ [rows[k] EXCEPT !.state = "deleted", !.media = FALSE] \in ItemRow
                         /\ [rows[k] EXCEPT !.state = "deleted", !.media = FALSE].state = "deleted"
    BY <1>3 DEF Sound, ItemRow, States
  <2> QED
    BY <1>3, <2>1 DEF Sound, Tombstoned
<1>4. ASSUME NEW r \in ItemRow, r.state = "archived" => item[i].state = "archived"
      PROVE  Sound([item EXCEPT ![i] = r])
  BY <1>0, <1>4 DEF Sound
<1>5. Sound(Blocked(i))
  <2> DEFINE r == [item[i] EXCEPT !.state = "wanted", !.blocked = TRUE]
  <2>1. r \in ItemRow /\ r.state = "wanted"
    BY <1>0 DEF ItemRow, States
  <2>2. Blocked(i) = item \/ Blocked(i) = [item EXCEPT ![i] = r]
    BY DEF Blocked
  <2> HIDE DEF r
  <2> QED
    BY <1>1, <1>4, <2>1, <2>2
<1>6. ASSUME NEW s \in {"wanted", "failed"} PROVE Sound(FromArchiving(i, s))
  <2> DEFINE r == [item[i] EXCEPT !.state = s]
  <2>1. r \in ItemRow /\ r.state = s
    BY <1>0 DEF ItemRow, States
  <2>2. FromArchiving(i, s) = item \/ FromArchiving(i, s) = [item EXCEPT ![i] = r]
    BY DEF FromArchiving
  <2> HIDE DEF r
  <2> QED
    BY <1>1, <1>4, <2>1, <2>2
<1>7. ASSUME NEW b \in BOOLEAN PROVE Sound([item EXCEPT ![i] = [@ EXCEPT !.flag = b]])
  <2> DEFINE r == [item[i] EXCEPT !.flag = b]
  <2>1. r \in ItemRow /\ r.state = item[i].state
    BY <1>0 DEF ItemRow
  <2>2. [item EXCEPT ![i] = [@ EXCEPT !.flag = b]] = [item EXCEPT ![i] = r]
    OBVIOUS
  <2> HIDE DEF r
  <2> QED
    BY <1>4, <2>1, <2>2
<1>8. ASSUME NEW rows, Sound(rows) PROVE Sound([rows EXCEPT ![i] = [@ EXCEPT !.blocked = FALSE]])
  <2> DEFINE r == [rows[i] EXCEPT !.blocked = FALSE]
  <2>1. r \in ItemRow /\ r.state = rows[i].state
    BY <1>8 DEF ItemRow, Sound
  <2>2. [rows EXCEPT ![i] = [@ EXCEPT !.blocked = FALSE]] = [rows EXCEPT ![i] = r]
    OBVIOUS
  <2> HIDE DEF r
  <2> QED
    BY <1>8, <2>1, <2>2 DEF Sound
<1>9. Sound([item EXCEPT ![i] = [@ EXCEPT !.state = "archiving"]])
  <2> DEFINE r == [item[i] EXCEPT !.state = "archiving"]
  <2>1. r \in ItemRow /\ r.state = "archiving"
    BY <1>0 DEF ItemRow, States
  <2>2. [item EXCEPT ![i] = [@ EXCEPT !.state = "archiving"]] = [item EXCEPT ![i] = r]
    OBVIOUS
  <2> HIDE DEF r
  <2> QED
    BY <1>4, <2>1, <2>2
<1> QED
  BY <1>1, <1>2, <1>3, <1>5, <1>6, <1>7, <1>8, <1>9

\* Only an archive job's last transaction archives, its own item.
LEMMA ItemStep ==
    ASSUME TypeOK, NotYetArchived, [Next]_vars
    PROVE  \/ Sound(item')
           \/ \E j \in Jobs : Commit(j) /\ KindOf[j] = "archive"
<1>0. \A j \in Jobs : KindOf[j] = "archive" => ItemOf[j] \in Items
  BY ArchiveAssumption
<1>1. \A j \in Jobs : exec[j].phase \in {"fetching", "uploading", "uploaded", "committing", "discarding"}
                        => KindOf[j] = "archive"
  BY DEF NotYetArchived, Downloading, Working
<1>2. UNCHANGED item => Sound(item')
  BY DEF Sound, TypeOK
<1>3. ASSUME NEW j \in Jobs, Begin(j) PROVE Sound(item')
  BY <1>0, <1>2, <1>3, ChangesAreSound DEF Begin
<1>4. ASSUME NEW j \in Jobs, NEW o \in Outcomes, FetchFails(j, o) PROVE Sound(item')
  <2>1. Recorded(j, o) \in {"wanted", "failed"}
    BY DEF Recorded
  <2> QED
    BY <1>0, <1>1, <1>4, <2>1, ChangesAreSound DEF FetchFails, Is
<1>5. ASSUME NEW j \in Jobs, FetchTooLarge(j) \/ UploadFails(j) \/ MarkStuck(j) PROVE Sound(item')
  <2>1. Recorded(j, "transient") \in {"wanted", "failed"}
    BY DEF Recorded
  <2>2. ItemOf[j] \in Items
    BY <1>0, <1>1, <1>5 DEF FetchTooLarge, UploadFails, MarkStuck, Is
  <2> QED
    BY <1>5, <2>1, <2>2, ChangesAreSound DEF FetchTooLarge, UploadFails, MarkStuck
<1>6. ASSUME NEW j \in Jobs, RefreshApply(j) PROVE Sound(item')
  <2>1. CASE Items = {}
    BY <1>6, <2>1 DEF RefreshApply, Tombstoned, Sound
  <2>2. CASE Items # {}
    <3>1. PICK W \in PolicyWants(mode) : item' = Tombstoned(Wanted(W), RolledOut(mode))
      BY <1>6 DEF RefreshApply
    <3> QED
      BY <2>2, <3>1, ChangesAreSound
  <2> QED
    BY <2>1, <2>2
<1>7. ASSUME NEW i \in Items, NEW b \in BOOLEAN, ArchiveItem(i, b) \/ SetArchiveFlag(i, b)
      PROVE  Sound(item')
  BY <1>7, ChangesAreSound DEF ArchiveItem, SetArchiveFlag
<1>8. ASSUME NEW a \in Actors, EraseCommit(a) PROVE Sound(item')
  <2>1. CASE Items = {}
    BY <1>8, <2>1 DEF EraseCommit, Tombstoned, Sound
  <2>2. CASE Items # {}
    BY <1>8, <2>2, ChangesAreSound DEF EraseCommit
  <2> QED
    BY <2>1, <2>2
<1>9. ASSUME NEW m \in Modes, UpdateMirror(m) PROVE Sound(item')
  <2> DEFINE rows == Tombstoned(Wanted(IF m = "rolling" THEN UNION PolicyWants(m) ELSE {}),
                                RolledOut(m))
  <2>1. CASE Items = {}
    BY <1>9, <2>1 DEF UpdateMirror, Sound
  <2>2. CASE Items # {}
    <3>1. Sound(rows)
      BY <2>2, ChangesAreSound
    <3>2. item' = [i \in Items |-> IF m = Locking /\ item[i].state = "archived"
                                    THEN [rows[i] EXCEPT !.flag = TRUE] ELSE rows[i]]
      BY <1>9 DEF UpdateMirror
    <3> HIDE DEF rows
    <3>3. \A i \in Items : [rows[i] EXCEPT !.flag = TRUE] \in ItemRow
                           /\ [rows[i] EXCEPT !.flag = TRUE].state = rows[i].state
      BY <3>1 DEF Sound, ItemRow
    <3> QED
      BY <3>1, <3>2, <3>3 DEF Sound
  <2> QED
    BY <2>1, <2>2
<1>10. CASE Release
  <2>1. \A i \in Items : /\ [item[i] EXCEPT !.blocked = FALSE] \in ItemRow
                         /\ [item[i] EXCEPT !.blocked = FALSE].state = item[i].state
    BY DEF TypeOK, ItemRow
  <2>2. PICK S : item' = [i \in Items |-> IF item[i].blocked /\ (i \in S \/ item[i].state # "wanted")
                                    THEN [item[i] EXCEPT !.blocked = FALSE] ELSE item[i]]
    BY <1>10 DEF Release
  <2> QED
    BY <2>1, <2>2 DEF Sound, TypeOK
<1>11. ASSUME NEW j \in Jobs, Handler(j) PROVE Sound(item') \/ (Commit(j) /\ KindOf[j] = "archive")
  <2>1. CASE FetchOk(j) \/ Upload(j) \/ Mark(j) \/ Discard(j) \/ Expire(j) \/ Erased(j) \/ Settle(j)
             \/ \E o \in Outcomes : OtherFails(j, o)
    BY <1>2, <2>1 DEF FetchOk, Upload, Mark, Discard, Expire, Erased, Settle, OtherFails
  <2> QED
    BY <1>1, <1>3, <1>4, <1>5, <1>6, <1>11, <2>1 DEF Handler, Commit, Is
<1>12. ASSUME NEW j \in Jobs, \/ Claim(j) \/ Raises(j) \/ MonitorPoll(j) \/ SoftTimeout(j)
                              \/ Leftover(j) \/ GoStale(j) \/ CancelJob(j)
       PROVE  UNCHANGED item
  BY <1>12 DEF Claim, Raises, ScratchFails, AttachmentsFail, DatabaseError, Unheard, MonitorPoll, SoftTimeout, Leftover, GoStale, CancelJob
<1>13. ASSUME NEW i \in Items, DeleteItem(i) \/ LateUpload(i) PROVE UNCHANGED item
  BY <1>13 DEF DeleteItem, LateUpload
<1>14. ASSUME NEW a \in Actors, EraseHook(a) PROVE UNCHANGED item
  BY <1>14 DEF EraseHook
<1>15. ASSUME \/ ClearFeed \/ Sigterm \/ Restart \/ Crash \/ ApiCrash \/ Maintenance \/ Schedule
              \/ (\E b \in BOOLEAN : SetPaused(b)) \/ UNCHANGED vars
       PROVE  UNCHANGED item
  BY <1>15 DEF ClearFeed, Sigterm, Restart, Crash, ApiCrash, Maintenance, Schedule, SetPaused, vars
<1> QED
  BY <1>2, <1>5, <1>7, <1>8, <1>9, <1>10, <1>11, <1>12, <1>13, <1>14, <1>15 DEF Next

-----------------------------------------------------------------------------
(* The other variables.                                                     *)
Rest ==
    /\ mode \in Modes /\ paused \in BOOLEAN /\ stop \in BOOLEAN
    /\ objects \subseteq Items /\ late \subseteq Items /\ unheard \subseteq Items
    /\ erase \in [Actors -> EraseRow]
    /\ left \in [Hazards -> Nat]

\* Every step keeps the types of the Mirror's fields, the objects and the deletions.
LEMMA RestStep ==
    ASSUME TypeOK, NotYetArchived, [Next]_vars
    PROVE  Rest'
<1>0. Rest
  BY DEF TypeOK, Rest
<1>0a. NoErase \in EraseRow
  BY DEF NoErase, EraseRow
<1>0b. \A j \in Jobs : KindOf[j] = "archive" => ItemOf[j] \in Items
  BY ArchiveAssumption
<1>0c. \A j \in Jobs : exec[j].phase \in {"fetching", "uploading"} => ItemOf[j] \in Items
  BY <1>0b DEF NotYetArchived, Downloading, Working
<1>1. ASSUME NEW h \in Hazards, Spend(h) PROVE left' \in [Hazards -> Nat]
  BY <1>0, <1>1 DEF Spend, Rest
<1>2. ASSUME NEW S \in SUBSET Items PROVE MediaOf(S) \in SUBSET Items
  BY DEF MediaOf
<1>3. ASSUME NEW a \in Actors, NEW S \in SUBSET Items, NEW j \in Jobs \cup {NoJob}, Reading(a, S, j)
      PROVE  erase' \in [Actors -> EraseRow]
  <2> DEFINE r == [phase |-> "read", doomed |-> S, media |-> MediaOf(S), job |-> j]
  <2>1. r \in EraseRow
    BY <1>2, <1>3 DEF EraseRow
  <2>2. erase' = [erase EXCEPT ![a] = r]
    BY <1>3 DEF Reading
  <2> HIDE DEF r
  <2> QED
    BY <1>0, <2>1, <2>2 DEF Rest
<1>4. ASSUME NEW a \in Actors, NEW S \in SUBSET Items, Removing(a, S)
      PROVE  erase' \in [Actors -> EraseRow]
  <2> DEFINE r == IF S = {} THEN NoErase
                  ELSE [phase |-> "hook", doomed |-> {}, media |-> MediaOf(S), job |-> NoJob]
  <2>1. r \in EraseRow
    BY <1>0a, <1>2, <1>4 DEF EraseRow
  <2>2. erase' = [erase EXCEPT ![a] = r]
    BY <1>4 DEF Removing
  <2> HIDE DEF r
  <2> QED
    BY <1>0, <2>1, <2>2 DEF Rest
<1>5. \A m \in {"all", "rolling", "automatic"} : RolledOut(m) \in SUBSET Items
  BY DEF RolledOut, InState
<1>6. ASSUME NEW j \in Jobs, Handler(j) \/ Raises(j) PROVE Rest'
  <2>1. ASSUME Begin(j) \/ FetchTooLarge(j) \/ Raises(j)
               \/ \E o \in Outcomes : FetchFails(j, o) \/ OtherFails(j, o)
        PROVE  Rest'
    <3>1. UNCHANGED <<mode, paused, objects, erase, late, stop>>
      BY <2>1 DEF Begin, FetchTooLarge, Raises, ScratchFails, AttachmentsFail, DatabaseError, Unheard, FetchFails, OtherFails
    <3>0. unheard' \subseteq Items
      <4>1. CASE ~Raises(j)
        BY <1>0, <2>1, <4>1 DEF Begin, FetchTooLarge, FetchFails, OtherFails, Rest
      <4>2. CASE Raises(j)
        <5>1. ItemOf[j] \in Items
          BY <1>0b, <4>2
          DEF Raises, ScratchFails, AttachmentsFail, DatabaseError, Is, NotYetArchived, Downloading, Working
        <5>2. unheard' = unheard \cup {ItemOf[j]}
          BY <4>2 DEF Raises, ScratchFails, AttachmentsFail, DatabaseError, Unheard
        <5> QED
          BY <1>0, <5>1, <5>2 DEF Rest
      <4> QED
        BY <4>1, <4>2
    <3>2. UNCHANGED left \/ \E h \in Hazards : Spend(h)
      BY <2>1 DEF Begin, FetchTooLarge, Raises, ScratchFails, AttachmentsFail, DatabaseError, Unheard, FetchFails, OtherFails, Hazards
    <3> QED
      BY <1>0, <1>1, <3>0, <3>1, <3>2 DEF Rest
  <2>2. CASE FetchOk(j) \/ Mark(j) \/ Commit(j) \/ Erased(j) \/ Settle(j)
    BY <1>0, <2>2 DEF FetchOk, Mark, Commit, Erased, Settle, Rest
  <2>3. CASE Upload(j)
    BY <1>0, <1>0c, <2>3 DEF Upload, Is, Rest
  <2>4. CASE UploadFails(j) \/ Discard(j)
    BY <1>0, <2>4 DEF UploadFails, Discard, Rest
  <2>5. CASE Expire(j)
    <3>1. UNCHANGED erase \/ \E S \in SUBSET Items : Reading("worker", S, NoJob)
      BY <2>5 DEF Expire, InState
    <3>2. erase' \in [Actors -> EraseRow]
      BY <1>0, <1>3, <3>1 DEF Rest, Actors
    <3> QED
      BY <1>0, <2>5, <3>2 DEF Expire, Rest
  <2>6. CASE RefreshApply(j)
    <3>1. RolledOut(mode) \in SUBSET Items
      BY <1>0, <1>5, ArchiveAssumption DEF Rest
    <3>2. erase' \in [Actors -> EraseRow]
      BY <1>4, <2>6, <3>1 DEF RefreshApply, Actors
    <3> QED
      BY <1>0, <2>6, <3>2 DEF RefreshApply, Rest
  <2> QED
    BY <1>6, <2>1, <2>2, <2>3, <2>4, <2>5, <2>6 DEF Handler
<1>7. ASSUME NEW j \in Jobs, Claim(j) \/ MonitorPoll(j) \/ SoftTimeout(j) \/ GoStale(j) \/ CancelJob(j)
      PROVE  Rest'
  BY <1>0, <1>1, <1>7 DEF Claim, MonitorPoll, SoftTimeout, GoStale, CancelJob, Rest, Hazards
<1>8. ASSUME NEW j \in Jobs, MarkStuck(j) PROVE Rest'
  BY <1>0, <1>0c, <1>8 DEF MarkStuck, Is, Rest
<1>9. HalfUploads(Jobs) \subseteq SUBSET Items /\ \A j \in Jobs : HalfUploads({j}) \subseteq SUBSET Items
  BY <1>0, <1>0c DEF HalfUploads, Is, Rest
<1>10. ASSUME NEW j \in Jobs, Leftover(j) PROVE Rest'
  <2>1. erase' \in [Actors -> EraseRow]
    BY <1>0, <1>0a, <1>10 DEF Leftover, Dropped, Rest
  <2> QED
    BY <1>0, <1>9, <1>10, <2>1 DEF Leftover, Rest
<1>11. CASE Crash
  BY <1>0, <1>0a, <1>1, <1>9, <1>11 DEF Crash, Rest, Hazards
<1>12. CASE Sigterm \/ Restart \/ Maintenance \/ Schedule \/ Release \/ UNCHANGED vars
  BY <1>0, <1>1, <1>12 DEF Sigterm, Restart, Maintenance, Schedule, Release, vars, Rest, Hazards
<1>13. CASE ApiCrash
  BY <1>0, <1>0a, <1>1, <1>13 DEF ApiCrash, Rest, Hazards
<1>14. ASSUME NEW i \in Items, DeleteItem(i) PROVE Rest'
  <2>1. PICK j \in Jobs \cup {NoJob} : Reading("api", {i}, j)
    BY <1>14 DEF DeleteItem, ActiveJob, Q!InStatus
  <2>2. erase' \in [Actors -> EraseRow]
    BY <1>3, <2>1 DEF Actors
  <2> QED
    BY <1>0, <1>1, <1>14, <2>2 DEF DeleteItem, Rest, Hazards
<1>15. ASSUME NEW i \in Items, LateUpload(i) \/ \E b \in BOOLEAN : ArchiveItem(i, b) \/ SetArchiveFlag(i, b)
       PROVE  Rest'
  BY <1>0, <1>1, <1>15 DEF LateUpload, ArchiveItem, SetArchiveFlag, Rest, Hazards
<1>16. CASE ClearFeed
  <2>1. erase' \in [Actors -> EraseRow]
    BY <1>3, <1>16 DEF ClearFeed, Actors, InState
  <2> QED
    BY <1>0, <1>1, <1>16, <2>1 DEF ClearFeed, Rest, Hazards
<1>17. ASSUME NEW a \in Actors, EraseCommit(a) PROVE Rest'
  <2> DEFINE r == [erase[a] EXCEPT !.phase = "hook", !.doomed = {}, !.job = NoJob]
  <2>1. r \in EraseRow
    BY <1>0 DEF Rest, EraseRow
  <2>2. erase' = [erase EXCEPT ![a] = r]
    BY <1>17 DEF EraseCommit
  <2> HIDE DEF r
  <2> QED
    BY <1>0, <1>17, <2>1, <2>2 DEF EraseCommit, Rest
<1>18. ASSUME NEW a \in Actors, EraseHook(a) PROVE Rest'
  BY <1>0, <1>0a, <1>18 DEF EraseHook, Rest
<1>19. ASSUME NEW m \in Modes, UpdateMirror(m) PROVE Rest'
  <2>1. RolledOut(m) \in SUBSET Items
    BY <1>5, ArchiveAssumption
  <2>2. erase' \in [Actors -> EraseRow]
    BY <1>4, <1>19, <2>1 DEF UpdateMirror, Actors
  <2> QED
    BY <1>0, <1>1, <1>19, <2>2 DEF UpdateMirror, Rest, Hazards
<1>20. ASSUME NEW b \in BOOLEAN, SetPaused(b) PROVE Rest'
  BY <1>0, <1>1, <1>20 DEF SetPaused, Rest, Hazards
<1> QED
  BY <1>6, <1>7, <1>8, <1>10, <1>11, <1>12, <1>13, <1>14, <1>15, <1>16, <1>17, <1>18, <1>19, <1>20
  DEF Next

-----------------------------------------------------------------------------
(* The invariant holds.                                                     *)

\* Commit archives its own item and leaves the other rows.
LEMMA CommitStep ==
    ASSUME TypeOK, NEW j \in Jobs, KindOf[j] = "archive", Commit(j)
    PROVE  /\ item' \in [Items -> ItemRow]
           /\ \A i \in Items : i # ItemOf[j] => item'[i] = item[i]
<1> DEFINE r == [state |-> "archived", flag |-> item[ItemOf[j]].flag \/ exec[j].lock,
                 blocked |-> item[ItemOf[j]].blocked, media |-> TRUE]
<1>1. ItemOf[j] \in Items
  BY ArchiveAssumption
<1>2. item[ItemOf[j]] \in ItemRow /\ exec[j] \in ExecRow
  BY <1>1 DEF TypeOK
<1>3. item[ItemOf[j]].flag \/ exec[j].lock \in BOOLEAN
  BY <1>2 DEF ItemRow, ExecRow
<1>4. r \in ItemRow
  BY <1>2, <1>3 DEF ItemRow, States
<1>5. item' = [item EXCEPT ![ItemOf[j]] = r]
  BY DEF Commit
<1> HIDE DEF r
<1> QED
  BY <1>1, <1>4, <1>5 DEF TypeOK

\* A job downloads from its first transaction on, which leaves its item archiving.
LEMMA Downloads ==
    ASSUME TypeOK, NotYetArchived, [Next]_vars, NEW k \in Jobs, exec'[k].phase \in Downloading
    PROVE  \/ exec[k].phase \in Downloading
           \/ KindOf[k] = "archive" /\ item'[ItemOf[k]].state = "archiving"
<1> DEFINE Fine == \/ exec[k].phase \in Downloading
                   \/ KindOf[k] = "archive" /\ item'[ItemOf[k]].state = "archiving"
<1>0. exec \in [Jobs -> ExecRow] /\ item \in [Items -> ItemRow]
  BY DEF TypeOK
<1>1. exec'[k].phase \notin {"none", "begin", "settling", "erasing"}
  BY DEF Downloading, Working
<1>2. exec'[k].phase = exec[k].phase => Fine
  OBVIOUS
<1>3. ASSUME NEW j \in Jobs, Claim(j) PROVE Fine
  BY <1>0, <1>1, <1>2, <1>3 DEF Claim, To, ExecRow
<1>4. ASSUME NEW j \in Jobs, Settle(j) \/ MarkStuck(j) \/ Leftover(j) PROVE Fine
  <2>1. exec' = [exec EXCEPT ![j] = NoExec] /\ NoExec.phase = "none"
    BY <1>4 DEF Settle, MarkStuck, Leftover, NoExec
  <2> QED
    BY <1>0, <1>1, <1>2, <2>1
<1>5. ASSUME NEW j \in Jobs, NEW o \in Outcomes, Return(j, o) PROVE Fine
  BY <1>0, <1>1, <1>2, <1>5 DEF Return, ExecRow
<1>6. ASSUME NEW j \in Jobs, To(j, "erasing") PROVE Fine
  BY <1>0, <1>1, <1>2, <1>6 DEF To, ExecRow
<1>7. ASSUME NEW j \in Jobs, NEW p, exec[j].phase \in Downloading, To(j, p) PROVE Fine
  BY <1>0, <1>2, <1>7 DEF To
<1>8. ASSUME NEW j \in Jobs, Begin(j) PROVE Fine
  <2>1. CASE \E o \in Outcomes : Return(j, o)
    BY <1>5, <2>1
  <2>2. CASE /\ item' = [item EXCEPT ![ItemOf[j]] = [@ EXCEPT !.state = "archiving"]]
             /\ To(j, "fetching")
    <3>1. KindOf[j] = "archive" /\ ItemOf[j] \in Items
      BY <1>8, ArchiveAssumption DEF Begin
    <3>2. item'[ItemOf[j]].state = "archiving"
      BY <1>0, <2>2, <3>1 DEF ItemRow
    <3> QED
      BY <1>0, <1>2, <2>2, <3>1, <3>2 DEF To
  <2> QED
    BY <1>8, <2>1, <2>2 DEF Begin, Outcomes
<1>9. ASSUME NEW j \in Jobs, Handler(j) \/ Raises(j), ~Settle(j) PROVE Fine
  <2>1. CASE FetchOk(j) \/ Upload(j)
    BY <1>7, <2>1 DEF FetchOk, Upload, Is, Downloading, Working
  <2>2. CASE Mark(j)
    BY <1>0, <1>2, <2>2 DEF Mark, To, Is, Downloading, Working
  <2>3. CASE \/ FetchTooLarge(j) \/ UploadFails(j) \/ Commit(j) \/ Discard(j) \/ Erased(j)
             \/ Raises(j) \/ \E o \in Outcomes : FetchFails(j, o) \/ OtherFails(j, o)
    BY <1>5, <2>3 DEF FetchTooLarge, UploadFails, Commit, Discard, Erased, Raises, ScratchFails, AttachmentsFail, DatabaseError, Unheard,
                      FetchFails, OtherFails, Outcomes
  <2>4. CASE Expire(j) \/ RefreshApply(j)
    BY <1>5, <1>6, <2>4 DEF Expire, RefreshApply, Outcomes
  <2> QED
    BY <1>8, <1>9, <2>1, <2>2, <2>3, <2>4 DEF Handler
<1>10. ASSUME NEW j \in Jobs, MonitorPoll(j) \/ SoftTimeout(j) PROVE Fine
  <2>1. [exec[j] EXCEPT !.token = TRUE, !.user = TRUE].phase = exec[j].phase
    BY <1>0 DEF ExecRow
  <2>2. [exec[j] EXCEPT !.token = TRUE, !.timedOut = TRUE].phase = exec[j].phase
    BY <1>0 DEF ExecRow
  <2> QED
    BY <1>0, <1>2, <1>10, <2>1, <2>2 DEF MonitorPoll, SoftTimeout
<1>11. ASSUME NEW j \in Jobs, GoStale(j) PROVE Fine
  BY <1>2, <1>11 DEF GoStale
<1>12. CASE Sigterm \/ Crash
  BY <1>0, <1>1, <1>2, <1>12 DEF Sigterm, Crash, NoExec, ExecRow
<1>13. CASE Others
  BY <1>2, <1>13, OthersAreGentle
<1> QED
  BY <1>3, <1>4, <1>9, <1>10, <1>11, <1>12, <1>13, WhoSteps

\* What a job downloads does not become archived under it: only the item's one
\* running job archives it.
LEMMA ArchivedStep ==
    ASSUME IInv, [Next]_vars
    PROVE  NotYetArchived'
<1> SUFFICES ASSUME NEW k \in Jobs, exec'[k].phase \in Downloading
             PROVE  KindOf[k] = "archive" /\ item'[ItemOf[k]].state # "archived"
  BY DEF NotYetArchived
<1>1. CASE exec[k].phase \in Downloading
  <2>1. KindOf[k] = "archive" /\ item[ItemOf[k]].state # "archived" /\ ItemOf[k] \in Items
    BY <1>1, ArchiveAssumption DEF IInv, NotYetArchived
  <2>2. CASE Sound(item')
    BY <2>1, <2>2 DEF Sound
  <2>3. ASSUME NEW j \in Jobs, Commit(j), KindOf[j] = "archive"
        PROVE  item'[ItemOf[k]].state # "archived"
    <3>1. exec'[j].phase = "settling" /\ exec[j].phase = "committing"
      BY <2>3 DEF Commit, Return, Is, IInv, TypeOK, ExecRow
    <3>2. j # k
      BY <3>1 DEF Downloading, Working
    <3>3. job[j].status = "running" /\ job[k].status = "running"
      BY <1>1, <3>1 DEF IInv, OwnsRow, Downloading, Working
    <3>4. ItemOf[j] # ItemOf[k]
      BY <2>1, <3>2, <3>3 DEF IInv, OneRunning, Q!InStatus
    <3> QED
      BY <2>1, <2>3, <3>4, CommitStep DEF IInv
  <2> QED
    BY <2>1, <2>2, <2>3, ItemStep DEF IInv
<1>2. CASE exec[k].phase \notin Downloading
  BY <1>2, Downloads DEF IInv
<1> QED
  BY <1>1, <1>2

\* Every step keeps the invariant.
LEMMA InvStep ==
    ASSUME IInv, [Next]_vars
    PROVE  IInv'
<1>1. Q!TypeOK' /\ exec' \in [Jobs -> ExecRow] /\ OwnsRow' /\ OneRunning'
  BY RowsStep DEF IInv
<1>2. item' \in [Items -> ItemRow]
  BY ItemStep, CommitStep DEF IInv, Sound
<1>3. Rest'
  BY RestStep DEF IInv
<1>4. NotYetArchived'
  BY ArchivedStep
<1> QED
  BY <1>1, <1>2, <1>3, <1>4 DEF IInv, TypeOK, Rest

\* The tables start empty of work.
LEMMA InvInit == Init => IInv
<1> SUFFICES ASSUME Init PROVE IInv
  OBVIOUS
<1>1. Q!Unborn \in Q!Row /\ Q!Unborn.status = "unborn"
  BY DEF Q!Unborn, Q!Row, Q!Status
<1>2. Q!TypeOK /\ \A j \in Jobs : job[j].status # "running"
  BY <1>1 DEF Init, Q!Init, Q!TypeOK
<1>3. NoExec \in ExecRow /\ NoExec.phase = "none" /\ NoErase \in EraseRow
  BY DEF NoExec, NoErase, ExecRow, EraseRow, Phases, Outcomes
<1>4. item \in [Items -> ItemRow]
  BY DEF Init, ItemRow, States
<1>5. Rest /\ exec \in [Jobs -> ExecRow]
  BY <1>3, ArchiveAssumption DEF Init, Rest
<1>6. \A j \in Jobs : exec[j].phase = "none"
  BY <1>3 DEF Init
<1>7. OwnsRow /\ NotYetArchived
  BY <1>6 DEF OwnsRow, NotYetArchived, Downloading, Working
<1>8. OneRunning
  BY <1>2 DEF OneRunning, Q!InStatus
<1> QED
  BY <1>2, <1>4, <1>5, <1>7, <1>8 DEF IInv, TypeOK, Rest

\* The invariant always holds.
LEMMA Invariant == Spec => []IInv
<1>1. IInv /\ UNCHANGED vars => IInv'
  BY InvStep
<1> QED
  BY InvInit, InvStep, <1>1, PTL DEF Spec

-----------------------------------------------------------------------------
(* The theorems.                                                            *)

\* Every table, execution and deletion in flight keeps its type, whatever dies
\* or races: in particular no count of attempts or of misfortunes is negative.
THEOREM ArchiveTypes == Spec => []TypeOK
BY Invariant, PTL DEF IInv

\* No archive job, late thread, crash or Refresh takes the object of an archived
\* Episode; only the hook of a deletion that had read its media does.
THEOREM ServedObjects == Spec => ServedKeepsObject
<1> DEFINE Keeps == \A i \in InState({"archived"}) \cap objects :
          i \in objects' \/ i \in erase["api"].media \cup erase["worker"].media
<1>1. ASSUME IInv, Next PROVE Keeps
  <2> SUFFICES ASSUME NEW i \in InState({"archived"}) \cap objects, i \notin objects'
               PROVE  i \in erase["api"].media \cup erase["worker"].media
    OBVIOUS
  <2>1. ASSUME NEW j \in Jobs, UploadFails(j) \/ Discard(j) PROVE FALSE
    <3>1. i = ItemOf[j]
      BY <2>1 DEF UploadFails, Discard
    <3>2. exec[j].phase \in Downloading
      BY <2>1 DEF UploadFails, Discard, Is, Downloading, Working
    <3> QED
      BY <3>1, <3>2, <1>1 DEF InState, IInv, NotYetArchived
  <2>2. ASSUME NEW a \in Actors, EraseHook(a)
        PROVE  i \in erase["api"].media \cup erase["worker"].media
    BY <2>2 DEF EraseHook, Actors
  <2>3. ASSUME NEW j \in Jobs, Handler(j) PROVE UploadFails(j) \/ Discard(j)
    BY <2>3 DEF Handler, Begin, FetchOk, FetchFails, FetchTooLarge, Upload, UploadFails, Mark,
                Commit, Discard, Expire, RefreshApply, OtherFails, Erased, Settle
  <2>4. ASSUME NEW j \in Jobs,
               \/ Claim(j) \/ Raises(j) \/ MonitorPoll(j) \/ SoftTimeout(j)
               \/ MarkStuck(j) \/ GoStale(j) \/ CancelJob(j)
        PROVE  FALSE
    BY <2>4 DEF Claim, Raises, ScratchFails, AttachmentsFail, DatabaseError, Unheard, MonitorPoll, SoftTimeout, MarkStuck, GoStale, CancelJob
  <2>5. ASSUME (\E j \in Jobs : Leftover(j)) \/ Crash PROVE FALSE
    BY <2>5 DEF Leftover, Crash, HalfUploads
  <2>6. ASSUME NEW k \in Items, \/ DeleteItem(k) \/ LateUpload(k)
                                \/ \E b \in BOOLEAN : ArchiveItem(k, b) \/ SetArchiveFlag(k, b)
        PROVE  FALSE
    BY <2>6 DEF DeleteItem, LateUpload, ArchiveItem, SetArchiveFlag
  <2>7. ASSUME \/ (\E a \in Actors : EraseCommit(a)) \/ (\E m \in Modes : UpdateMirror(m))
               \/ (\E b \in BOOLEAN : SetPaused(b))
               \/ ClearFeed \/ Sigterm \/ Restart \/ ApiCrash \/ Maintenance \/ Schedule \/ Release
        PROVE  FALSE
    BY <2>7 DEF EraseCommit, UpdateMirror, SetPaused, ClearFeed, Sigterm, Restart, ApiCrash,
                Maintenance, Schedule, Release
  <2> QED
    BY <1>1, <2>1, <2>2, <2>3, <2>4, <2>5, <2>6, <2>7 DEF Next
<1>2. IInv /\ [Next]_vars => [Keeps]_vars
  BY <1>1
<1> QED
  BY Invariant, <1>2, PTL DEF Spec, ServedKeepsObject

\* Rows in which no locked item has become deleted.
Spares(rows) == \A i \in Items :
    (item[i].flag /\ item[i].state # "deleted") => rows[i].state # "deleted"

\* No deletion in flight takes up a locked item.
Innocent == \A i \in Items, a \in Actors :
    (item[i].flag /\ i \in erase'[a].doomed) => i \in erase[a].doomed

\* What the Catalog's statements write deletes nothing but what they are told to.
LEMMA ChangesSpare ==
    ASSUME TypeOK, NEW i \in Items
    PROVE  /\ Spares(item)
           /\ \A S : Spares(Wanted(S))
           /\ \A rows \in [Items -> ItemRow] : \A m :
                 Spares(rows) => Spares(Tombstoned(rows, RolledOut(m)))
           /\ Spares(Blocked(i))
           /\ \A s \in {"wanted", "failed"} : Spares(FromArchiving(i, s))
<1>0. item \in [Items -> ItemRow]
  BY DEF TypeOK
<1>1. Spares(item)
  BY DEF Spares
<1>2. ASSUME NEW S PROVE Spares(Wanted(S))
  <2>1. \A k \in Items : [item[k] EXCEPT !.state = "wanted"].state = "wanted"
    BY <1>0 DEF ItemRow
  <2> QED
    BY <2>1 DEF Spares, Wanted
<1>3. ASSUME NEW rows \in [Items -> ItemRow], NEW m, Spares(rows)
      PROVE  Spares(Tombstoned(rows, RolledOut(m)))
  BY <1>3 DEF Spares, Tombstoned, RolledOut, Unlocked
<1>4. ASSUME NEW r, r.state # "deleted" PROVE Spares([item EXCEPT ![i] = r])
  BY <1>0, <1>4 DEF Spares
<1>5. Spares(Blocked(i))
  <2>1. [item[i] EXCEPT !.state = "wanted", !.blocked = TRUE].state = "wanted"
    BY <1>0 DEF ItemRow
  <2> QED
    BY <1>1, <1>4, <2>1 DEF Blocked
<1>6. ASSUME NEW s \in {"wanted", "failed"} PROVE Spares(FromArchiving(i, s))
  <2>1. [item[i] EXCEPT !.state = s].state = s
    BY <1>0 DEF ItemRow
  <2> QED
    BY <1>1, <1>4, <2>1 DEF FromArchiving
<1> QED
  BY <1>1, <1>2, <1>3, <1>5, <1>6

\* The steps that change neither a state nor what deletions have read.
LEMMA HandlersSpare ==
    ASSUME IInv, NEW j \in Jobs, Handler(j)
    PROVE  Spares(item') /\ Innocent
<1>0. TypeOK /\ NotYetArchived
  BY DEF IInv
<1>1. UNCHANGED item => Spares(item')
  BY DEF Spares
<1>2. UNCHANGED erase => Innocent
  BY DEF Innocent
<1>3. KindOf[j] = "archive" => ItemOf[j] \in Items
  BY ArchiveAssumption
<1>4. exec[j].phase \in Downloading => KindOf[j] = "archive"
  BY <1>0 DEF NotYetArchived
<1>5. CASE Begin(j)
  <2>1. ItemOf[j] \in Items /\ UNCHANGED erase
    BY <1>3, <1>5 DEF Begin
  <2>2. CASE item' = [item EXCEPT ![ItemOf[j]] = [@ EXCEPT !.state = "archiving"]]
    <3>1. [item[ItemOf[j]] EXCEPT !.state = "archiving"].state = "archiving"
      BY <1>0, <2>1 DEF TypeOK, ItemRow
    <3> QED
      BY <1>0, <1>2, <2>1, <2>2, <3>1 DEF TypeOK, Spares
  <2>3. CASE UNCHANGED item \/ item' = Blocked(ItemOf[j])
    BY <1>0, <1>1, <1>2, <2>1, <2>3, ChangesSpare
  <2> QED
    BY <1>5, <2>2, <2>3 DEF Begin
<1>6. ASSUME \/ FetchTooLarge(j) \/ UploadFails(j) \/ \E o \in Outcomes : FetchFails(j, o)
      PROVE  Spares(item') /\ Innocent
  <2>1. ItemOf[j] \in Items /\ UNCHANGED erase
    BY <1>3, <1>4, <1>6 DEF FetchTooLarge, UploadFails, FetchFails, Is, Downloading, Working
  <2>2. \A o : Recorded(j, o) \in {"wanted", "failed"}
    BY DEF Recorded
  <2> QED
    BY <1>0, <1>2, <1>6, <2>1, <2>2, ChangesSpare DEF FetchTooLarge, UploadFails, FetchFails
<1>7. CASE Commit(j)
  <2>1. item' \in [Items -> ItemRow] /\ \A i \in Items : i # ItemOf[j] => item'[i] = item[i]
    BY <1>0, <1>4, <1>7, CommitStep DEF Commit, Is, Downloading, Working
  <2>2. ItemOf[j] \in Items => item'[ItemOf[j]].state = "archived"
    BY <1>0, <1>7 DEF Commit, TypeOK
  <2> QED
    BY <1>2, <1>7, <2>1, <2>2 DEF Commit, Spares
<1>8. CASE Expire(j)
  <2>1. ASSUME NEW S \in SUBSET (InState({"archived"}) \cap Unlocked), Reading("worker", S, NoJob)
        PROVE  Innocent
    BY <1>0, <2>1 DEF Reading, Innocent, Unlocked, TypeOK, Actors
  <2> QED
    BY <1>1, <1>2, <1>8, <2>1 DEF Expire
<1>9. CASE RefreshApply(j)
  <2>1. Spares(item')
    <3>1. PICK W \in PolicyWants(mode) : item' = Tombstoned(Wanted(W), RolledOut(mode))
      BY <1>9 DEF RefreshApply
    <3>2. Items # {} => Wanted(W) \in [Items -> ItemRow] /\ Spares(Wanted(W))
      BY <1>0, ChangesSpare, ChangesAreSound DEF Sound
    <3> QED
      BY <1>0, <3>1, <3>2, ChangesSpare DEF Spares
  <2>2. Innocent
    BY <1>0, <1>9 DEF RefreshApply, Removing, Innocent, NoErase, TypeOK, Actors
  <2> QED
    BY <2>1, <2>2
<1>10. CASE \/ FetchOk(j) \/ Upload(j) \/ Mark(j) \/ Discard(j) \/ Erased(j) \/ Settle(j)
            \/ \E o \in Outcomes : OtherFails(j, o)
  BY <1>1, <1>2, <1>10 DEF FetchOk, Upload, Mark, Discard, Erased, Settle, OtherFails
<1> QED
  BY <1>5, <1>6, <1>7, <1>8, <1>9, <1>10 DEF Handler

\* A Lock that a deletion could see is respected by every path that deletes:
\* the users' deletions, the expiry, the Refresh and the switch to Rolling.
THEOREM LocksKept == Spec => LockSeenIsKept
<1> DEFINE Keeps == \A i \in Items : item[i].flag =>
          /\ (item[i].state # "deleted" /\ item'[i].state = "deleted")
                => \E a \in Actors : i \in erase[a].doomed
          /\ \A a \in Actors : i \in erase'[a].doomed => i \in erase[a].doomed
<1>1. ASSUME IInv, Next PROVE Keeps
  <2>0. TypeOK /\ NotYetArchived
    BY <1>1 DEF IInv
  <2>1. Spares(item') /\ Innocent => Keeps
    BY DEF Spares, Innocent
  <2>2. UNCHANGED item => Spares(item')
    BY DEF Spares
  <2>3. UNCHANGED erase => Innocent
    BY DEF Innocent
  <2>4. ASSUME NEW j \in Jobs, \/ Claim(j) \/ Raises(j) \/ MonitorPoll(j) \/ SoftTimeout(j)
                              \/ GoStale(j) \/ CancelJob(j)
        PROVE  Keeps
    BY <2>1, <2>2, <2>3, <2>4 DEF Claim, Raises, ScratchFails, AttachmentsFail, DatabaseError, Unheard, MonitorPoll, SoftTimeout, GoStale, CancelJob
  <2>5. ASSUME NEW j \in Jobs, MarkStuck(j) PROVE Keeps
    <3>1. ItemOf[j] \in Items
      BY <2>0, <2>5, ArchiveAssumption DEF MarkStuck, NotYetArchived, Downloading, Working
    <3> QED
      BY <2>0, <2>1, <2>3, <2>5, <3>1, ChangesSpare DEF MarkStuck
  <2>6. ASSUME (\E j \in Jobs : Leftover(j)) \/ Crash \/ ApiCrash PROVE Keeps
    <3>1. ASSUME UNCHANGED erase \/ \E a \in Actors : erase' = [erase EXCEPT ![a] = NoErase]
          PROVE  Innocent
      BY <2>0, <3>1 DEF NoErase, Innocent, TypeOK
    <3>2. UNCHANGED erase \/ \E a \in Actors : erase' = [erase EXCEPT ![a] = NoErase]
      <4>1. ASSUME NEW j \in Jobs, Dropped(j)
            PROVE  UNCHANGED erase \/ erase' = [erase EXCEPT !["worker"] = NoErase]
        BY <2>0, <4>1 DEF Dropped, TypeOK
      <4> QED
        BY <2>6, <4>1 DEF Leftover, Crash, ApiCrash, Actors
    <3> QED
      BY <2>1, <2>2, <2>6, <3>1, <3>2 DEF Leftover, Crash, ApiCrash
  <2>7. ASSUME NEW i \in Items, DeleteItem(i) PROVE Keeps
    <3>1. PICK j : Reading("api", {i}, j)
      BY <2>7 DEF DeleteItem
    <3>2. Innocent
      BY <2>0, <2>7, <3>1 DEF DeleteItem, Reading, Innocent, TypeOK, Actors
    <3> QED
      BY <2>1, <2>2, <2>7, <3>2 DEF DeleteItem
  <2>8. ASSUME NEW i \in Items, LateUpload(i) PROVE Keeps
    BY <2>1, <2>2, <2>3, <2>8 DEF LateUpload
  <2>9. ASSUME NEW i \in Items, NEW b \in BOOLEAN, ArchiveItem(i, b) \/ SetArchiveFlag(i, b)
        PROVE  Keeps
    <3>1. \A rows \in [Items -> ItemRow] :
             Spares(rows) => Spares([rows EXCEPT ![i] = [@ EXCEPT !.blocked = FALSE]])
      <4> SUFFICES ASSUME NEW rows \in [Items -> ItemRow], Spares(rows)
                   PROVE  Spares([rows EXCEPT ![i] = [@ EXCEPT !.blocked = FALSE]])
        OBVIOUS
      <4>1. [rows[i] EXCEPT !.blocked = FALSE].state = rows[i].state
        BY DEF ItemRow
      <4> QED
        BY <4>1 DEF Spares
    <3>2. Wanted({i}) \in [Items -> ItemRow] /\ Spares(Wanted({i}))
      BY <2>0, ChangesSpare, ChangesAreSound DEF Sound
    <3>3. [item[i] EXCEPT !.flag = b].state = item[i].state
      BY <2>0 DEF TypeOK, ItemRow
    <3>4. Spares([item EXCEPT ![i] = [@ EXCEPT !.flag = b]])
      BY <2>0, <3>3 DEF Spares, TypeOK
    <3> QED
      BY <2>1, <2>3, <2>9, <3>1, <3>2, <3>4 DEF ArchiveItem, SetArchiveFlag
  <2>10. ASSUME NEW a \in Actors, EraseCommit(a) PROVE Keeps
    <3>1. \A i \in Items : i \notin erase[a].doomed => item'[i] = item[i]
      BY <2>10 DEF EraseCommit, Tombstoned
    <3>2. Innocent
      BY <2>0, <2>10 DEF EraseCommit, Innocent, TypeOK, EraseRow, Actors
    <3> QED
      BY <3>1, <3>2 DEF Innocent
  <2>11. ASSUME NEW a \in Actors, EraseHook(a) PROVE Keeps
    <3>1. Innocent
      BY <2>0, <2>11 DEF EraseHook, NoErase, Innocent, TypeOK, Actors
    <3> QED
      BY <2>1, <2>2, <2>11, <3>1 DEF EraseHook
  <2>12. ASSUME NEW m \in Modes, UpdateMirror(m) PROVE Keeps
    <3> DEFINE asked == Wanted(IF m = "rolling" THEN UNION PolicyWants(m) ELSE {})
               rows  == Tombstoned(asked, RolledOut(m))
    <3>1. Items # {} => asked \in [Items -> ItemRow] /\ Spares(asked) /\ Sound(rows)
      <4>1. \A S : Items # {} => Sound(Wanted(S)) /\ Spares(Wanted(S))
        BY <2>0, ChangesSpare, ChangesAreSound
      <4>2. Items # {} => Sound(asked) /\ Spares(asked)
        BY <4>1
      <4>3. Items # {} => Sound(rows)
        <5> HIDE DEF asked
        <5> QED
          BY <2>0, <4>2, ChangesAreSound
      <4> HIDE DEF asked, rows
      <4> QED
        BY <4>2, <4>3 DEF Sound
    <3>2. Items # {} => rows \in [Items -> ItemRow] /\ Spares(rows)
      <4> HIDE DEF asked
      <4> QED
        BY <2>0, <3>1, ChangesSpare DEF Sound
    <3>3. item' = [i \in Items |-> IF m = Locking /\ item[i].state = "archived"
                                   THEN [rows[i] EXCEPT !.flag = TRUE] ELSE rows[i]]
      BY <2>12 DEF UpdateMirror
    <3> HIDE DEF asked, rows
    <3>4. Spares(item')
      <4> SUFFICES ASSUME NEW i \in Items PROVE item'[i].state = rows[i].state
        BY <3>2 DEF Spares
      <4>1. rows[i] \in ItemRow
        BY <3>2
      <4>2. [rows[i] EXCEPT !.flag = TRUE].state = rows[i].state
        BY <4>1 DEF ItemRow
      <4> QED
        BY <3>3, <4>2
    <3>5. Innocent
      BY <2>0, <2>12 DEF UpdateMirror, Removing, Innocent, NoErase, TypeOK, Actors
    <3> QED
      BY <2>1, <3>4, <3>5
  <2>13. CASE ClearFeed
    <3>1. Innocent
      BY <2>0, <2>13 DEF ClearFeed, Reading, Innocent, Unlocked, TypeOK, Actors
    <3> QED
      BY <2>1, <2>2, <2>13, <3>1 DEF ClearFeed
  <2>14. CASE Release
    <3>1. \A i \in Items : [item[i] EXCEPT !.blocked = FALSE].state = item[i].state
      BY <2>0 DEF TypeOK, ItemRow
    <3>2. Spares(item')
      BY <2>14, <3>1 DEF Release, Spares
    <3> QED
      BY <2>1, <2>3, <2>14, <3>2 DEF Release
  <2>15. CASE Sigterm \/ Restart \/ Maintenance \/ Schedule \/ \E b \in BOOLEAN : SetPaused(b)
    BY <2>1, <2>2, <2>3, <2>15 DEF Sigterm, Restart, Maintenance, Schedule, SetPaused
  <2>16. ASSUME NEW j \in Jobs, Handler(j) PROVE Keeps
    BY <1>1, <2>1, <2>16, HandlersSpare
  <2> QED
    BY <1>1, <2>4, <2>5, <2>6, <2>7, <2>8, <2>9, <2>10, <2>11, <2>12, <2>13, <2>14, <2>15, <2>16
    DEF Next
<1>2. IInv /\ [Next]_vars => [Keeps]_vars
  BY <1>1
<1> QED
  BY Invariant, <1>2, PTL DEF Spec, LockSeenIsKept

-----------------------------------------------------------------------------
(* While no worker dies, the row of an item follows the job about it.       *)

\* No execution is cut short: no worker dies or is stopped.  The quota, stuck
\* threads, errors nothing records, a store that fills, the users and the api
\* process do what they like.
Undisturbed == \A s \in Scenarios : s["crash"] = 0 /\ s["drain"] = 0
Alive       == left["crash"] = 0 /\ left["drain"] = 0 /\ ~stop

\* What a job downloads is archiving, unless it was deleted, or asked for again.
StillAsked ==
    \A j \in Jobs : exec[j].phase \in Downloading =>
        item[ItemOf[j]].state \in {"archiving", "wanted", "deleted"}

Succeeding(j) == exec[j].phase = "settling" /\ exec[j].outcome = "success"

\* A block leaves no job about its item but the one that found the quota full.
BlockedQuiet ==
    \A j \in Q!InStatus(Q!Active) :
        (ItemOf[j] \in Items /\ item[ItemOf[j]].blocked) => Succeeding(j)

RowInv ==
    /\ IInv /\ Alive
    /\ ArchivingIsRunning /\ StillAsked /\ BlockedQuiet /\ Agreement
    /\ Q!OneActivePerKey

\* No step interrupts an execution, nor makes the next one able to.
LEMMA AliveStep ==
    ASSUME TypeOK, Alive, [Next]_vars
    PROVE  /\ Alive'
           /\ \A j \in Jobs : ~Leftover(j)
           /\ ~Sigterm /\ ~Crash
<1>0. left \in [Hazards -> Nat]
  BY DEF TypeOK
<1>1. \A h \in {"crash", "drain"} : ~Spend(h)
  BY DEF Alive, Spend
<1>2. /\ \A j \in Jobs : ~Leftover(j)
      /\ ~Sigterm /\ ~Crash
  BY <1>1 DEF Leftover, Sigterm, Crash, Alive
<1>3. ASSUME NEW h \in Hazards, Spend(h), UNCHANGED stop PROVE Alive'
  BY <1>0, <1>1, <1>3 DEF Alive, Spend, Hazards
<1>4. (left' = left /\ stop' = stop) => Alive'
  BY DEF Alive
<1>5. ASSUME NEW j \in Jobs, Handler(j) \/ Raises(j) PROVE Alive'
  BY <1>3, <1>4, <1>5 DEF Handler, Raises, ScratchFails, AttachmentsFail, DatabaseError, Unheard, Begin, FetchOk, FetchFails, FetchTooLarge, Upload, UploadFails,
     Mark, Commit, Discard, Expire, RefreshApply, OtherFails, Erased, Settle, Hazards
<1>6. ASSUME NEW j \in Jobs, \/ Claim(j) \/ MonitorPoll(j) \/ SoftTimeout(j) \/ MarkStuck(j)
                             \/ GoStale(j) \/ CancelJob(j)
      PROVE  Alive'
  BY <1>3, <1>4, <1>6 DEF Claim, MonitorPoll, SoftTimeout, MarkStuck, GoStale, CancelJob, Hazards
<1>7. ASSUME NEW i \in Items, \/ DeleteItem(i) \/ LateUpload(i)
                              \/ \E b \in BOOLEAN : ArchiveItem(i, b) \/ SetArchiveFlag(i, b)
      PROVE  Alive'
  BY <1>3, <1>4, <1>7 DEF DeleteItem, LateUpload, ArchiveItem, SetArchiveFlag, Hazards
<1>8. ASSUME NEW a \in Actors, EraseCommit(a) \/ EraseHook(a) PROVE Alive'
  BY <1>4, <1>8 DEF EraseCommit, EraseHook
<1>9. ASSUME \/ \E m \in Modes : UpdateMirror(m)
             \/ \E b \in BOOLEAN : SetPaused(b)
             \/ ClearFeed \/ ApiCrash
      PROVE  Alive'
  BY <1>3, <1>9 DEF UpdateMirror, SetPaused, ClearFeed, ApiCrash, Hazards
<1>10. CASE Maintenance \/ Schedule \/ UNCHANGED vars
  <2>1. left' = left /\ stop' = stop
    BY <1>10 DEF Maintenance, Schedule, vars
  <2> QED
    BY <1>2, <1>4, <2>1
<1>12. CASE Release
  <2>1. left' = left /\ stop' = stop
    BY <1>12 DEF Release
  <2> QED
    BY <1>2, <1>4, <2>1
<1>11. CASE Restart
  BY <1>2, <1>11 DEF Restart, Alive
<1> QED
  BY <1>2, <1>5, <1>6, <1>7, <1>8, <1>9, <1>10, <1>11, <1>12 DEF Next

\* A handler's step that changes its item's row, or fails to tell it.
OwnStep(j) ==
    \/ Begin(j) \/ FetchTooLarge(j) \/ UploadFails(j) \/ Commit(j) \/ MarkStuck(j)
    \/ Raises(j) \/ \E o \in Outcomes : FetchFails(j, o)

\* Every other change of a row: deleted, asked for again, unblocked.
Milder(rows, i) ==
    /\ rows[i].blocked => item[i].blocked
    /\ \/ rows[i].state \in {item[i].state, "deleted"}
       \/ rows[i].state = "wanted" /\ item[i].state \in Rewantable
Mild == \A i \in Items : Milder(item', i)

\* The statements that want, tombstone, lock and unblock are such changes.
LEMMA MildChanges ==
    ASSUME TypeOK, NEW i \in Items
    PROVE  /\ Milder(item, i)
           /\ \A S : Milder(Wanted(S), i)
           /\ \A rows, S : (rows \in [Items -> ItemRow] /\ Milder(rows, i))
                              => Milder(Tombstoned(rows, S), i)
<1>0. item[i] \in ItemRow
  BY DEF TypeOK
<1>1. ASSUME NEW S PROVE Milder(Wanted(S), i)
  <2>1. /\ [item[i] EXCEPT !.state = "wanted"].state = "wanted"
        /\ [item[i] EXCEPT !.state = "wanted"].blocked = item[i].blocked
    BY <1>0 DEF ItemRow
  <2> QED
    BY <2>1 DEF Milder, Wanted
<1>2. ASSUME NEW rows \in [Items -> ItemRow], NEW S, Milder(rows, i)
      PROVE  Milder(Tombstoned(rows, S), i)
  <2>1. rows[i] \in ItemRow
    OBVIOUS
  <2>2. /\ [rows[i] EXCEPT !.state = "deleted", !.media = FALSE].state = "deleted"
        /\ [rows[i] EXCEPT !.state = "deleted", !.media = FALSE].blocked = rows[i].blocked
    BY <2>1 DEF ItemRow
  <2> QED
    BY <1>2, <2>2 DEF Milder, Tombstoned
<1> QED
  BY <1>1, <1>2 DEF Milder

\* Only a handler's own step does more than that to a row.
LEMMA MildStep ==
    ASSUME TypeOK, NotYetArchived, [Next]_vars
    PROVE  Mild \/ \E j \in Jobs : OwnStep(j)
<1>0. item \in [Items -> ItemRow]
  BY DEF TypeOK
<1>1. UNCHANGED item => Mild
  BY MildChanges DEF Mild, Milder
<1>2. ASSUME NEW W, NEW S PROVE \A i \in Items : Milder(Tombstoned(Wanted(W), S), i)
  <2> SUFFICES ASSUME NEW i \in Items PROVE Milder(Tombstoned(Wanted(W), S), i)
    OBVIOUS
  <2>1. Wanted(W) \in [Items -> ItemRow]
    BY ChangesAreSound DEF Sound
  <2> QED
    BY <2>1, MildChanges
<1>3. ASSUME NEW j \in Jobs, Handler(j) PROVE Mild \/ OwnStep(j)
  <2>1. CASE RefreshApply(j)
    <3>1. PICK W \in PolicyWants(mode) : item' = Tombstoned(Wanted(W), RolledOut(mode))
      BY <2>1 DEF RefreshApply
    <3> QED
      BY <1>2, <3>1 DEF Mild
  <2>2. CASE FetchOk(j) \/ Upload(j) \/ Mark(j) \/ Discard(j) \/ Expire(j) \/ Erased(j) \/ Settle(j)
             \/ \E o \in Outcomes : OtherFails(j, o)
    BY <1>1, <2>2 DEF FetchOk, Upload, Mark, Discard, Expire, Erased, Settle, OtherFails
  <2> QED
    BY <1>3, <2>1, <2>2 DEF Handler, OwnStep
<1>4. ASSUME NEW j \in Jobs, \/ Claim(j) \/ Raises(j) \/ MonitorPoll(j) \/ SoftTimeout(j)
                             \/ Leftover(j) \/ GoStale(j) \/ CancelJob(j)
      PROVE  UNCHANGED item
  BY <1>4 DEF Claim, Raises, ScratchFails, AttachmentsFail, DatabaseError, Unheard, MonitorPoll, SoftTimeout, Leftover, GoStale, CancelJob
<1>5. ASSUME NEW k \in Items, NEW b \in BOOLEAN, ArchiveItem(k, b) PROVE Mild
  <2> DEFINE r == [Wanted({k})[k] EXCEPT !.blocked = FALSE]
  <2>1. Wanted({k}) \in [Items -> ItemRow]
    BY ChangesAreSound DEF Sound
  <2>2. r.state = Wanted({k})[k].state /\ r.blocked = FALSE
    BY <2>1 DEF ItemRow
  <2>3. item' = [Wanted({k}) EXCEPT ![k] = r]
    BY <1>5 DEF ArchiveItem
  <2> HIDE DEF r
  <2> SUFFICES ASSUME NEW i \in Items PROVE Milder(item', i)
    BY DEF Mild
  <2>4. Milder(Wanted({k}), i)
    BY MildChanges
  <2>5. CASE i = k
    <3>1. item'[i] = r
      BY <2>1, <2>3, <2>5
    <3> QED
      BY <2>2, <2>4, <2>5, <3>1 DEF Milder
  <2>6. CASE i # k
    <3>1. item'[i] = Wanted({k})[i]
      BY <2>1, <2>3, <2>6
    <3> QED
      BY <2>4, <3>1 DEF Milder
  <2> QED
    BY <2>5, <2>6
<1>6. ASSUME NEW k \in Items, NEW b \in BOOLEAN, SetArchiveFlag(k, b) PROVE Mild
  <2> DEFINE r == [item[k] EXCEPT !.flag = b]
  <2>1. r.state = item[k].state /\ r.blocked = item[k].blocked
    BY <1>0 DEF ItemRow
  <2>2. item' = [item EXCEPT ![k] = r]
    BY <1>6 DEF SetArchiveFlag
  <2> HIDE DEF r
  <2> QED
    BY <1>0, <2>1, <2>2 DEF Mild, Milder
<1>7. ASSUME NEW a \in Actors, EraseCommit(a) PROVE Mild
  <2> SUFFICES ASSUME NEW i \in Items PROVE Milder(item', i)
    BY DEF Mild
  <2> QED
    BY <1>0, <1>7, MildChanges DEF EraseCommit
<1>8. ASSUME NEW m \in Modes, UpdateMirror(m) PROVE Mild
  <2> DEFINE W == IF m = "rolling" THEN UNION PolicyWants(m) ELSE {}
             rows == Tombstoned(Wanted(W), RolledOut(m))
  <2>1. item' = [i \in Items |-> IF m = Locking /\ item[i].state = "archived"
                                  THEN [rows[i] EXCEPT !.flag = TRUE] ELSE rows[i]]
    BY <1>8 DEF UpdateMirror
  <2> HIDE DEF W
  <2>2. \A i \in Items : Milder(rows, i)
    BY <1>2
  <2> SUFFICES ASSUME NEW i \in Items PROVE Milder(item', i)
    BY DEF Mild
  <2>3. Wanted(W) \in [Items -> ItemRow] /\ Sound(Wanted(W))
    BY ChangesAreSound DEF Sound
  <2>4. rows \in [Items -> ItemRow]
    BY <2>3, ChangesAreSound DEF Sound
  <2> HIDE DEF rows
  <2>5. /\ [rows[i] EXCEPT !.flag = TRUE].state = rows[i].state
        /\ [rows[i] EXCEPT !.flag = TRUE].blocked = rows[i].blocked
    BY <2>4 DEF ItemRow
  <2>6. item'[i].state = rows[i].state /\ item'[i].blocked = rows[i].blocked
    BY <2>1, <2>5
  <2> QED
    BY <2>2, <2>6 DEF Milder
<1>9. CASE Release
  <2>1. \A i \in Items : /\ [item[i] EXCEPT !.blocked = FALSE].state = item[i].state
                         /\ [item[i] EXCEPT !.blocked = FALSE].blocked = FALSE
    BY <1>0 DEF ItemRow
  <2>2. PICK S : item' = [i \in Items |-> IF item[i].blocked /\ (i \in S \/ item[i].state # "wanted")
                                    THEN [item[i] EXCEPT !.blocked = FALSE] ELSE item[i]]
    BY <1>9 DEF Release
  <2> QED
    BY <2>1, <2>2 DEF Mild, Milder
<1>10. ASSUME NEW i \in Items, DeleteItem(i) \/ LateUpload(i) PROVE UNCHANGED item
  BY <1>10 DEF DeleteItem, LateUpload
<1>11. ASSUME NEW a \in Actors, EraseHook(a) PROVE UNCHANGED item
  BY <1>11 DEF EraseHook
<1>12. ASSUME \/ ClearFeed \/ Sigterm \/ Restart \/ Crash \/ ApiCrash \/ Maintenance \/ Schedule
              \/ (\E b \in BOOLEAN : SetPaused(b)) \/ UNCHANGED vars
       PROVE  UNCHANGED item
  BY <1>12 DEF ClearFeed, Sigterm, Restart, Crash, ApiCrash, Maintenance, Schedule, SetPaused, vars
<1> QED
  BY <1>1, <1>3, <1>4, <1>5, <1>6, <1>7, <1>8, <1>9, <1>10, <1>11, <1>12 DEF Next, OwnStep

\* No row becomes active; or rows are queued for items that no block is left on.
Fewer == \A k \in Jobs : job'[k].status \in Q!Active => job[k].status \in Q!Active
Asked(S, od) ==
    /\ CanQueue(S, od) /\ job' = Queued(job, S, od)
    /\ \A i \in S \cap Items : ~item'[i].blocked

\* Queuing keeps one active job per key, and adds jobs of the keys asked for.
LEMMA NewJobs ==
    ASSUME Q!TypeOK, Q!OneActivePerKey, NEW S, NEW od, CanQueue(S, od), job' = Queued(job, S, od)
    PROVE  /\ Q!OneActivePerKey'
           /\ \A j \in Jobs : job'[j].status \in Q!Active =>
                 job[j].status \in Q!Active \/ KeyOf[j] \in S
<1> DEFINE pick(k) == CHOOSE j \in Spare(k, od) : TRUE
           new     == {pick(k) : k \in Lacking(S)}
<1>1. \A k \in Lacking(S) : pick(k) \in Spare(k, od)
  BY DEF CanQueue
<1>2. \A j \in new : /\ job[j].status = "unborn" /\ j \in Jobs
                     /\ KeyOf[j] \in Lacking(S) /\ j = pick(KeyOf[j])
  <2> SUFFICES ASSUME NEW k \in Lacking(S)
               PROVE  /\ job[pick(k)].status = "unborn" /\ pick(k) \in Jobs
                      /\ KeyOf[pick(k)] = k
    OBVIOUS
  <2> HIDE DEF pick
  <2> QED
    BY <1>1 DEF Spare
<1>3. \A j \in Jobs : job'[j] = IF j \in new
                                THEN [Q!Unborn EXCEPT !.status = "queued", !.due = TRUE] ELSE job[j]
  BY DEF Queued
<1> HIDE DEF pick, new
<1>4. \A j \in Jobs : (job'[j].status \in Q!Active /\ j \notin new) => job[j].status \in Q!Active
  BY <1>3
<1>5. Lacking(S) \subseteq S
  BY DEF Lacking
<1>6. ASSUME NEW a \in Jobs, NEW b \in Jobs, a \in new, b \notin new, job'[b].status \in Q!Active
      PROVE  KeyOf[a] # KeyOf[b]
  BY <1>2, <1>4, <1>6 DEF Lacking, Q!InStatus
<1>7. Q!OneActivePerKey'
  <2> SUFFICES ASSUME NEW a \in Jobs, NEW b \in Jobs, job'[a].status \in Q!Active,
                      job'[b].status \in Q!Active, KeyOf[a] = KeyOf[b]
               PROVE  a = b
    BY DEF Q!OneActivePerKey, Q!InStatus, KeyOf
  <2>1. CASE a \in new /\ b \in new
    BY <1>2, <2>1
  <2>2. CASE a \notin new /\ b \notin new
    BY <1>4, <2>2 DEF Q!OneActivePerKey, Q!InStatus
  <2> QED
    BY <1>6, <2>1, <2>2
<1> QED
  BY <1>2, <1>4, <1>5, <1>7

\* Rows that only leave the active ones keep one active job per key.
LEMMA FewerJobs ==
    ASSUME Q!OneActivePerKey, Fewer
    PROVE  Q!OneActivePerKey'
BY DEF Q!OneActivePerKey, Q!InStatus, Fewer, KeyOf

\* Cancelling, claiming, ending and sweeping activate no row.
LEMMA TableFewer ==
    ASSUME Q!TypeOK,
           \/ UNCHANGED job
           \/ \E j \in Jobs : \/ job' = [job EXCEPT ![j] = Q!Cancelled(j)]
                              \/ \E b \in BOOLEAN : Q!Claim(j, b)
                              \/ \E s \in Q!Finished : Q!Finish(j, s)
                              \/ \E b, c \in BOOLEAN : Q!Requeue(j, b, c)
                              \/ Q!GoStale(j)
           \/ Q!CancelForFeed(Feed) \/ Q!Maintenance({})
    PROVE  Fewer
<1>0. job \in [Jobs -> Q!Row]
  BY DEF Q!TypeOK
<1>1. \A j \in Jobs : Q!Cancelled(j).status \in Q!Active => job[j].status \in Q!Active
  BY <1>0 DEF Q!Cancelled, Q!Row, Q!Active
<1>2. ASSUME NEW j \in Jobs, NEW r, job' = [job EXCEPT ![j] = r],
             r.status \in Q!Active => job[j].status \in Q!Active
      PROVE  Fewer
  BY <1>0, <1>2 DEF Fewer
<1>3. ASSUME NEW j \in Jobs, NEW b \in BOOLEAN, Q!Claim(j, b) PROVE Fewer
  BY <1>0, <1>3, ClaimStarts DEF Q!TypeOK, Fewer, Q!Active
<1>4. ASSUME NEW j \in Jobs, NEW s \in Q!Finished, Q!Finish(j, s) PROVE Fewer
  BY <1>0, <1>4 DEF Q!Finish, Q!Finished, Fewer, Q!Row, Q!Active
<1>5. ASSUME NEW j \in Jobs, NEW b \in BOOLEAN, NEW c \in BOOLEAN, Q!Requeue(j, b, c) PROVE Fewer
  <2>1. CASE job[j].status = "running"
    BY <1>2, <1>5, <2>1 DEF Q!Requeue, Q!Active
  <2>2. CASE job[j].status # "running"
    BY <1>5, <2>2 DEF Q!Requeue, Fewer
  <2> QED
    BY <2>1, <2>2
<1>6. ASSUME NEW j \in Jobs, Q!GoStale(j) PROVE Fewer
  BY <1>0, <1>6 DEF Q!GoStale, Fewer, Q!Row
<1>7. CASE Q!CancelForFeed(Feed)
  BY <1>1, <1>7 DEF Q!CancelForFeed, Fewer
<1>8. CASE Q!Maintenance({})
  BY <1>8 DEF Q!Maintenance, Fewer, Q!Stale, Q!InStatus, Q!Active
<1>9. CASE UNCHANGED job
  BY <1>9 DEF Fewer
<1> QED
  BY <1>1, <1>2, <1>3, <1>4, <1>5, <1>6, <1>7, <1>8, <1>9

\* Every step of the system is one or the other.
LEMMA AskingStep ==
    ASSUME TypeOK, [Next]_vars
    PROVE  Fewer \/ \E S, od : Asked(S, od)
<1> DEFINE Fine == Fewer \/ \E S, od : Asked(S, od)
<1>0. Q!TypeOK /\ item \in [Items -> ItemRow]
  BY DEF TypeOK
<1>1. UNCHANGED job => Fine
  BY DEF Fewer
<1>2. ASSUME NEW S, NEW od, CanQueue(S, od), job' = Queued(job, S, od), S \cap Items = {}
      PROVE  Fine
  BY <1>2 DEF Asked
<1>3. ASSUME NEW j \in Jobs, Claim(j) \/ Settle(j) \/ MarkStuck(j) \/ Leftover(j) \/ GoStale(j)
                             \/ CancelJob(j)
      PROVE  Fine
  <2>1. \/ \E b \in BOOLEAN : Q!Claim(j, b)
        \/ \E s \in Q!Finished : Q!Finish(j, s)
        \/ \E b, c \in BOOLEAN : Q!Requeue(j, b, c)
        \/ Q!GoStale(j)
        \/ job' = [job EXCEPT ![j] = Q!Cancelled(j)]
    BY <1>3, SettledEnds
    DEF Claim, Settle, MarkStuck, Leftover, GoStale, CancelJob, Q!Finished, Q!Cancel
  <2> QED
    BY <1>0, <2>1, TableFewer
<1>4. ASSUME NEW j \in Jobs, RefreshApply(j) PROVE Fine
  <2>1. PICK W \in PolicyWants(mode) :
          LET rows  == Tombstoned(Wanted(W), RolledOut(mode))
              asked == {i \in Items : rows[i].state = "wanted" /\ ~rows[i].blocked}
          IN  /\ item' = rows
              /\ CanQueue(asked, FALSE)
              /\ job' = Queued(job, asked, FALSE)
    BY <1>4 DEF RefreshApply
  <2> DEFINE rows  == Tombstoned(Wanted(W), RolledOut(mode))
             asked == {i \in Items : rows[i].state = "wanted" /\ ~rows[i].blocked}
  <2>2. item' = rows /\ CanQueue(asked, FALSE) /\ job' = Queued(job, asked, FALSE)
    BY <2>1
  <2>3. \A i \in asked : ~item'[i].blocked
    BY <2>2
  <2> HIDE DEF rows, asked
  <2> QED
    BY <2>2, <2>3 DEF Asked
<1>5. ASSUME NEW j \in Jobs, Handler(j) \/ Raises(j) \/ MonitorPoll(j) \/ SoftTimeout(j),
             ~Settle(j), ~RefreshApply(j)
      PROVE  UNCHANGED job
  BY <1>5 DEF Handler, Raises, ScratchFails, AttachmentsFail, DatabaseError, Unheard, MonitorPoll, SoftTimeout, Begin, FetchOk, FetchFails,
              FetchTooLarge, Upload, UploadFails, Mark, Commit, Discard, Expire, OtherFails, Erased
<1>6. ASSUME NEW k \in Items, NEW b \in BOOLEAN, ArchiveItem(k, b) PROVE Fine
  <2> DEFINE r == [Wanted({k})[k] EXCEPT !.blocked = FALSE]
  <2>1. Wanted({k}) \in [Items -> ItemRow]
    BY <1>0, ChangesAreSound DEF TypeOK, Sound
  <2>2. r.blocked = FALSE
    BY <2>1 DEF ItemRow
  <2>3. item' = [Wanted({k}) EXCEPT ![k] = r]
    BY <1>6 DEF ArchiveItem
  <2> HIDE DEF r
  <2>4. CanQueue({k}, b) /\ job' = Queued(job, {k}, b) /\ ~item'[k].blocked
    BY <1>6, <2>1, <2>2, <2>3 DEF ArchiveItem
  <2> QED
    BY <2>4 DEF Asked
<1>7. CASE Release
  <2>1. PICK S \in SUBSET {i \in InState({"wanted"}) : item[i].blocked} :
           /\ CanQueue(S, FALSE) /\ job' = Queued(job, S, FALSE)
           /\ item' = [i \in Items |-> IF item[i].blocked /\ (i \in S \/ item[i].state # "wanted")
                                       THEN [item[i] EXCEPT !.blocked = FALSE] ELSE item[i]]
    BY <1>7 DEF Release
  <2>2. \A i \in Items : [item[i] EXCEPT !.blocked = FALSE].blocked = FALSE
    BY <1>0 DEF ItemRow
  <2>3. \A i \in S \cap Items : ~item'[i].blocked
    BY <2>1, <2>2
  <2> QED
    BY <2>1, <2>3 DEF Asked
<1>8. ASSUME NEW m \in Modes, UpdateMirror(m) PROVE Fine
  <2>1. PICK S \in SUBSET {RefreshKey} : CanQueue(S, FALSE) /\ job' = Queued(job, S, FALSE)
    BY <1>8 DEF UpdateMirror
  <2>2. S \cap Items = {}
    BY <2>1, ArchiveAssumption
  <2> QED
    BY <1>2, <2>1, <2>2
<1>9. ASSUME NEW b \in BOOLEAN, SetPaused(b) PROVE Fine
  <2>1. CASE b
    BY <1>0, <1>9, <2>1, TableFewer DEF SetPaused
  <2>2. CASE ~b
    <3>1. CanQueue({RefreshKey}, FALSE) /\ job' = Queued(job, {RefreshKey}, FALSE)
      BY <1>9, <2>2 DEF SetPaused
    <3> QED
      BY <1>2, <3>1, ArchiveAssumption
  <2> QED
    BY <2>1, <2>2
<1>10. CASE Schedule
  <2>1. PICK S \in SUBSET {RefreshKey, PruneKey} : CanQueue(S, FALSE) /\ job' = Queued(job, S, FALSE)
    BY <1>10 DEF Schedule
  <2>2. S \cap Items = {}
    BY <2>1, ArchiveAssumption
  <2> QED
    BY <1>2, <2>1, <2>2
<1>11. CASE Maintenance
  BY <1>0, <1>11, TableFewer DEF Maintenance
<1>12. ASSUME NEW a \in Actors, EraseCommit(a) PROVE Fine
  <2>1. CASE erase[a].job = NoJob
    BY <1>1, <1>12, <2>1 DEF EraseCommit
  <2>2. CASE erase[a].job # NoJob
    <3>1. erase[a].job \in Jobs
      BY <2>2 DEF TypeOK, EraseRow
    <3>2. job' = [job EXCEPT ![erase[a].job] = Q!Cancelled(erase[a].job)]
      BY <1>12, <2>2 DEF EraseCommit
    <3> QED
      BY <1>0, <3>1, <3>2, TableFewer
  <2> QED
    BY <2>1, <2>2
<1>13. ASSUME NEW i \in Items, \/ DeleteItem(i) \/ LateUpload(i)
                               \/ \E b \in BOOLEAN : SetArchiveFlag(i, b)
       PROVE  UNCHANGED job
  BY <1>13 DEF DeleteItem, LateUpload, SetArchiveFlag
<1>14. ASSUME NEW a \in Actors, EraseHook(a) PROVE UNCHANGED job
  BY <1>14 DEF EraseHook
<1>15. CASE ClearFeed \/ Sigterm \/ Restart \/ Crash \/ ApiCrash \/ UNCHANGED vars
  BY <1>1, <1>15 DEF ClearFeed, Sigterm, Restart, Crash, ApiCrash, vars
<1> QED
  BY <1>1, <1>3, <1>4, <1>5, <1>6, <1>7, <1>8, <1>9, <1>10, <1>11, <1>12, <1>13, <1>14, <1>15 DEF Next

\* An execution whose handler does not change its item's row: it goes on working
\* on it, or returns; and what it returned it settles.
Goes(j) ==
    /\ exec[j].phase \in Working =>
          \/ exec'[j].phase \in Working
          \/ exec'[j].phase = "discarding" /\ item[ItemOf[j]].state # "archiving"
    /\ exec'[j].phase \in Downloading => exec[j].phase \in Downloading
    /\ (exec'[j].phase = "settling" /\ KindOf[j] = "archive" /\ exec'[j].outcome # "success") =>
          /\ exec[j].phase = "settling" /\ exec[j].outcome = exec'[j].outcome
          /\ job'[j].attempt = job[j].attempt
    /\ (Succeeding(j) /\ job'[j].status \in Q!Active) => Succeeding(j)'

\* A step that leaves an execution and its row's attempts alone.
LEMMA GoesStill ==
    ASSUME NEW j \in Jobs, exec'[j].phase = exec[j].phase, exec'[j].outcome = exec[j].outcome,
           exec[j].phase = "settling" => job'[j].attempt = job[j].attempt
    PROVE  Goes(j)
BY DEF Goes, Succeeding

\* The rows that run count no attempt in a step of others.
LEMMA AttemptsStay ==
    ASSUME TypeOK, OwnsRow, Others, NEW j \in Jobs, exec[j].phase # "none"
    PROVE  job'[j].attempt = job[j].attempt
<1>0. Q!TypeOK /\ job[j].status = "running" /\ job[j].fresh /\ job[j] \in Q!Row
  BY DEF TypeOK, OwnsRow, Q!TypeOK
<1>1. ASSUME NEW S, NEW od, CanQueue(S, od), job' = Queued(job, S, od)
      PROVE  job'[j].attempt = job[j].attempt
  BY <1>0, <1>1, QueuedKeeps
<1>2. \A k \in Jobs : Q!Cancelled(k).attempt = job[k].attempt
  BY <1>0 DEF Q!TypeOK, Q!Row, Q!Cancelled
<1>3. ASSUME NEW k \in Jobs, job' = [job EXCEPT ![k] = Q!Cancelled(k)]
      PROVE  job'[j].attempt = job[j].attempt
  BY <1>0, <1>2, <1>3 DEF Q!TypeOK
<1>4. ASSUME NEW i \in Items, \/ DeleteItem(i) \/ LateUpload(i)
                              \/ \E b \in BOOLEAN : SetArchiveFlag(i, b)
      PROVE  UNCHANGED job
  BY <1>4 DEF DeleteItem, LateUpload, SetArchiveFlag
<1>5. ASSUME NEW i \in Items, NEW b \in BOOLEAN, ArchiveItem(i, b)
      PROVE  job'[j].attempt = job[j].attempt
  BY <1>1, <1>5 DEF ArchiveItem
<1>6. ASSUME NEW a \in Actors, EraseCommit(a) PROVE job'[j].attempt = job[j].attempt
  <2>1. CASE erase[a].job = NoJob
    BY <1>6, <2>1 DEF EraseCommit
  <2>2. CASE erase[a].job # NoJob
    <3>1. erase[a].job \in Jobs
      BY <2>2 DEF TypeOK, EraseRow
    <3>2. job' = [job EXCEPT ![erase[a].job] = Q!Cancelled(erase[a].job)]
      BY <1>6, <2>2 DEF EraseCommit
    <3> QED
      BY <1>3, <3>1, <3>2
  <2> QED
    BY <2>1, <2>2
<1>7. ASSUME NEW a \in Actors, EraseHook(a) PROVE UNCHANGED job
  BY <1>7 DEF EraseHook
<1>8. ASSUME NEW m \in Modes, UpdateMirror(m) PROVE job'[j].attempt = job[j].attempt
  BY <1>1, <1>8 DEF UpdateMirror
<1>9. ASSUME NEW b \in BOOLEAN, SetPaused(b) PROVE job'[j].attempt = job[j].attempt
  <2>1. CASE b
    BY <1>2, <1>9, <2>1 DEF SetPaused, Q!CancelForFeed
  <2>2. CASE ~b
    BY <1>1, <1>9, <2>2 DEF SetPaused
  <2> QED
    BY <2>1, <2>2
<1>10. ASSUME NEW k \in Jobs, CancelJob(k) PROVE job'[j].attempt = job[j].attempt
  BY <1>3, <1>10 DEF CancelJob, Q!Cancel
<1>11. CASE Maintenance
  BY <1>0, <1>11 DEF Maintenance, Q!Maintenance, Q!Stale
<1>12. CASE Schedule
  BY <1>1, <1>12 DEF Schedule
<1>13. CASE Release
  BY <1>1, <1>13 DEF Release
<1>14. CASE ClearFeed \/ Restart \/ ApiCrash \/ UNCHANGED vars
  BY <1>14 DEF ClearFeed, Restart, ApiCrash, vars
<1> QED
  BY <1>4, <1>5, <1>6, <1>7, <1>8, <1>9, <1>10, <1>11, <1>12, <1>13, <1>14 DEF Others

\* Moving to a phase and returning an outcome, as facts about the executions.
LEMMA Moved ==
    ASSUME TypeOK, NEW j \in Jobs
    PROVE  /\ \A p : To(j, p) => /\ exec'[j].phase = p /\ exec'[j].outcome = exec[j].outcome
                                 /\ \A k \in Jobs : k # j => exec'[k] = exec[k]
           /\ \A o : Return(j, o) => /\ exec'[j].phase = "settling" /\ exec'[j].outcome = o
                                     /\ \A k \in Jobs : k # j => exec'[k] = exec[k]
<1>0. exec \in [Jobs -> ExecRow] /\ exec[j] \in ExecRow
  BY DEF TypeOK
<1>1. ASSUME NEW p, To(j, p)
      PROVE  /\ exec'[j].phase = p /\ exec'[j].outcome = exec[j].outcome
             /\ \A k \in Jobs : k # j => exec'[k] = exec[k]
  BY <1>0, <1>1 DEF To, ExecRow
<1>2. ASSUME NEW o, Return(j, o)
      PROVE  /\ exec'[j].phase = "settling" /\ exec'[j].outcome = o
             /\ \A k \in Jobs : k # j => exec'[k] = exec[k]
  BY <1>0, <1>2 DEF Return, ExecRow
<1> QED
  BY <1>1, <1>2

\* Every execution goes like that, but the one whose handler changes a row.
LEMMA GoesStep ==
    ASSUME IInv, Alive, [Next]_vars, ~\E j \in Jobs : OwnStep(j)
    PROVE  \A k \in Jobs : Goes(k)
<1> DEFINE AllGo == \A k \in Jobs : Goes(k)
<1>0. TypeOK /\ OwnsRow /\ exec \in [Jobs -> ExecRow] /\ job \in [Jobs -> Q!Row]
  BY DEF IInv, TypeOK, Q!TypeOK
<1>1. ASSUME NEW j \in Jobs, Goes(j), \A k \in Jobs : k # j => exec'[k] = exec[k] /\ job'[k] = job[k]
      PROVE  AllGo
  BY <1>1, GoesStill
<1>2. ASSUME NEW j \in Jobs, Claim(j) PROVE AllGo
  <2>1. exec[j].phase = "none" /\ exec'[j].phase = "begin"
        /\ \A k \in Jobs : k # j => exec'[k] = exec[k]
    BY <1>0, <1>2, Moved DEF Claim, Is
  <2>2. \A k \in Jobs : k # j => job'[k] = job[k]
    BY <1>0, <1>2, ClaimStarts DEF Claim, Q!TypeOK
  <2>3. Goes(j)
    BY <2>1 DEF Goes, Succeeding, Downloading, Working
  <2> QED
    BY <1>1, <2>1, <2>2, <2>3
<1>3. ASSUME NEW j \in Jobs, Settle(j) PROVE AllGo
  <2>1. exec[j].phase = "settling" /\ exec' = [exec EXCEPT ![j] = NoExec] /\ Settled(j)
    BY <1>3 DEF Settle, Is
  <2>2. exec'[j].phase = "none" /\ \A k \in Jobs : k # j => exec'[k] = exec[k]
    BY <1>0, <2>1 DEF NoExec
  <2>3. \A k \in Jobs : k # j => job'[k] = job[k]
    BY <1>0, <1>3, Leaves
  <2>4. Succeeding(j) => job'[j].status \notin Q!Active
    BY <1>0, <2>1 DEF Succeeding, Settled, Q!Finish, Q!Active, Q!Row
  <2>5. Goes(j)
    BY <2>1, <2>2, <2>4 DEF Goes, Downloading, Working
  <2> QED
    BY <1>1, <2>2, <2>3, <2>5
<1>4. ASSUME NEW j \in Jobs, Handler(j), ~Settle(j), ~RefreshApply(j) PROVE AllGo
  <2>1. UNCHANGED job
    BY <1>4 DEF Handler, Begin, FetchOk, FetchFails, FetchTooLarge, Upload, UploadFails, Mark, Commit,
                Discard, Expire, OtherFails, Erased
  <2>2. ASSUME NEW p \in Working, exec[j].phase \in Working, To(j, p) PROVE AllGo
    <3>1. Goes(j)
      BY <1>0, <2>2, Moved DEF Goes, Succeeding, Downloading, Working
    <3> QED
      BY <1>0, <1>1, <2>1, <2>2, <3>1, Moved
  <2>3. ASSUME exec[j].phase \notin Working \cup {"settling"},
               \/ To(j, "erasing")
               \/ Return(j, "success")
               \/ KindOf[j] # "archive" /\ \E o \in Outcomes : Return(j, o)
        PROVE AllGo
    <3>1. /\ \/ exec'[j].phase = "erasing"
             \/ exec'[j].phase = "settling" /\ (exec'[j].outcome = "success" \/ KindOf[j] # "archive")
          /\ \A k \in Jobs : k # j => exec'[k] = exec[k]
      BY <1>0, <2>3, Moved
    <3>2. Goes(j)
      BY <2>3, <3>1 DEF Goes, Succeeding, Downloading, Working
    <3> QED
      BY <1>1, <2>1, <3>1, <3>2
  <2>4. CASE FetchOk(j) \/ Upload(j)
    BY <2>2, <2>4 DEF FetchOk, Upload, Is, Working
  <2>5. CASE Mark(j)
    <3>1. exec[j].phase = "uploaded"
      BY <2>5 DEF Mark, Is
    <3>2. CASE To(j, "discarding") /\ item[ItemOf[j]].state # "archiving"
      <4>1. Goes(j)
        BY <1>0, <3>1, <3>2, Moved DEF Goes, Succeeding, Downloading, Working
      <4> QED
        BY <1>0, <1>1, <2>1, <3>2, <4>1, Moved
    <3>3. CASE exec' = [exec EXCEPT ![j] = [@ EXCEPT !.phase = "committing",
                                                    !.lock = (mode = Locking)]]
      <4>1. exec'[j].phase = "committing" /\ \A k \in Jobs : k # j => exec'[k] = exec[k]
        BY <1>0, <3>3 DEF ExecRow
      <4>2. Goes(j)
        BY <3>1, <4>1 DEF Goes, Succeeding, Downloading, Working
      <4> QED
        BY <1>1, <2>1, <4>1, <4>2
    <3> QED
      BY <2>5, <3>2, <3>3 DEF Mark
  <2>6. CASE Discard(j) \/ Expire(j) \/ Erased(j) \/ \E o \in Outcomes : OtherFails(j, o)
    BY <2>3, <2>6 DEF Discard, Expire, Erased, OtherFails, Is, Working
  <2>7. ~OwnStep(j)
    OBVIOUS
  <2> QED
    BY <1>4, <2>4, <2>5, <2>6, <2>7 DEF Handler, OwnStep
<1>5. ASSUME NEW j \in Jobs, RefreshApply(j) PROVE AllGo
  <2>1. exec[j].phase = "begin" /\ exec'[j].phase = "erasing"
        /\ \A k \in Jobs : k # j => exec'[k] = exec[k]
    BY <1>0, <1>5, Moved DEF RefreshApply, Is
  <2>2. PICK S, od : CanQueue(S, od) /\ job' = Queued(job, S, od)
    BY <1>5 DEF RefreshApply
  <2>3. \A k \in Jobs : job[k].status # "unborn" => job'[k] = job[k]
    BY <1>0, <2>2, QueuedKeeps DEF Q!TypeOK
  <2> SUFFICES ASSUME NEW k \in Jobs PROVE Goes(k)
    OBVIOUS
  <2>4. CASE k = j
    BY <2>1, <2>4 DEF Goes, Succeeding, Downloading, Working
  <2>5. CASE k # j
    <3>1. exec[k].phase = "settling" => job'[k] = job[k]
      BY <1>0, <2>3 DEF OwnsRow
    <3> QED
      BY <2>1, <2>5, <3>1, GoesStill
  <2> QED
    BY <2>4, <2>5
<1>6. ASSUME NEW j \in Jobs, MonitorPoll(j) \/ SoftTimeout(j) PROVE AllGo
  <2>1. /\ [exec[j] EXCEPT !.token = TRUE, !.user = TRUE].phase = exec[j].phase
        /\ [exec[j] EXCEPT !.token = TRUE, !.user = TRUE].outcome = exec[j].outcome
        /\ [exec[j] EXCEPT !.token = TRUE, !.timedOut = TRUE].phase = exec[j].phase
        /\ [exec[j] EXCEPT !.token = TRUE, !.timedOut = TRUE].outcome = exec[j].outcome
    BY <1>0 DEF ExecRow
  <2>2. UNCHANGED job
    BY <1>6 DEF MonitorPoll, SoftTimeout
  <2>3. \A k \in Jobs : exec'[k].phase = exec[k].phase /\ exec'[k].outcome = exec[k].outcome
    BY <1>0, <1>6, <2>1 DEF MonitorPoll, SoftTimeout
  <2> QED
    BY <2>2, <2>3, GoesStill
<1>7. ASSUME NEW j \in Jobs, GoStale(j) PROVE AllGo
  <2>1. UNCHANGED exec /\ job' = [job EXCEPT ![j].fresh = FALSE]
    BY <1>7 DEF GoStale, Q!GoStale
  <2>2. \A k \in Jobs : job'[k].attempt = job[k].attempt
    BY <1>0, <2>1 DEF Q!Row
  <2> QED
    BY <2>1, <2>2, GoesStill
<1>8. CASE Others
  <2>1. UNCHANGED exec
    BY <1>0, <1>8, OthersAreGentle
  <2>2. \A k \in Jobs : exec[k].phase = "settling" => job'[k].attempt = job[k].attempt
    BY <1>0, <1>8, AttemptsStay
  <2> QED
    BY <2>1, <2>2, GoesStill
<1>9. \A j \in Jobs : ~Raises(j) /\ ~Leftover(j) /\ ~MarkStuck(j)
  BY <1>0, AliveStep DEF OwnStep
<1>10. ~Sigterm /\ ~Crash
  BY <1>0, AliveStep
<1> QED
  BY <1>2, <1>3, <1>4, <1>5, <1>6, <1>7, <1>8, <1>9, <1>10, WhoSteps

\* What a handler's own step does: to its item, its execution and its row, and
\* to nobody else's.
Told(j) ==      \* Agreement, of one job
    LET s == item[ItemOf[j]].state
        last == job[j].attempt >= MaxAttempts
    IN  ItemOf[j] \notin unheard =>
        CASE exec[j].outcome = "permanent" -> s \in {"failed", "deleted", "wanted"}
          [] exec[j].outcome = "transient" ->
                s \in {"wanted", "deleted"} \cup (IF last THEN {"failed"} ELSE {})
          [] exec[j].outcome \in {"notReady", "storageFull"} -> s \in {"wanted", "deleted"}
          [] OTHER -> TRUE

OwnEffect(j) ==
    LET i == ItemOf[j] IN
    /\ KindOf[j] = "archive" /\ exec[j].phase \in Working \cup {"begin"}
    /\ \A k \in Items : k # i => item'[k] = item[k]
    /\ \A k \in Jobs : k # j => exec'[k] = exec[k] /\ job'[k] = job[k]
    /\ unheard' \ {i} = unheard \ {i}
    /\ item'[i].state = "archiving" =>
          \/ exec'[j].phase \in Working \/ i \in unheard'
          \/ exec[j].phase = "begin" /\ item[i].state = "archiving" /\ i \notin unheard
    /\ exec'[j].phase \in Downloading => item'[i].state = "archiving"
    /\ exec'[j].phase = "settling" => Told(j)'
    /\ item'[i].blocked => item[i].blocked \/ Succeeding(j)'

\* An outcome other than these tells nothing of the row.
LEMMA SuccessTells ==
    ASSUME NEW j \in Jobs, exec'[j].outcome \in {"success", "cancelled"}
    PROVE  Told(j)'
BY DEF Told

\* The rows written by the two statements that end a download.
LEMMA EndedRows ==
    ASSUME TypeOK, NEW i \in Items
    PROVE  /\ \A k \in Items : k # i => Blocked(i)[k] = item[k]
           /\ Blocked(i)[i].state # "archiving"
           /\ \A s \in {"wanted", "failed"} :
                 /\ \A k \in Items : k # i => FromArchiving(i, s)[k] = item[k]
                 /\ FromArchiving(i, s)[i].blocked = item[i].blocked
                 /\ FromArchiving(i, s)[i].state =
                       IF item[i].state = "archiving" THEN s ELSE item[i].state
<1>0. item \in [Items -> ItemRow] /\ item[i] \in ItemRow
  BY DEF TypeOK
<1>1. /\ \A k \in Items : k # i => Blocked(i)[k] = item[k]
      /\ Blocked(i)[i].state # "archiving"
  <2> DEFINE r == [item[i] EXCEPT !.state = "wanted", !.blocked = TRUE]
  <2>1. r.state = "wanted"
    BY <1>0 DEF ItemRow
  <2>2. Blocked(i) = IF item[i].state \in {"wanted", "archiving"} THEN [item EXCEPT ![i] = r] ELSE item
    BY DEF Blocked
  <2> HIDE DEF r
  <2> QED
    BY <1>0, <2>1, <2>2
<1>2. ASSUME NEW s \in {"wanted", "failed"}
      PROVE  /\ \A k \in Items : k # i => FromArchiving(i, s)[k] = item[k]
             /\ FromArchiving(i, s)[i].blocked = item[i].blocked
             /\ FromArchiving(i, s)[i].state =
                   IF item[i].state = "archiving" THEN s ELSE item[i].state
  <2> DEFINE r == [item[i] EXCEPT !.state = s]
  <2>1. r.state = s /\ r.blocked = item[i].blocked
    BY <1>0 DEF ItemRow
  <2>2. FromArchiving(i, s) = IF item[i].state = "archiving" THEN [item EXCEPT ![i] = r] ELSE item
    BY DEF FromArchiving
  <2> HIDE DEF r
  <2> QED
    BY <1>0, <2>1, <2>2
<1> QED
  BY <1>1, <1>2

\* Blocks, failures, the start and the end of a download have that effect.
LEMMA OwnSteps ==
    ASSUME IInv, StillAsked, NEW j \in Jobs, OwnStep(j)
    PROVE  OwnEffect(j)
<1> DEFINE i == ItemOf[j]
<1>0. /\ TypeOK /\ exec \in [Jobs -> ExecRow] /\ job \in [Jobs -> Q!Row]
      /\ item \in [Items -> ItemRow]
  BY DEF IInv, TypeOK, Q!TypeOK
<1>1. exec[j].phase \in Working \cup {"begin"}
  BY DEF OwnStep, Begin, FetchFails, FetchTooLarge, UploadFails, Commit, MarkStuck, Is, Working,
         Raises, ScratchFails, AttachmentsFail, DatabaseError
<1>1a. unheard' \ {i} = unheard \ {i}
  BY DEF OwnStep, Begin, FetchFails, FetchTooLarge, UploadFails, Commit, MarkStuck,
         Raises, ScratchFails, AttachmentsFail, DatabaseError, Unheard
<1>2. KindOf[j] = "archive"
  BY <1>1 DEF OwnStep, Begin, FetchFails, FetchTooLarge, UploadFails, Commit, MarkStuck, Is,
              Raises, ScratchFails, AttachmentsFail, DatabaseError,
              IInv, NotYetArchived, Downloading, Working
<1>3. i \in Items
  BY <1>2, ArchiveAssumption
<1>4. exec[j].phase \in Working => item[i].state \in {"archiving", "wanted", "deleted"}
  BY DEF StillAsked, Downloading
<1>5. ASSUME NEW o \in Outcomes, Return(j, o), UNCHANGED job
      PROVE  /\ exec'[j].phase = "settling" /\ exec'[j].outcome = o
             /\ \A k \in Jobs : k # j => exec'[k] = exec[k] /\ job'[k] = job[k]
  BY <1>0, <1>5, Moved
<1>6. CASE Begin(j)
  <2>1. exec[j].phase = "begin" /\ UNCHANGED job
    BY <1>6 DEF Begin, Is
  <2>2. ASSUME NEW o \in {"success", "cancelled"}, Return(j, o), UNCHANGED unheard,
               item' = item \/ (o = "success" /\ item' = Blocked(i))
        PROVE  OwnEffect(j)
    <3>1. /\ exec'[j].phase = "settling" /\ exec'[j].outcome = o
          /\ \A k \in Jobs : k # j => exec'[k] = exec[k] /\ job'[k] = job[k]
      BY <1>5, <2>1, <2>2 DEF Outcomes
    <3>2. Told(j)'
      BY <3>1, SuccessTells
    <3>3. CASE item' = item
      BY <1>1, <1>1a, <1>2, <2>1, <2>2, <3>1, <3>2, <3>3 DEF OwnEffect, Downloading, Working
    <3>4. CASE o = "success" /\ item' = Blocked(i)
      <4>1. Succeeding(j)'
        BY <3>1, <3>4 DEF Succeeding
      <4>2. item'[i].state # "archiving" /\ \A k \in Items : k # i => item'[k] = item[k]
        BY <1>0, <1>3, <3>4, EndedRows
      <4> QED
        BY <1>1, <1>1a, <1>2, <3>1, <3>2, <4>1, <4>2 DEF OwnEffect, Downloading, Working
    <3> QED
      BY <2>2, <3>3, <3>4
  <2>3. CASE item' = [item EXCEPT ![i] = [@ EXCEPT !.state = "archiving"]] /\ To(j, "fetching")
    <3> DEFINE r == [item[i] EXCEPT !.state = "archiving"]
    <3>1. r.state = "archiving" /\ r.blocked = item[i].blocked
      BY <1>0, <1>3 DEF ItemRow
    <3>2. item' = [item EXCEPT ![i] = r]
      BY <2>3
    <3> HIDE DEF r
    <3>3. item'[i] = r /\ \A k \in Items : k # i => item'[k] = item[k]
      BY <1>0, <1>3, <3>2
    <3>4. exec'[j].phase = "fetching"
          /\ \A k \in Jobs : k # j => exec'[k] = exec[k] /\ job'[k] = job[k]
      BY <1>0, <2>1, <2>3, Moved
    <3> QED
      BY <1>1, <1>1a, <1>2, <3>1, <3>3, <3>4 DEF OwnEffect, Working
  <2>4. \/ item' = item /\ (Return(j, "success") \/ Return(j, "cancelled")) /\ UNCHANGED unheard
        \/ item' = Blocked(i) /\ Return(j, "success") /\ UNCHANGED unheard
        \/ item' = [item EXCEPT ![i] = [@ EXCEPT !.state = "archiving"]] /\ To(j, "fetching")
    BY <1>6 DEF Begin
  <2>5. ASSUME item' = item, Return(j, "success") \/ Return(j, "cancelled"), UNCHANGED unheard
        PROVE  OwnEffect(j)
    <3>1. CASE Return(j, "success")
      BY <2>2, <2>5, <3>1
    <3>2. CASE Return(j, "cancelled")
      BY <2>2, <2>5, <3>2
    <3> QED
      BY <2>5, <3>1, <3>2
  <2>6. ASSUME item' = Blocked(i), Return(j, "success"), UNCHANGED unheard PROVE OwnEffect(j)
    BY <2>2, <2>6
  <2> QED
    BY <2>3, <2>4, <2>5, <2>6
<1>7. CASE FetchTooLarge(j)
  <2>1. /\ exec'[j].phase = "settling" /\ exec'[j].outcome = "success"
        /\ \A k \in Jobs : k # j => exec'[k] = exec[k] /\ job'[k] = job[k]
    BY <1>5, <1>7 DEF FetchTooLarge, Outcomes
  <2>2. item'[i].state # "archiving" /\ \A k \in Items : k # i => item'[k] = item[k]
    BY <1>0, <1>3, <1>7, EndedRows DEF FetchTooLarge
  <2>3. Told(j)' /\ Succeeding(j)'
    BY <2>1, SuccessTells DEF Succeeding
  <2> QED
    BY <1>1, <1>1a, <1>2, <2>1, <2>2, <2>3 DEF OwnEffect, Downloading, Working
<1>8. ASSUME NEW o \in Outcomes, o # "success", exec[j].phase \in Working, Return(j, o),
             item' = FromArchiving(i, Recorded(j, o)), UNCHANGED job
      PROVE  OwnEffect(j)
  <2>1. /\ exec'[j].phase = "settling" /\ exec'[j].outcome = o
        /\ \A k \in Jobs : k # j => exec'[k] = exec[k] /\ job'[k] = job[k]
    BY <1>5, <1>8
  <2>2. Recorded(j, o) \in {"wanted", "failed"}
    BY DEF Recorded
  <2>3. /\ \A k \in Items : k # i => item'[k] = item[k]
        /\ item'[i].blocked = item[i].blocked
        /\ item'[i].state = IF item[i].state = "archiving" THEN Recorded(j, o) ELSE item[i].state
    BY <1>0, <1>3, <1>8, <2>2, EndedRows
  <2>4. item'[i].state \in {Recorded(j, o), "wanted", "deleted"} /\ item'[i].state # "archiving"
    BY <1>4, <1>8, <2>2, <2>3
  <2>5. Told(j)'
    BY <1>8, <2>1, <2>4 DEF Told, Recorded, Outcomes
  <2> QED
    BY <1>1, <1>1a, <1>2, <2>1, <2>3, <2>4, <2>5 DEF OwnEffect, Downloading, Working
<1>9. ASSUME NEW o \in Outcomes, FetchFails(j, o) PROVE OwnEffect(j)
  BY <1>8, <1>9 DEF FetchFails, Is, Working
<1>10. CASE UploadFails(j)
  BY <1>8, <1>10 DEF UploadFails, Is, Working, Outcomes
<1>11. CASE Commit(j)
  <2> DEFINE r == [state |-> "archived", flag |-> item[i].flag \/ exec[j].lock,
                   blocked |-> item[i].blocked, media |-> TRUE]
  <2>1. item' = [item EXCEPT ![i] = r]
    BY <1>11 DEF Commit
  <2>2. r.state = "archived" /\ r.blocked = item[i].blocked
    OBVIOUS
  <2> HIDE DEF r
  <2>3. item'[i] = r /\ \A k \in Items : k # i => item'[k] = item[k]
    BY <1>0, <1>3, <2>1
  <2>4. /\ exec'[j].phase = "settling" /\ exec'[j].outcome = "success"
        /\ \A k \in Jobs : k # j => exec'[k] = exec[k] /\ job'[k] = job[k]
    BY <1>5, <1>11 DEF Commit, Outcomes
  <2>5. Told(j)'
    BY <2>4, SuccessTells
  <2> QED
    BY <1>1, <1>1a, <1>2, <2>2, <2>3, <2>4, <2>5 DEF OwnEffect, Downloading, Working
<1>12. CASE MarkStuck(j)
  <2>1. exec'[j].phase = "none" /\ \A k \in Jobs : k # j => exec'[k] = exec[k] /\ job'[k] = job[k]
    <3>1. exec' = [exec EXCEPT ![j] = NoExec]
      BY <1>12 DEF MarkStuck
    <3>2. job' = [job EXCEPT ![j].status = "failed"]
      BY <1>12 DEF MarkStuck, Q!Finish
    <3> QED
      BY <1>0, <3>1, <3>2 DEF NoExec
  <2>2. /\ \A k \in Items : k # i => item'[k] = item[k]
        /\ item'[i].blocked = item[i].blocked
        /\ item'[i].state = IF item[i].state = "archiving" THEN "failed" ELSE item[i].state
    BY <1>0, <1>3, <1>12, EndedRows DEF MarkStuck
  <2> QED
    BY <1>1, <1>1a, <1>2, <2>1, <2>2 DEF OwnEffect, Downloading, Working
<1>13. CASE Raises(j)
  <2>1. /\ i \in unheard' /\ UNCHANGED <<item, job>> /\ Return(j, "transient")
    BY <1>13 DEF Raises, ScratchFails, AttachmentsFail, DatabaseError, Unheard
  <2>2. /\ exec'[j].phase = "settling"
        /\ \A k \in Jobs : k # j => exec'[k] = exec[k] /\ job'[k] = job[k]
    BY <1>5, <2>1 DEF Outcomes
  <2>3. Told(j)'
    BY <2>1 DEF Told
  <2> QED
    BY <1>1, <1>1a, <1>2, <2>1, <2>2, <2>3 DEF OwnEffect, Downloading, Working
<1> QED
  BY <1>6, <1>7, <1>9, <1>10, <1>11, <1>12, <1>13 DEF OwnStep

\* Agreement is what every settling archive job tells.
LEMMA AgreementIsTold ==
    Agreement <=> \A j \in Jobs : (exec[j].phase = "settling" /\ KindOf[j] = "archive") => Told(j)
BY DEF Agreement, Told, Is

\* A key names the item, and an item its archive jobs.
LEMMA KeysOfItems ==
    ASSUME NEW j \in Jobs, ItemOf[j] \in Items
    PROVE  KindOf[j] = "archive" /\ KeyOf[j] = ItemOf[j]
BY ArchiveAssumption DEF KeyOf

\* The invariant survives a handler's change of its own item's row.
LEMMA OwnKeeps ==
    ASSUME RowInv, IInv', Alive', Fewer, NEW j \in Jobs, OwnEffect(j)
    PROVE  RowInv'
<1> DEFINE i == ItemOf[j]
<1>0. /\ OwnsRow /\ OneRunning /\ NotYetArchived /\ ArchivingIsRunning /\ StillAsked
      /\ BlockedQuiet /\ Agreement /\ Q!OneActivePerKey
  BY DEF RowInv, IInv
<1>1. /\ KindOf[j] = "archive" /\ exec[j].phase \in Working \cup {"begin"}
      /\ i \in Items /\ job[j].status = "running"
  BY <1>0, ArchiveAssumption DEF OwnEffect, OwnsRow, Working
<1>2. /\ \A k \in Items : k # i => item'[k] = item[k]
      /\ \A k \in Jobs : k # j => exec'[k] = exec[k] /\ job'[k] = job[k]
  BY DEF OwnEffect
<1>2a. \A k \in Items : k # i => (k \in unheard' <=> k \in unheard)
  BY DEF OwnEffect
<1>3. ASSUME NEW k \in Jobs, k # j, exec[k].phase # "none", ItemOf[k] \in Items
      PROVE  ItemOf[k] # i
  BY <1>0, <1>1, <1>3 DEF OwnsRow, OneRunning, Q!InStatus
<1>4. Q!OneActivePerKey'
  BY <1>0, FewerJobs
<1>5. ArchivingIsRunning'
  <2> SUFFICES ASSUME NEW n \in Items, item'[n].state = "archiving", n \notin unheard'
               PROVE  \E m \in Jobs : ItemOf[m] = n /\ exec'[m].phase \in Working
    BY DEF ArchivingIsRunning, InState
  <2>1. CASE item[n].state = "archiving" /\ n \notin unheard /\ (n = i => exec[j].phase = "begin")
    <3>1. PICK m \in Jobs : ItemOf[m] = n /\ exec[m].phase \in Working
      BY <1>0, <2>1 DEF ArchivingIsRunning, InState
    <3>2. m # j
      BY <2>1, <3>1 DEF Working
    <3> QED
      BY <1>2, <3>1, <3>2
  <2>2. CASE n = i /\ exec'[j].phase \in Working
    BY <2>2
  <2>3. n = i => \/ exec'[j].phase \in Working
                 \/ exec[j].phase = "begin" /\ item[i].state = "archiving" /\ i \notin unheard
    BY DEF OwnEffect
  <2> QED
    BY <1>2, <1>2a, <2>1, <2>2, <2>3
<1>6. StillAsked'
  <2> SUFFICES ASSUME NEW k \in Jobs, exec'[k].phase \in Downloading
               PROVE  item'[ItemOf[k]].state \in {"archiving", "wanted", "deleted"}
    BY DEF StillAsked
  <2>1. CASE k = j
    BY <2>1 DEF OwnEffect
  <2>2. CASE k # j
    <3>1. exec[k].phase \in Downloading
      BY <1>2, <2>2
    <3>2. ItemOf[k] \in Items /\ ItemOf[k] # i
      BY <1>0, <1>3, <2>2, <3>1, ArchiveAssumption DEF NotYetArchived, Downloading, Working
    <3> QED
      BY <1>0, <1>2, <3>1, <3>2 DEF StillAsked
  <2> QED
    BY <2>1, <2>2
<1>7. Agreement'
  <2>1. ASSUME NEW k \in Jobs, exec'[k].phase = "settling", KindOf[k] = "archive"
        PROVE  Told(k)'
    <3>1. CASE k = j
      BY <2>1, <3>1 DEF OwnEffect
    <3>2. CASE k # j
      <4>1. ItemOf[k] \in Items /\ ItemOf[k] # i /\ exec[k].phase = "settling"
        BY <1>2, <1>3, <2>1, <3>2, ArchiveAssumption
      <4>2. Told(k)
        BY <1>0, <2>1, <4>1, AgreementIsTold
      <4>3. item'[ItemOf[k]] = item[ItemOf[k]] /\ exec'[k] = exec[k] /\ job'[k] = job[k]
        BY <1>2, <3>2, <4>1
      <4> QED
        BY <1>2a, <4>1, <4>2, <4>3 DEF Told
    <3> QED
      BY <3>1, <3>2
  <2> QED
    BY <2>1 DEF Agreement, Told, Is
<1>8. BlockedQuiet'
  <2> SUFFICES ASSUME NEW k \in Jobs, job'[k].status \in Q!Active, ItemOf[k] \in Items,
                      item'[ItemOf[k]].blocked
               PROVE  Succeeding(k)'
    BY DEF BlockedQuiet, Q!InStatus
  <2>1. job[k].status \in Q!Active
    BY DEF Fewer
  <2>2. CASE ItemOf[k] = i
    <3>1. k = j
      BY <1>0, <1>1, <2>1, <2>2, KeysOfItems DEF Q!OneActivePerKey, Q!InStatus, Q!Active
    <3>2. ~Succeeding(j)
      BY <1>1 DEF Succeeding, Working
    <3>3. ~item[i].blocked
      BY <1>0, <1>1, <2>1, <3>1, <3>2 DEF BlockedQuiet, Q!InStatus
    <3> QED
      BY <2>2, <3>1, <3>3 DEF OwnEffect
  <2>3. CASE ItemOf[k] # i
    <3>1. k # j
      BY <2>3
    <3>2. Succeeding(k)
      BY <1>0, <1>2, <2>1, <2>3 DEF BlockedQuiet, Q!InStatus
    <3> QED
      BY <1>2, <3>1, <3>2 DEF Succeeding
  <2> QED
    BY <2>2, <2>3
<1> QED
  BY <1>4, <1>5, <1>6, <1>7, <1>8 DEF RowInv

\* When no handler changes its item's row or fails to, the changes are too mild to matter.
LEMMA MildKeeps ==
    ASSUME RowInv, IInv', Alive', Mild, UNCHANGED unheard, \A j \in Jobs : Goes(j),
           Fewer \/ \E S, od : Asked(S, od)
    PROVE  RowInv'
<1>0. /\ NotYetArchived /\ ArchivingIsRunning /\ StillAsked
      /\ BlockedQuiet /\ Agreement /\ Q!OneActivePerKey /\ Q!TypeOK
  BY DEF RowInv, IInv, TypeOK
<1>1. Q!OneActivePerKey'
  BY <1>0, FewerJobs, NewJobs DEF Asked
<1>2. \A i \in Items : item'[i].state = "archiving" => item[i].state = "archiving"
  BY DEF Mild, Milder
<1>3. ArchivingIsRunning'
  <2> SUFFICES ASSUME NEW n \in Items, item'[n].state = "archiving", n \notin unheard'
               PROVE  \E m \in Jobs : ItemOf[m] = n /\ exec'[m].phase \in Working
    BY DEF ArchivingIsRunning, InState
  <2>1. PICK m \in Jobs : ItemOf[m] = n /\ exec[m].phase \in Working
    BY <1>0, <1>2 DEF ArchivingIsRunning, InState
  <2>2. exec'[m].phase \in Working
    BY <1>2, <2>1 DEF Goes
  <2> QED
    BY <2>1, <2>2
<1>4. StillAsked'
  <2> SUFFICES ASSUME NEW k \in Jobs, exec'[k].phase \in Downloading
               PROVE  item'[ItemOf[k]].state \in {"archiving", "wanted", "deleted"}
    BY DEF StillAsked
  <2>1. exec[k].phase \in Downloading
    BY DEF Goes
  <2>2. ItemOf[k] \in Items
    BY <1>0, <2>1, ArchiveAssumption DEF NotYetArchived
  <2>3. item[ItemOf[k]].state \in {"archiving", "wanted", "deleted"}
    BY <1>0, <2>1 DEF StillAsked
  <2> QED
    BY <2>2, <2>3 DEF Mild, Milder
<1>5. Agreement'
  <2>1. ASSUME NEW k \in Jobs, exec'[k].phase = "settling", KindOf[k] = "archive"
        PROVE  Told(k)'
    <3>1. CASE exec'[k].outcome = "success"
      BY <3>1, SuccessTells
    <3>2. CASE exec'[k].outcome # "success"
      <4>1. /\ exec[k].phase = "settling" /\ exec[k].outcome = exec'[k].outcome
            /\ job'[k].attempt = job[k].attempt
        BY <2>1, <3>2 DEF Goes
      <4>2. Told(k)
        BY <1>0, <2>1, <4>1, AgreementIsTold
      <4>3. Milder(item', ItemOf[k])
        BY <2>1, ArchiveAssumption DEF Mild
      <4>4. item'[ItemOf[k]].state \in {item[ItemOf[k]].state, "deleted", "wanted"}
        BY <4>3 DEF Milder
      <4> QED
        BY <4>1, <4>2, <4>4 DEF Told
    <3> QED
      BY <3>1, <3>2
  <2> QED
    BY <2>1 DEF Agreement, Told, Is
<1>6. BlockedQuiet'
  <2> SUFFICES ASSUME NEW k \in Jobs, job'[k].status \in Q!Active, ItemOf[k] \in Items,
                      item'[ItemOf[k]].blocked
               PROVE  Succeeding(k)'
    BY DEF BlockedQuiet, Q!InStatus
  <2>1. item[ItemOf[k]].blocked
    BY DEF Mild, Milder
  <2>2. job[k].status \in Q!Active
    <3>1. ASSUME NEW S, NEW od, Asked(S, od) PROVE job[k].status \in Q!Active
      <4>1. job[k].status \in Q!Active \/ KeyOf[k] \in S
        BY <1>0, <3>1, NewJobs DEF Asked
      <4>2. KeyOf[k] \notin S
        BY <3>1, KeysOfItems DEF Asked
      <4> QED
        BY <4>1, <4>2
    <3> QED
      BY <3>1 DEF Fewer
  <2>3. Succeeding(k)
    BY <1>0, <2>1, <2>2 DEF BlockedQuiet, Q!InStatus
  <2> QED
    BY <2>3 DEF Goes
<1> QED
  BY <1>1, <1>3, <1>4, <1>5, <1>6 DEF RowInv

\* A handler's own step queues nothing.
LEMMA OwnFewer ==
    ASSUME Q!TypeOK, NEW j \in Jobs, OwnStep(j)
    PROVE  Fewer
<1>1. UNCHANGED job \/ Q!Finish(j, "failed")
  BY DEF OwnStep, Begin, FetchFails, FetchTooLarge, UploadFails, Commit, MarkStuck,
         Raises, ScratchFails, AttachmentsFail, DatabaseError
<1> QED
  BY <1>1, TableFewer DEF Q!Finished

\* Nobody else's step leaves an error unheard.
LEMMA UnheardStays ==
    ASSUME TypeOK, Alive, [Next]_vars, ~\E j \in Jobs : OwnStep(j)
    PROVE  UNCHANGED unheard
<1>1. ASSUME NEW j \in Jobs, Handler(j) PROVE UNCHANGED unheard
  BY <1>1 DEF Handler, OwnStep, FetchOk, Upload, Mark, Discard, Expire, RefreshApply, OtherFails,
              Erased, Settle
<1>2. ASSUME NEW j \in Jobs, \/ Claim(j) \/ MonitorPoll(j) \/ SoftTimeout(j) \/ GoStale(j)
                             \/ CancelJob(j) \/ Leftover(j)
      PROVE  UNCHANGED unheard
  BY <1>2 DEF Claim, MonitorPoll, SoftTimeout, GoStale, CancelJob, Leftover
<1>3. CASE Others \/ Sigterm \/ Crash
  BY <1>3 DEF Others, Sigterm, Crash, DeleteItem, LateUpload, ArchiveItem, SetArchiveFlag,
              EraseCommit, EraseHook, UpdateMirror, SetPaused, CancelJob, ClearFeed, Restart,
              ApiCrash, Maintenance, Schedule, Release, vars
<1>4. \A j \in Jobs : ~MarkStuck(j) /\ ~Raises(j)
  BY DEF OwnStep
<1> QED
  BY <1>1, <1>2, <1>3, <1>4, WhoSteps DEF Handler

\* Every step keeps the invariant.
LEMMA RowStep ==
    ASSUME RowInv, [Next]_vars
    PROVE  RowInv'
<1>0. IInv /\ TypeOK /\ NotYetArchived /\ Alive /\ StillAsked /\ Q!TypeOK
  BY DEF RowInv, IInv, TypeOK
<1>1. IInv' /\ Alive'
  BY <1>0, InvStep, AliveStep
<1>2. ASSUME NEW j \in Jobs, OwnStep(j) PROVE RowInv'
  BY <1>0, <1>1, <1>2, OwnSteps, OwnFewer, OwnKeeps
<1>3. CASE ~\E j \in Jobs : OwnStep(j)
  BY <1>0, <1>1, <1>3, MildStep, GoesStep, AskingStep, UnheardStays, MildKeeps
<1> QED
  BY <1>2, <1>3

\* It holds of a fresh installation.
LEMMA RowInit ==
    ASSUME Undisturbed, Init
    PROVE  RowInv
<1>1. IInv
  BY InvInit
<1>2. Alive
  BY DEF Undisturbed, Init, Alive
<1>3. /\ \A i \in Items : item[i].state = "available" /\ ~item[i].blocked
      /\ \A j \in Jobs : exec[j].phase = "none" /\ job[j].status = "unborn"
  BY DEF Init, NoExec, Q!Init, Q!Unborn
<1>4. ArchivingIsRunning
  BY <1>3 DEF ArchivingIsRunning, InState
<1>5. StillAsked /\ BlockedQuiet
  BY <1>3 DEF StillAsked, BlockedQuiet, Downloading, Working, Q!InStatus
<1>6. Agreement
  BY <1>3, AgreementIsTold
<1>7. Q!OneActivePerKey
  BY <1>3 DEF Q!OneActivePerKey, Q!InStatus, Q!Active
<1> QED
  BY <1>1, <1>2, <1>4, <1>5, <1>6, <1>7 DEF RowInv

\* Unless the worker dies, is stopped or loses a transaction, the row of every
\* item follows the job about it: archiving only under an execution, blocked
\* only without a job that waits, left as the outcome says, one job per key.
THEOREM RowsFollow ==
    ASSUME Undisturbed
    PROVE  Spec => []RowFollowsJob
<1>1. Init => RowInv
  BY RowInit
<1>2. RowInv /\ [Next]_vars => RowInv'
  BY RowStep
<1>3. RowInv => RowFollowsJob
  <2> SUFFICES ASSUME RowInv PROVE BlockedCostsNoJob
    BY DEF RowInv, RowFollowsJob
  <2> SUFFICES ASSUME NEW i \in Items, item[i].blocked, NEW j \in ActiveJob(i)
               PROVE  job[j].status = "running"
    BY DEF BlockedCostsNoJob, InState
  <2>1. j \in Jobs /\ job[j].status \in Q!Active /\ ItemOf[j] = i
    BY DEF ActiveJob, Q!InStatus
  <2>2. Succeeding(j)
    BY <2>1 DEF RowInv, BlockedQuiet, Q!InStatus
  <2> QED
    BY <2>1, <2>2 DEF RowInv, IInv, OwnsRow, Succeeding
<1> QED
  BY <1>1, <1>2, <1>3, PTL DEF Spec
=============================================================================
