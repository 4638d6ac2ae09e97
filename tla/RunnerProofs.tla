---------------------------- MODULE RunnerProofs ----------------------------
(***************************************************************************)
(* What holds of the worker for every set of jobs, every number of slots   *)
(* and any amount of misfortune: its types, its agreement with the table   *)
(* of running jobs, its threads, and that it uses the jobs table only      *)
(* through the methods of JobQueue; and of the table itself, whoever its   *)
(* clients are.                                                            *)
(***************************************************************************)
EXTENDS Runner, FiniteSetTheorems, TLAPS

\* An execution that is not idle, and a claimed job, name a job.
Named ==
    /\ pending # Nothing => pending.job \in Jobs
    /\ \A e \in Execs : exec[e].phase # "idle" => exec[e].job \in Jobs

\* The entry of a job in _running is an execution of that job, and not one
\* that was given up as stuck.
Registered == {"running", "settling", "leftover"}

TableAgrees ==
    \A j \in Jobs : table[j] # NoExec =>
        exec[table[j]].job = j /\ exec[table[j]].phase \in Registered

ExecTypes == table \in [Jobs -> Execs \cup {NoExec}] /\ exec \in [Execs -> RunningJob]

Typed == Q!TypeOK /\ ProcessTypes /\ ExecTypes /\ Named /\ TableAgrees

-----------------------------------------------------------------------------
(* The jobs table on its own: what its methods guarantee for any clients,   *)
(* of which the worker is one.                                              *)

\* The rows of the table keep their types under every method.
LEMMA QueueStep ==
    ASSUME Q!TypeOK, [Q!Next]_job
    PROVE  Q!TypeOK'
<1> USE DEF Q!TypeOK, Q!Row, Q!Status, Q!Active, Q!Finished
<1>1. ASSUME NEW j \in Jobs, NEW b \in BOOLEAN, Q!Enqueue(j, b) PROVE Q!TypeOK'
  BY <1>1 DEF Q!Enqueue, Q!Unborn
<1>2. ASSUME NEW j \in Jobs, NEW b \in BOOLEAN, Q!Claim(j, b) PROVE Q!TypeOK'
  BY <1>2 DEF Q!Claim
<1>3. ASSUME NEW j \in Jobs, Q!Heartbeat(j) PROVE Q!TypeOK'
  BY <1>3 DEF Q!Heartbeat
<1>4. ASSUME NEW j \in Jobs, Q!Cancel(j) PROVE Q!TypeOK'
  BY ZenonT(40), <1>4 DEF Q!Cancel, Q!Cancelled
<1>5. ASSUME NEW j \in Jobs, Q!BecomeDue(j) \/ Q!GoStale(j) PROVE Q!TypeOK'
  BY ZenonT(40), <1>5 DEF Q!BecomeDue, Q!GoStale
<1>6. ASSUME NEW j \in Jobs, NEW s \in Q!Finished, Q!Finish(j, s) PROVE Q!TypeOK'
  BY <1>6 DEF Q!Finish
<1>7. ASSUME NEW j \in Jobs, NEW b \in BOOLEAN, NEW c \in BOOLEAN, Q!Requeue(j, b, c)
      PROVE Q!TypeOK'
  <2>1. job[j] \in Q!Row
    OBVIOUS
  <2>2. Q!Counted(job[j].attempt, c) \in Nat
    BY <2>1 DEF Q!Counted
  <2>3. Q!Released(job[j], b, c) \in Q!Row
    BY <2>1, <2>2 DEF Q!Released
  <2> QED
    BY <1>7, <2>3 DEF Q!Requeue
<1>8. ASSUME NEW f \in Q!Feeds, Q!CancelForFeed(f) PROVE Q!TypeOK'
  BY ZenonT(40), <1>8 DEF Q!CancelForFeed, Q!Cancelled
<1>9. ASSUME NEW f \in Q!Feeds, Q!DeleteFeed(f) PROVE Q!TypeOK'
  BY <1>9 DEF Q!DeleteFeed
<1>10. ASSUME NEW S \in SUBSET Jobs, Q!Maintenance(S) PROVE Q!TypeOK'
  BY <1>10 DEF Q!Maintenance
<1>11. CASE UNCHANGED job
  BY <1>11
<1> QED
  BY <1>1, <1>2, <1>3, <1>4, <1>5, <1>6, <1>7, <1>8, <1>9, <1>10, <1>11 DEF Q!Next

\* The jobs table is well typed.
THEOREM QueueTypes == Q!Spec => []Q!TypeOK
<1>1. Q!Init => Q!TypeOK
  BY DEF Q!Init, Q!TypeOK, Q!Row, Q!Unborn, Q!Status, Q!Active, Q!Finished
<1> QED
  BY <1>1, QueueStep, PTL DEF Q!Spec

-----------------------------------------------------------------------------
\* Only a claim makes a row running.
LEMMA OnlyClaimRuns ==
    ASSUME Q!TypeOK, [Q!Next]_job
    PROVE  \/ \E j \in Jobs, b \in BOOLEAN : Q!Claim(j, b)
           \/ \A k \in Jobs : job'[k].status = "running" => job[k].status = "running"
<1> USE DEF Q!TypeOK, Q!Row
<1>1. CASE \E j \in Jobs, b \in BOOLEAN : Q!Enqueue(j, b)
  BY <1>1 DEF Q!Enqueue, Q!Unborn
<1>2. CASE \E j \in Jobs : Q!Heartbeat(j) \/ Q!BecomeDue(j) \/ Q!GoStale(j)
  BY <1>2 DEF Q!Heartbeat, Q!BecomeDue, Q!GoStale
<1>3. CASE \E j \in Jobs : Q!Cancel(j)
  BY <1>3 DEF Q!Cancel, Q!Cancelled
<1>4. CASE \E j \in Jobs, s \in Q!Finished : Q!Finish(j, s)
  BY <1>4 DEF Q!Finish, Q!Finished
<1>5. CASE \E j \in Jobs, b \in BOOLEAN, c \in BOOLEAN : Q!Requeue(j, b, c)
  BY <1>5 DEF Q!Requeue, Q!Released
<1>6. CASE \E f \in Q!Feeds : Q!CancelForFeed(f)
  BY <1>6 DEF Q!CancelForFeed, Q!Cancelled
<1>7. CASE \E f \in Q!Feeds : Q!DeleteFeed(f)
  BY <1>7 DEF Q!DeleteFeed
<1>8. CASE \E S \in SUBSET Jobs : Q!Maintenance(S)
  BY <1>8 DEF Q!Maintenance
<1>9. CASE UNCHANGED job
  BY <1>9
<1> QED
  BY <1>1, <1>2, <1>3, <1>4, <1>5, <1>6, <1>7, <1>8, <1>9 DEF Q!Next

\* Only an enqueue makes a row active.
LEMMA OnlyEnqueueActivates ==
    ASSUME Q!TypeOK, [Q!Next]_job
    PROVE  \/ \E j \in Jobs, b \in BOOLEAN : Q!Enqueue(j, b)
           \/ \A k \in Jobs : job'[k].status \in Q!Active => job[k].status \in Q!Active
<1> USE DEF Q!TypeOK, Q!Row, Q!Active
<1>1. CASE \E j \in Jobs, b \in BOOLEAN : Q!Claim(j, b)
  BY <1>1 DEF Q!Claim, Q!Claimable
<1>2. CASE \E j \in Jobs : Q!Heartbeat(j) \/ Q!BecomeDue(j) \/ Q!GoStale(j)
  BY <1>2 DEF Q!Heartbeat, Q!BecomeDue, Q!GoStale
<1>3. CASE \E j \in Jobs : Q!Cancel(j)
  BY <1>3 DEF Q!Cancel, Q!Cancelled
<1>4. CASE \E j \in Jobs, s \in Q!Finished : Q!Finish(j, s)
  BY <1>4 DEF Q!Finish, Q!Finished
<1>5. CASE \E j \in Jobs, b \in BOOLEAN, c \in BOOLEAN : Q!Requeue(j, b, c)
  BY <1>5 DEF Q!Requeue, Q!Released
<1>6. CASE \E f \in Q!Feeds : Q!CancelForFeed(f)
  BY <1>6 DEF Q!CancelForFeed, Q!Cancelled
<1>7. CASE \E f \in Q!Feeds : Q!DeleteFeed(f)
  BY <1>7 DEF Q!DeleteFeed
<1>8. CASE \E S \in SUBSET Jobs : Q!Maintenance(S)
  BY <1>8 DEF Q!Maintenance, Q!Stale, Q!InStatus
<1>9. CASE UNCHANGED job
  BY <1>9
<1> QED
  BY <1>1, <1>2, <1>3, <1>4, <1>5, <1>6, <1>7, <1>8, <1>9 DEF Q!Next

-----------------------------------------------------------------------------
\* Of two running jobs of one feed, one is an on-demand archive: the claim
\* checks every running row, and nothing else starts a row.
THEOREM FeedExclusivity == Q!Spec => []Q!FeedExclusive
<1>1. Q!Init => Q!FeedExclusive
  BY DEF Q!Init, Q!FeedExclusive, Q!InStatus, Q!Unborn
<1>2. Q!TypeOK /\ Q!FeedExclusive /\ [Q!Next]_job => Q!FeedExclusive'
  <2> SUFFICES ASSUME Q!TypeOK, Q!FeedExclusive, [Q!Next]_job PROVE Q!FeedExclusive'
    OBVIOUS
  <2>1. ASSUME NEW c \in Jobs, NEW b \in BOOLEAN, Q!Claim(c, b) PROVE Q!FeedExclusive'
    <3>1. \A k \in Jobs : k # c => job'[k].status = job[k].status
      BY <2>1 DEF Q!Claim, Q!TypeOK
    <3>2. c \notin OnDemand =>
            \A k \in Q!InStatus({"running"}) : ~(FeedOf[k] = FeedOf[c] /\ FeedOf[c] # NoFeed)
      BY <2>1 DEF Q!Claim, Q!Claimable, Q!RunningSameFeed
    <3> QED
      BY <3>1, <3>2 DEF Q!FeedExclusive, Q!InStatus
  <2>2. CASE \A k \in Jobs : job'[k].status = "running" => job[k].status = "running"
    BY <2>2 DEF Q!FeedExclusive, Q!InStatus
  <2> QED
    BY <2>1, <2>2, OnlyClaimRuns
<1> QED
  BY <1>1, <1>2, QueueTypes, PTL DEF Q!Spec

\* No two running jobs are about the same item, although on-demand archives
\* are exempt from per-feed exclusivity.
THEOREM ItemExclusivity ==
    ASSUME Q!QueueAssumption PROVE Q!Spec => []Q!ItemExclusive
<1>1. Q!Init => Q!ItemExclusive
  BY DEF Q!Init, Q!ItemExclusive, Q!InStatus, Q!Unborn
<1>2. Q!TypeOK /\ Q!ItemExclusive /\ [Q!Next]_job => Q!ItemExclusive'
  <2> SUFFICES ASSUME Q!TypeOK, Q!ItemExclusive, [Q!Next]_job PROVE Q!ItemExclusive'
    OBVIOUS
  <2>1. ASSUME NEW c \in Jobs, NEW b \in BOOLEAN, Q!Claim(c, b) PROVE Q!ItemExclusive'
    <3>1. \A k \in Jobs : k # c => job'[k].status = job[k].status
      BY <2>1 DEF Q!Claim, Q!TypeOK
    <3>2. \A k \in Q!InStatus({"running"}) : ~(ItemOf[k] = ItemOf[c] /\ ItemOf[c] # NoItem)
      <4>1. CASE c \in OnDemand
        BY <2>1, <4>1 DEF Q!Claim, Q!Claimable, Q!RunningSameItem
      <4>2. CASE c \notin OnDemand
        BY <2>1, <4>2 DEF Q!QueueAssumption, Q!Claim, Q!Claimable, Q!RunningSameFeed, Q!InStatus
      <4> QED
        BY <4>1, <4>2
    <3> QED
      BY <3>1, <3>2 DEF Q!ItemExclusive, Q!InStatus
  <2>2. CASE \A k \in Jobs : job'[k].status = "running" => job[k].status = "running"
    BY <2>2 DEF Q!ItemExclusive, Q!InStatus
  <2> QED
    BY <2>1, <2>2, OnlyClaimRuns
<1> QED
  BY <1>1, <1>2, QueueTypes, PTL DEF Q!Spec

\* At most one active job per dedup key: a row that left the active statuses
\* never comes back, so the check at the insert is enough.
THEOREM DedupHolds == Q!Spec => []Q!OneActivePerKey
<1>1. Q!Init => Q!OneActivePerKey
  BY DEF Q!Init, Q!OneActivePerKey, Q!InStatus, Q!Unborn, Q!Active
<1>2. Q!TypeOK /\ Q!OneActivePerKey /\ [Q!Next]_job => Q!OneActivePerKey'
  <2> SUFFICES ASSUME Q!TypeOK, Q!OneActivePerKey, [Q!Next]_job PROVE Q!OneActivePerKey'
    OBVIOUS
  <2>1. ASSUME NEW n \in Jobs, NEW b \in BOOLEAN, Q!Enqueue(n, b) PROVE Q!OneActivePerKey'
    <3>1. \A k \in Jobs : k # n => job'[k].status = job[k].status
      BY <2>1 DEF Q!Enqueue, Q!TypeOK
    <3>2. \A k \in Q!InStatus(Q!Active) : KeyOf[k] # KeyOf[n]
      BY <2>1 DEF Q!Enqueue, Q!Duplicate
    <3> QED
      BY <3>1, <3>2 DEF Q!OneActivePerKey, Q!InStatus
  <2>2. CASE \A k \in Jobs : job'[k].status \in Q!Active => job[k].status \in Q!Active
    BY <2>2 DEF Q!OneActivePerKey, Q!InStatus
  <2> QED
    BY <2>1, <2>2, OnlyEnqueueActivates
<1> QED
  BY <1>1, <1>2, QueueTypes, PTL DEF Q!Spec

-----------------------------------------------------------------------------
\* A worker just started is well typed.
LEMMA InitTyped == Init => Typed
<1> SUFFICES ASSUME Init PROVE Typed
  OBVIOUS
<1>1. Q!TypeOK
  BY DEF Init, Q!Init, Q!TypeOK, Q!Row, Q!Unborn, Q!Status, Q!Active, Q!Finished
<1>2. ProcessTypes
  BY RunnerAssumption DEF Init, Fresh, ProcessTypes, Nothing, Hazards
<1>3. ExecTypes /\ Named /\ TableAgrees
  BY DEF Init, Fresh, ExecTypes, Named, TableAgrees, Registered, RunningJob, Idle, Phases, Outcomes
<1> QED
  BY <1>1, <1>2, <1>3 DEF Typed

\* Every step of the worker, its scheduler and its users is one method of the
\* jobs table or leaves it alone.
LEMMA StepRefines ==
    ASSUME Typed, [Next]_vars
    PROVE  [Q!Next]_job
<1> USE DEF Q!Next, memory, Typed, Named
<1>1. ASSUME NEW j \in Jobs, NEW b \in BOOLEAN, ClaimOne(j, b) PROVE Q!Next
  BY <1>1 DEF ClaimOne
<1>2. ASSUME NEW j \in Jobs, GoStale(j) \/ BecomeDue(j) PROVE Q!Next
  BY <1>2 DEF GoStale, BecomeDue
<1>3. CASE Defer
  BY <1>3 DEF Defer
<1>4. ASSUME NEW e \in Execs, Execution(e) PROVE [Q!Next]_job
  <2>1. CASE Start(e) \/ SoftTimeout(e) \/ MarkStuck(e)
    BY <2>1 DEF Start, SoftTimeout, MarkStuck
  <2>2. CASE MonitorPoll(e)
    BY <2>2 DEF MonitorPoll
  <2>3. CASE FailStuck(e)
    BY <2>3 DEF FailStuck, Q!Finished
  <2>4. CASE Settle(e)
    <3>1. exec[e].job \in Jobs
      BY <2>4 DEF Settle
    <3>2. CASE UNCHANGED job
      BY <3>2
    <3>3. CASE Settled(e)
      BY <3>1, <3>3 DEF Settled, Q!Finished
    <3> QED
      BY <2>4, <3>2, <3>3 DEF Settle
  <2>5. CASE DrainRequeue(e)
    BY <2>5 DEF DrainRequeue
  <2>6. CASE \E o \in Outcomes : HandlerReturn(e, o)
    BY <2>6 DEF HandlerReturn
  <2> QED
    BY <1>4, <2>1, <2>2, <2>3, <2>4, <2>5, <2>6 DEF Execution
<1>5. CASE Process /\ ~Defer
  BY <1>5 DEF Process, LoopFails, AbandonedThreadEnds, StorageFreed, RequestStop, StuckStop,
              BeginDrain, DrainTimeout, Exit, DrainFails, Crash, Restart, Vanish
<1>6. ASSUME NEW purged \in SUBSET Jobs, Tick(purged) PROVE Q!Next
  BY <1>6 DEF Tick
<1>7. CASE User
  BY <1>7 DEF User
<1>8. CASE UNCHANGED vars
  BY <1>8 DEF vars
<1> QED
  BY <1>1, <1>2, <1>3, <1>4, <1>5, <1>6, <1>7, <1>8 DEF Next, Process

-----------------------------------------------------------------------------
\* The process's own memory keeps its types.
LEMMA StepProcessTypes ==
    ASSUME Typed, [Next]_vars
    PROVE  ProcessTypes'
<1> USE DEF ProcessTypes, memory
<1>0. ProcessTypes /\ Q!TypeOK
  BY DEF Typed
<1>0a. Nothing \in [job : Jobs \cup {NoJob}, reserved : BOOLEAN, attempt : Nat]
  BY DEF Nothing
<1>1. ASSUME NEW h \in Hazards, Spend(h) \/ UNCHANGED left PROVE left' \in [Hazards -> Nat]
  BY <1>0, <1>1 DEF Spend
<1>2. ASSUME NEW j \in Jobs, NEW b \in BOOLEAN, ClaimOne(j, b) PROVE ProcessTypes'
  <2>1. job[j].attempt + 1 \in Nat
    BY <1>0 DEF Q!TypeOK, Q!Row
  <2> QED
    BY <1>0, <1>2, <2>1 DEF ClaimOne
<1>3. ASSUME NEW j \in Jobs, GoStale(j) \/ BecomeDue(j) PROVE ProcessTypes'
  BY <1>0, <1>1, <1>3 DEF GoStale, BecomeDue, Hazards
<1>4. ASSUME NEW e \in Execs, Start(e) \/ SoftTimeout(e) \/ MonitorPoll(e) \/ DrainRequeue(e)
      PROVE  ProcessTypes'
  BY <1>0, <1>0a, <1>4 DEF Start, SoftTimeout, MonitorPoll, DrainRequeue
<1>5. ASSUME NEW e \in Execs, MarkStuck(e) PROVE ProcessTypes'
  <2>1. exec[e].job \in Jobs
    BY <1>5 DEF MarkStuck, Typed, Named
  <2> QED
    BY <1>0, <1>5, <2>1 DEF MarkStuck, SlotOf, SlotKinds, Q!Feeds
<1>6. ASSUME NEW e \in Execs, FailStuck(e) PROVE ProcessTypes'
  BY <1>0, <1>1, <1>6 DEF FailStuck, Hazards
<1>7. ASSUME NEW e \in Execs, Settle(e) PROVE ProcessTypes'
  <2>1. full' \in BOOLEAN
    BY <1>0, <1>7 DEF Settle
  <2>2. left' \in [Hazards -> Nat]
    BY <1>1, <1>7 DEF Settle, Hazards
  <2> QED
    BY <1>0, <1>7, <2>1, <2>2 DEF Settle
<1>8. ASSUME NEW e \in Execs, NEW o \in Outcomes, HandlerReturn(e, o) PROVE ProcessTypes'
  BY <1>0, <1>1, <1>8 DEF HandlerReturn, Hazards
<1>9. CASE Defer \/ StorageFreed
  BY <1>0, <1>0a, <1>9 DEF Defer, StorageFreed
<1>10. CASE LoopFails \/ RequestStop
  <2>1. left' \in [Hazards -> Nat]
    BY <1>1, <1>10 DEF LoopFails, RequestStop, Hazards
  <2> QED
    BY <1>0, <1>0a, <1>10, <2>1 DEF LoopFails, RequestStop
<1>11. CASE \E s \in SlotKinds : AbandonedThreadEnds(s)
  <2>1. abandoned' \in [SlotKinds -> Nat]
    BY <1>0, <1>11 DEF AbandonedThreadEnds
  <2> QED
    BY <1>0, <1>11, <2>1 DEF AbandonedThreadEnds
<1>12. CASE StuckStop \/ BeginDrain \/ DrainTimeout
  BY <1>0, <1>12 DEF StuckStop, BeginDrain, DrainTimeout
<1>13. CASE Exit \/ DrainFails \/ Crash
  <2>1. left' \in [Hazards -> Nat]
    BY <1>1, <1>13 DEF Exit, DrainFails, Crash, Hazards
  <2>2. Vanish
    BY <1>13 DEF Exit, DrainFails, Crash
  <2> QED
    BY <1>0, <1>0a, <2>1, <2>2 DEF Vanish
<1>14. CASE Restart
  BY <1>0, <1>14 DEF Restart
<1>15. CASE User \/ \E purged \in SUBSET Jobs : Tick(purged)
  <2>1. left' \in [Hazards -> Nat]
    BY <1>1, <1>15 DEF User, Tick, Hazards
  <2> QED
    BY <1>0, <1>15, <2>1 DEF User, Tick
<1>16. CASE UNCHANGED vars
  BY <1>0, <1>16 DEF vars
<1> QED
  BY <1>2, <1>3, <1>4, <1>5, <1>6, <1>7, <1>8, <1>9, <1>10, <1>11, <1>12, <1>13, <1>14,
     <1>15, <1>16
  DEF Next, Process, Execution

-----------------------------------------------------------------------------
\* The executions keep their types and agree with _running.
ExecsOK == ExecTypes /\ Named /\ TableAgrees

\* An execution moves on under its job, registered as before.
LEMMA KeepExec ==
    ASSUME ExecsOK, NEW e \in Execs, NEW x \in RunningJob,
           x.job = exec[e].job, exec[e].phase # "idle", x.phase \in Registered,
           exec' = [exec EXCEPT ![e] = x], table' = table, pending' = pending
    PROVE  ExecsOK'
BY DEF ExecsOK, ExecTypes, Named, TableAgrees, Registered

\* An execution leaves _running, whatever becomes of it.
LEMMA PopExec ==
    ASSUME ExecsOK, NEW e \in Execs, NEW x \in RunningJob,
           exec[e].phase # "idle", x.phase # "idle" => x.job = exec[e].job,
           exec' = [exec EXCEPT ![e] = x], pending' = pending,
           table' = [table EXCEPT ![exec[e].job] = NoExec]
    PROVE  ExecsOK'
<1>1. exec[e].job \in Jobs
  BY DEF ExecsOK, Named
<1>2. \A j \in Jobs : table'[j] # NoExec => j # exec[e].job /\ table'[j] = table[j]
  BY <1>1 DEF ExecsOK, ExecTypes
<1>3. \A j \in Jobs : table'[j] # NoExec => table[j] \in Execs /\ table[j] # e
  BY <1>2 DEF ExecsOK, ExecTypes, TableAgrees
<1> QED
  BY <1>1, <1>2, <1>3 DEF ExecsOK, ExecTypes, Named, TableAgrees

\* An idle execution is well typed.
LEMMA IdleTyped == Idle \in RunningJob
  BY DEF Idle, RunningJob, Phases, Outcomes

\* Every step keeps the executions and _running in agreement.
LEMMA StepExecs ==
    ASSUME Typed, [Next]_vars
    PROVE  ExecsOK'
<1>0. ExecsOK /\ ProcessTypes
  BY DEF Typed, ExecsOK
<1>1. \A e \in Execs : exec[e] \in RunningJob
  BY <1>0 DEF ExecsOK, ExecTypes
<1>2. CASE UNCHANGED <<table, exec>> /\ pending' \in {pending, Nothing}
  BY <1>0, <1>2 DEF ExecsOK, ExecTypes, Named, TableAgrees
<1>3. ASSUME NEW j \in Jobs, NEW b \in BOOLEAN, ClaimOne(j, b) PROVE ExecsOK'
  BY <1>0, <1>3 DEF ClaimOne, ExecsOK, ExecTypes, Named, TableAgrees
<1>4. ASSUME NEW e \in Execs, Start(e) PROVE ExecsOK'
  <2> DEFINE x == [Idle EXCEPT !.job = pending.job, !.phase = "running",
                               !.reserved = pending.reserved, !.attempt = pending.attempt]
  <2>1. pending.job \in Jobs
    BY <1>0, <1>4 DEF Start, ExecsOK, Named
  <2>2. x \in RunningJob /\ x.job = pending.job /\ x.phase = "running"
    BY <1>0, <2>1 DEF Idle, RunningJob, Phases, Outcomes, ProcessTypes
  <2>3. exec' = [exec EXCEPT ![e] = x] /\ table' = [table EXCEPT ![pending.job] = e]
        /\ exec[e].phase = "idle" /\ pending' = Nothing
    BY <1>4 DEF Start
  <2>4. \A k \in Jobs : k # pending.job /\ table[k] # NoExec =>
                        table'[k] = table[k] /\ table[k] \in Execs /\ table[k] # e
    BY <1>0, <2>1, <2>3 DEF ExecsOK, ExecTypes, TableAgrees, Registered
  <2> HIDE DEF x
  <2> QED
    BY <1>0, <2>1, <2>2, <2>3, <2>4 DEF ExecsOK, ExecTypes, Named, TableAgrees, Registered
<1>5. ASSUME NEW e \in Execs, NEW o \in Outcomes, HandlerReturn(e, o) PROVE ExecsOK'
  <2> DEFINE x == [exec[e] EXCEPT !.phase = "settling", !.outcome = o]
  <2>1. x \in RunningJob /\ x.job = exec[e].job /\ x.phase = "settling"
    BY <1>1 DEF RunningJob, Phases
  <2>2. exec' = [exec EXCEPT ![e] = x] /\ UNCHANGED <<table, pending>>
        /\ exec[e].phase = "running"
    BY <1>5 DEF HandlerReturn
  <2> QED
    BY <1>0, <2>1, <2>2, KeepExec DEF Registered
<1>6. ASSUME NEW e \in Execs, MonitorPoll(e) PROVE ExecsOK'
  <2>1. PICK t, u \in BOOLEAN : exec' = [exec EXCEPT ![e] = [@ EXCEPT !.token = t, !.user = u]]
    <3>1. exec[e].token \in BOOLEAN /\ exec[e].user \in BOOLEAN
      BY <1>1 DEF RunningJob
    <3> QED
      BY <1>6, <3>1, Zenon DEF MonitorPoll
  <2> DEFINE x == [exec[e] EXCEPT !.token = t, !.user = u]
  <2>2. x \in RunningJob /\ x.job = exec[e].job /\ x.phase = exec[e].phase
    BY <1>1 DEF RunningJob
  <2>3. exec' = [exec EXCEPT ![e] = x] /\ UNCHANGED <<table, pending>>
        /\ exec[e].phase = "running"
    BY <1>6, <2>1 DEF MonitorPoll
  <2> QED
    BY <1>0, <2>2, <2>3, KeepExec DEF Registered
<1>7. ASSUME NEW e \in Execs, SoftTimeout(e) PROVE ExecsOK'
  <2> DEFINE x == [exec[e] EXCEPT !.timedOut = TRUE, !.token = TRUE]
  <2>1. x \in RunningJob /\ x.job = exec[e].job /\ x.phase = exec[e].phase
    BY <1>1 DEF RunningJob
  <2>2. exec' = [exec EXCEPT ![e] = x] /\ UNCHANGED <<table, pending>>
        /\ exec[e].phase = "running"
    BY <1>7 DEF SoftTimeout
  <2> QED
    BY <1>0, <2>1, <2>2, KeepExec DEF Registered
<1>8. ASSUME NEW e \in Execs, MarkStuck(e) PROVE ExecsOK'
  <2> DEFINE x == [exec[e] EXCEPT !.phase = "failing"]
  <2>1. x \in RunningJob /\ x.job = exec[e].job
    BY <1>1 DEF RunningJob, Phases
  <2>2. exec' = [exec EXCEPT ![e] = x] /\ pending' = pending /\ exec[e].phase = "running"
        /\ table' = [table EXCEPT ![exec[e].job] = NoExec]
    BY <1>8 DEF MarkStuck, Pop
  <2> QED
    BY <1>0, <2>1, <2>2, PopExec
<1>9. ASSUME NEW e \in Execs, Settle(e) \/ DrainRequeue(e) PROVE ExecsOK'
  <2>1. exec' = [exec EXCEPT ![e] = Idle] /\ pending' = pending /\ exec[e].phase # "idle"
        /\ table' = [table EXCEPT ![exec[e].job] = NoExec]
    BY <1>9 DEF Settle, DrainRequeue, Pop, Done
  <2>2. Idle.phase = "idle"
    BY DEF Idle
  <2> QED
    BY <1>0, <2>1, <2>2, PopExec, IdleTyped
<1>10. ASSUME NEW e \in Execs, FailStuck(e) PROVE ExecsOK'
  <2>1. exec' = [exec EXCEPT ![e] = Idle] /\ exec[e].phase = "failing"
        /\ UNCHANGED <<pending, table>>
    BY <1>10 DEF FailStuck, Done
  <2>2. \A j \in Jobs : table[j] # NoExec => table[j] \in Execs /\ table[j] # e
    BY <1>0, <2>1 DEF ExecsOK, ExecTypes, TableAgrees, Registered
  <2>3. Idle.phase = "idle"
    BY DEF Idle
  <2> QED
    BY <1>0, <2>1, <2>2, <2>3, IdleTyped DEF ExecsOK, ExecTypes, Named, TableAgrees
<1>11. CASE exec' = CancelTokens /\ table' = table /\ pending' \in {pending, Nothing}
  <2>1. \A e \in Execs : [exec[e] EXCEPT !.token = TRUE] \in RunningJob
                         /\ [exec[e] EXCEPT !.token = TRUE].job = exec[e].job
                         /\ [exec[e] EXCEPT !.token = TRUE].phase = exec[e].phase
    BY <1>1 DEF RunningJob
  <2>2. exec' \in [Execs -> RunningJob]
        /\ \A e \in Execs : exec'[e].job = exec[e].job /\ exec'[e].phase = exec[e].phase
    BY <1>1, <1>11, <2>1 DEF CancelTokens
  <2> QED
    BY <1>0, <1>11, <2>2 DEF ExecsOK, ExecTypes, Named, TableAgrees
<1>12. CASE DrainTimeout
  <2>1. \A e \in Execs : [exec[e] EXCEPT !.phase = "leftover"] \in RunningJob
                         /\ [exec[e] EXCEPT !.phase = "leftover"].job = exec[e].job
                         /\ [exec[e] EXCEPT !.phase = "leftover"].phase = "leftover"
    BY <1>1 DEF RunningJob, Phases
  <2>2. exec' \in [Execs -> RunningJob]
        /\ \A e \in Execs : exec'[e].job = exec[e].job
             /\ (exec'[e].phase = exec[e].phase
                   \/ (e \in InTable /\ exec'[e].phase = "leftover"))
    BY <1>1, <1>12, <2>1 DEF DrainTimeout
  <2>3. \A e \in InTable : exec[e].job \in Jobs
    BY <1>0, RunnerAssumption DEF InTable, ExecsOK, TableAgrees
  <2> QED
    BY <1>0, <1>12, <2>2, <2>3
    DEF DrainTimeout, ExecsOK, ExecTypes, Named, TableAgrees, Registered
<1>13. CASE Vanish
  BY <1>13, IdleTyped DEF Vanish, Idle, ExecsOK, ExecTypes, Named, TableAgrees
<1> USE DEF memory
<1>14. ASSUME NEW j \in Jobs, GoStale(j) \/ BecomeDue(j) PROVE ExecsOK'
  BY <1>2, <1>14 DEF GoStale, BecomeDue
<1>15. ASSUME NEW purged \in SUBSET Jobs, Tick(purged) PROVE ExecsOK'
  BY <1>2, <1>15 DEF Tick
<1>16. CASE Process
  BY <1>2, <1>11, <1>12, <1>13, <1>16
  DEF Process, Defer, LoopFails, AbandonedThreadEnds, StorageFreed, RequestStop, StuckStop,
      BeginDrain, Exit, DrainFails, Crash, Restart
<1>17. CASE User \/ UNCHANGED vars
  BY <1>2, <1>17 DEF User, vars
<1> QED
  BY <1>3, <1>4, <1>5, <1>6, <1>7, <1>8, <1>9, <1>10, <1>14, <1>15, <1>16, <1>17
  DEF Next, Execution

\* Every step keeps the strengthened type invariant.
LEMMA StepTyped == Typed /\ [Next]_vars => Typed'
<1> SUFFICES ASSUME Typed, [Next]_vars PROVE Typed'
  OBVIOUS
<1>1. Q!TypeOK'
  BY StepRefines, QueueStep DEF Typed
<1> QED
  BY <1>1, StepProcessTypes, StepExecs DEF Typed, ExecsOK

\* The strengthened type invariant always holds.
LEMMA TypedAlways == Spec => []Typed
BY InitTyped, StepTyped, PTL DEF Spec

-----------------------------------------------------------------------------
\* The worker's memory and the table keep their types, whatever is settled,
\* abandoned, drained or lost: no count of stuck threads or attempts is negative.
THEOREM WorkerTypes == Spec => []TypeOK
BY TypedAlways, PTL DEF Typed, ExecTypes, TypeOK

\* Whatever the worker does, the jobs table behaves as JobQueue: the detailed
\* specification implements the abstract one.
THEOREM Refinement == Spec => QueueSpec
<1>1. Init => Q!Init
  BY DEF Init
<1> QED
  BY <1>1, TypedAlways, StepRefines, PTL DEF Spec, QueueSpec, Q!Spec

\* Per-feed exclusivity is the table's, and therefore the worker's as well.
THEOREM WorkerFeedExclusive == Spec => []FeedExclusive
<1>1. Q!FeedExclusive <=> FeedExclusive
  BY DEF FeedExclusive, Q!FeedExclusive, Q!InStatus
<1> QED
  BY <1>1, Refinement, FeedExclusivity, PTL DEF QueueSpec

-----------------------------------------------------------------------------
\* Who owns a row.  As long as no heartbeat stalls, what _running and the claim
\* loop hold is what the table says runs; a stall lets the stale sweep hand the
\* row of a live execution to a second one.
NeverStalls == \A s \in Scenarios : s["stall"] = 0

Live(e) == exec[e].phase # "idle"

\* The job went with its feed, which lets no job of it be inserted again.
Deleted(j) ==
    FeedOf[j] # NoFeed /\ \A k \in Jobs : FeedOf[k] = FeedOf[j] => job[k].status = "gone"

\* The row of a held job is as the claim left it, with a heartbeat, or deleted.
RowHeld(j, n) ==
    \/ job[j].status = "running" /\ job[j].fresh /\ job[j].attempt = n /\ n > 0
    \/ Deleted(j)

RowsHeld ==
    /\ pending # Nothing => RowHeld(pending.job, pending.attempt)
    /\ \A e \in Execs : Live(e) => RowHeld(exec[e].job, exec[e].attempt)

\* A job is held once: claimed, or by one execution.
OneHolder ==
    /\ \A e \in Execs : exec[e].phase = "idle" => exec[e].job = NoJob
    /\ \A e \in Execs : Live(e) => pending.job # exec[e].job
    /\ \A e, f \in Execs : Live(e) /\ exec[f].job = exec[e].job => f = e

OncePerFeed ==
    \A j, k \in Jobs :
        Held(j) /\ Held(k) /\ j # k /\ FeedOf[j] = FeedOf[k] /\ FeedOf[j] # NoFeed
            => j \in OnDemand \/ k \in OnDemand

\* drain() sees every execution but the stuck ones, and no claim.
InTheTable ==
    /\ \A e \in Execs : exec[e].phase \in Registered => table[exec[e].job] = e
    /\ proc # "up" => pending = Nothing

\* A token is set, and a job cancelled, for one of the reasons the code knows.
Asked(e) == job[exec[e].job].cancel \/ Deleted(exec[e].job)

Caused(e) ==
    /\ exec[e].user => Asked(e)
    /\ exec[e].token => Asked(e) \/ exec[e].timedOut \/ stop \/ proc = "draining"
    /\ exec[e].phase = "settling" /\ exec[e].outcome = "cancelled"
          => exec[e].token \/ exec[e].job \in Archive

Causes == \A e \in Execs : Live(e) => Caused(e)

Calm == left["stall"] = 0

Own == Calm /\ RowsHeld /\ OneHolder /\ OncePerFeed /\ InTheTable /\ Causes

-----------------------------------------------------------------------------
\* A misfortune is the only thing a step takes from the scenario.
LEMMA StepLeft ==
    ASSUME Next
    PROVE  UNCHANGED left \/ \E h \in Hazards : Spend(h)
<1>1. CASE \E j \in Jobs, b \in BOOLEAN : ClaimOne(j, b)
  BY <1>1 DEF ClaimOne
<1>2. CASE \E j \in Jobs : GoStale(j) \/ BecomeDue(j)
  BY <1>2 DEF GoStale, BecomeDue, Hazards
<1>3. CASE \E e \in Execs : Execution(e)
  BY <1>3 DEF Execution, Start, MonitorPoll, SoftTimeout, MarkStuck, FailStuck, Settle,
              DrainRequeue, HandlerReturn, Hazards
<1>4. CASE Process
  BY <1>4 DEF Process, Defer, LoopFails, AbandonedThreadEnds, StorageFreed, RequestStop, StuckStop,
              BeginDrain, DrainTimeout, Exit, DrainFails, Crash, Restart, Hazards
<1>5. CASE User \/ \E purged \in SUBSET Jobs : Tick(purged)
  BY <1>5 DEF User, Tick, Hazards
<1> QED
  BY <1>1, <1>2, <1>3, <1>4, <1>5 DEF Next

\* No stall is left, and none comes.
LEMMA StepCalm ==
    ASSUME Typed, Calm, [Next]_vars
    PROVE  Calm'
<1>1. left \in [Hazards -> Nat] /\ left["stall"] = 0
  BY DEF Typed, ProcessTypes, Calm
<1>2. ASSUME NEW h \in Hazards, Spend(h) PROVE left'["stall"] = 0
  BY <1>1, <1>2 DEF Spend, Hazards
<1> QED
  BY <1>1, <1>2, StepLeft DEF Calm, vars

\* A deleted row stays deleted.
LEMMA GoneStays ==
    ASSUME Q!TypeOK, [Q!Next]_job, NEW k \in Jobs, job[k].status = "gone"
    PROVE  job'[k].status = "gone"
<1> USE DEF Q!TypeOK, Q!Row
<1>1. CASE \E j \in Jobs, b \in BOOLEAN : Q!Enqueue(j, b) \/ Q!Claim(j, b)
  BY <1>1 DEF Q!Enqueue, Q!Unborn, Q!Claim, Q!Claimable
<1>2. CASE \E j \in Jobs : Q!Heartbeat(j) \/ Q!BecomeDue(j) \/ Q!GoStale(j)
  BY <1>2 DEF Q!Heartbeat, Q!BecomeDue, Q!GoStale
<1>3. CASE \E j \in Jobs : Q!Cancel(j)
  BY <1>3 DEF Q!Cancel, Q!Cancelled
<1>4. CASE \E j \in Jobs, s \in Q!Finished : Q!Finish(j, s)
  BY <1>4 DEF Q!Finish, Q!Exists
<1>5. CASE \E j \in Jobs, b \in BOOLEAN, c \in BOOLEAN : Q!Requeue(j, b, c)
  BY <1>5 DEF Q!Requeue, Q!Exists
<1>6. CASE \E f \in Q!Feeds : Q!CancelForFeed(f)
  BY <1>6 DEF Q!CancelForFeed, Q!Cancelled
<1>7. CASE \E f \in Q!Feeds : Q!DeleteFeed(f)
  BY <1>7 DEF Q!DeleteFeed
<1>8. CASE \E S \in SUBSET Jobs : Q!Maintenance(S)
  BY <1>8 DEF Q!Maintenance, Q!Stale, Q!InStatus
<1> QED
  BY <1>1, <1>2, <1>3, <1>4, <1>5, <1>6, <1>7, <1>8 DEF Q!Next

\* A deleted row never comes back: no method of the table inserts one under an old id.
LEMMA DeletedStays ==
    ASSUME Typed, [Next]_vars, NEW j, Deleted(j)
    PROVE  Deleted(j)'
<1>1. [Q!Next]_job /\ Q!TypeOK
  BY StepRefines DEF Typed
<1> QED
  BY <1>1, GoneStays DEF Deleted

-----------------------------------------------------------------------------
\* What becomes of the memory: only a claim takes a job, only Start hands it on.
Same(e) ==
    /\ exec'[e].job = exec[e].job /\ exec'[e].attempt = exec[e].attempt
    /\ exec'[e].phase = "idle" <=> exec[e].phase = "idle"

Claims == \E j \in Jobs, b \in BOOLEAN : ClaimOne(j, b)
Starts == \E e \in Execs : Start(e)

MemoryKept == pending' \in {pending, Nothing} /\ \A e \in Execs : Same(e) \/ exec'[e] = Idle

\* Only a claim or a start brings a job into the memory of the worker.
LEMMA StepMemory ==
    ASSUME Typed, [Next]_vars, ~Claims, ~Starts
    PROVE  MemoryKept
<1>0. exec \in [Execs -> RunningJob] /\ TableAgrees
  BY DEF Typed, ExecTypes
<1>1. \A e \in InTable : exec[e].phase \in Registered
  BY <1>0, RunnerAssumption DEF InTable, TableAgrees
<1>2. CASE exec' = exec /\ pending' \in {pending, Nothing}
  BY <1>2 DEF MemoryKept, Same
<1>3. CASE exec' = CancelTokens /\ pending' \in {pending, Nothing}
  BY <1>0, <1>3 DEF CancelTokens, RunningJob, MemoryKept, Same
<1>4. ASSUME NEW e \in Execs, exec' = [exec EXCEPT ![e] = Idle], pending' = pending
      PROVE  MemoryKept
  BY <1>0, <1>4 DEF MemoryKept, Same
<1>5. ASSUME NEW e \in Execs, NEW o \in Outcomes, HandlerReturn(e, o) PROVE MemoryKept
  BY <1>0, <1>5 DEF HandlerReturn, RunningJob, MemoryKept, Same
<1>6. ASSUME NEW e \in Execs, MonitorPoll(e) PROVE MemoryKept
  BY <1>0, <1>6 DEF MonitorPoll, RunningJob, MemoryKept, Same
<1>7. ASSUME NEW e \in Execs, SoftTimeout(e) PROVE MemoryKept
  BY <1>0, <1>7 DEF SoftTimeout, RunningJob, MemoryKept, Same
<1>8. ASSUME NEW e \in Execs, MarkStuck(e) PROVE MemoryKept
  BY <1>0, <1>8 DEF MarkStuck, RunningJob, MemoryKept, Same
<1>9. ASSUME NEW e \in Execs, FailStuck(e) \/ Settle(e) \/ DrainRequeue(e) PROVE MemoryKept
  BY <1>4, <1>9 DEF FailStuck, Settle, DrainRequeue, Done
<1>10. CASE DrainTimeout
  BY <1>0, <1>1, <1>10 DEF DrainTimeout, RunningJob, MemoryKept, Same, Registered
<1>11. CASE Vanish
  BY <1>11 DEF Vanish, MemoryKept
<1>12. CASE Process
  BY <1>2, <1>3, <1>10, <1>11, <1>12
  DEF Process, Defer, LoopFails, AbandonedThreadEnds, StorageFreed, RequestStop, StuckStop,
      BeginDrain, Exit, DrainFails, Crash, Restart, memory
<1>13. CASE User \/ (\E purged \in SUBSET Jobs : Tick(purged))
            \/ (\E j \in Jobs : GoStale(j) \/ BecomeDue(j)) \/ UNCHANGED vars
  BY <1>2, <1>13 DEF User, Tick, GoStale, BecomeDue, vars, memory
<1> QED
  BY <1>5, <1>6, <1>7, <1>8, <1>9, <1>12, <1>13 DEF Next, Execution, Claims, Starts

-----------------------------------------------------------------------------
\* What becomes of the row of a job that stays held: a heartbeat, a cancel flag,
\* the deletion of its feed, and nothing else.
RowKept(j) ==
    \/ Deleted(j)'
    \/ /\ job'[j].status = job[j].status /\ job'[j].attempt = job[j].attempt
       /\ job[j].fresh => job'[j].fresh
       /\ job[j].cancel => job'[j].cancel

\* The row of a job in the memory is running, with the attempt of its claim, or deleted.
LEMMA HeldRunning ==
    ASSUME Typed, Own, NEW j \in Jobs, Held(j)
    PROVE  (job[j].status = "running" /\ job[j].fresh /\ job[j].attempt > 0) \/ Deleted(j)
<1>1. \A e \in Execs : exec[e].job = j => Live(e)
  BY RunnerAssumption DEF Own, OneHolder, Live
<1>2. pending.job = j => pending # Nothing
  BY RunnerAssumption DEF Nothing
<1> QED
  BY <1>1, <1>2 DEF Held, Own, RowsHeld, RowHeld

\* Once its execution is over, nothing holds the job.
LEMMA Dropped ==
    ASSUME Typed, Own, NEW e \in Execs, Live(e), NEW j \in Jobs, j = exec[e].job,
           exec' = [exec EXCEPT ![e] = Idle], pending' = pending
    PROVE  ~Held(j)'
<1>1. exec \in [Execs -> RunningJob]
  BY DEF Typed, ExecTypes
<1>2. \A f \in Execs : exec'[f].job # j
  BY <1>1, RunnerAssumption DEF Own, OneHolder, Idle
<1> QED
  BY <1>2 DEF Held, Own, OneHolder

\* While a job stays in the memory its row is left alone, but for a request to cancel it.
LEMMA StepRows ==
    ASSUME Typed, Own, [Next]_vars, ~Claims, NEW j \in Jobs, Held(j), Held(j)'
    PROVE  RowKept(j)
<1>0. Q!TypeOK
  BY DEF Typed
<1>1. CASE Deleted(j)
  BY <1>1, DeletedStays DEF RowKept
<1> SUFFICES ASSUME job[j].status = "running", job[j].fresh PROVE RowKept(j)
  BY <1>1, HeldRunning
<1>2. CASE job'[j] = job[j]
  BY <1>2 DEF RowKept
<1> USE DEF RowKept, Q!TypeOK, Q!Row
<1>3. ASSUME NEW e \in Execs, MonitorPoll(e) PROVE RowKept(j)
  BY <1>0, <1>3 DEF MonitorPoll, Q!Heartbeat
<1>4. ASSUME NEW e \in Execs, FailStuck(e) \/ Settle(e) \/ DrainRequeue(e) PROVE RowKept(j)
  <2>1. Live(e) /\ exec' = [exec EXCEPT ![e] = Idle] /\ pending' = pending
    BY <1>4 DEF FailStuck, Settle, DrainRequeue, Done, Live
  <2>2. j # exec[e].job
    BY <2>1, Dropped
  <2>3. job'[j] = job[j]
    BY <1>0, <1>4, <2>2
    DEF FailStuck, Settle, Settled, DrainRequeue, Q!Finish, Q!Requeue
  <2> QED
    BY <2>3
<1>5. CASE Defer
  <2>1. j # pending.job
    BY <1>5, RunnerAssumption DEF Defer, Held, Own, OneHolder, Nothing, Live
  <2> QED
    BY <1>0, <1>5, <2>1 DEF Defer, Q!Requeue
<1>6. ASSUME NEW purged \in SUBSET Jobs, Tick(purged) PROVE RowKept(j)
  BY <1>0, <1>6 DEF Tick, Q!Maintenance, Q!Stale, Q!InStatus
<1>7. CASE User
  <2>1. ASSUME NEW k \in Jobs, Q!Enqueue(k, TRUE) \/ Q!Cancel(k) PROVE RowKept(j)
    BY <1>0, <2>1 DEF Q!Enqueue, Q!Cancel, Q!Cancelled
  <2>2. ASSUME NEW f \in Q!Feeds, Q!CancelForFeed(f) PROVE RowKept(j)
    BY <1>0, <2>2 DEF Q!CancelForFeed, Q!Cancelled
  <2>3. ASSUME NEW f \in Q!Feeds, Q!DeleteFeed(f) PROVE RowKept(j)
    BY <1>0, <2>3 DEF Q!DeleteFeed, Deleted
  <2> QED
    BY <1>7, <2>1, <2>2, <2>3 DEF User
<1>8. ASSUME NEW k \in Jobs, BecomeDue(k) PROVE RowKept(j)
  BY <1>0, <1>8 DEF BecomeDue, Q!BecomeDue
<1>9. ASSUME NEW k \in Jobs, GoStale(k) PROVE RowKept(j)
  <2>1. k # j
    BY <1>9 DEF GoStale, Spend, Own, Calm
  <2> QED
    BY <1>0, <1>9, <2>1 DEF GoStale, Q!GoStale
<1>10. CASE Process /\ ~Defer
  BY <1>2, <1>10 DEF Process, LoopFails, AbandonedThreadEnds, StorageFreed, RequestStop, StuckStop,
      BeginDrain, DrainTimeout, Exit, DrainFails, Crash, Restart, Vanish
<1>11. ASSUME NEW e \in Execs,
              Start(e) \/ SoftTimeout(e) \/ MarkStuck(e) \/ \E o \in Outcomes : HandlerReturn(e, o)
       PROVE  RowKept(j)
  BY <1>2, <1>11 DEF Start, SoftTimeout, MarkStuck, HandlerReturn
<1>12. CASE UNCHANGED vars
  BY <1>2, <1>12 DEF vars
<1> QED
  BY <1>3, <1>4, <1>5, <1>6, <1>7, <1>8, <1>9, <1>10, <1>11, <1>12 DEF Next, Execution, Process, Claims

-----------------------------------------------------------------------------
\* A row that is kept is still held as it was.
LEMMA RowHeldKept ==
    ASSUME Typed, [Next]_vars, NEW j \in Jobs, NEW n, RowHeld(j, n), RowKept(j)
    PROVE  RowHeld(j, n)'
BY DeletedStays DEF RowHeld, RowKept

\* A job that can be claimed is not held.
LEMMA ClaimedIsFree ==
    ASSUME Typed, Own, NEW j \in Jobs, NEW b \in BOOLEAN, ClaimOne(j, b)
    PROVE  /\ ~Held(j)
           /\ \A k \in Jobs : k # j => job'[k] = job[k]
           /\ job'[j].status = "running" /\ job'[j].fresh
           /\ job'[j].attempt = job[j].attempt + 1 /\ job[j].attempt \in Nat
           /\ pending' = [job |-> j, reserved |-> b, attempt |-> job[j].attempt + 1]
           /\ exec' = exec /\ table' = table /\ proc' = proc /\ stop' = stop /\ proc = "up"
<1>1. Q!TypeOK /\ job[j].status = "queued"
  BY DEF ClaimOne, Q!Claim, Q!Claimable, Typed
<1>2. ~Deleted(j)
  BY <1>1 DEF Deleted
<1>3. ~Held(j)
  BY <1>1, <1>2, HeldRunning
<1> QED
  BY <1>1, <1>3 DEF ClaimOne, Q!Claim, Q!TypeOK, Q!Row

\* Start hands the claimed job to an idle execution.
LEMMA Started ==
    ASSUME Typed, Own, NEW e \in Execs, Start(e)
    PROVE  /\ pending.job \in Jobs /\ pending # Nothing /\ pending' = Nothing
           /\ exec[e].phase = "idle" /\ proc = "up"
           /\ exec'[e] = [Idle EXCEPT !.job = pending.job, !.phase = "running",
                                      !.reserved = pending.reserved, !.attempt = pending.attempt]
           /\ \A f \in Execs : f # e => exec'[f] = exec[f]
           /\ table' = [table EXCEPT ![pending.job] = e]
           /\ job' = job /\ proc' = proc /\ stop' = stop
BY DEF Start, Typed, ExecTypes, Named, Own, InTheTable

\* The rows of what the memory holds stay as they were claimed.
LEMMA StepRowsHeld ==
    ASSUME Typed, Own, [Next]_vars
    PROVE  RowsHeld'
<1>0. RowsHeld /\ Named
  BY DEF Own, Typed
<1>1. ASSUME NEW j \in Jobs, NEW b \in BOOLEAN, ClaimOne(j, b) PROVE RowsHeld'
  <2>2. (pending' # Nothing => RowHeld(pending.job, pending.attempt)')
    BY <1>1, ClaimedIsFree DEF RowHeld
  <2>3. ASSUME NEW e \in Execs, Live(e) PROVE RowHeld(exec[e].job, exec[e].attempt)'
    <3> DEFINE k == exec[e].job  n == exec[e].attempt
    <3>1. RowHeld(k, n) /\ k \in Jobs /\ k # j /\ exec' = exec
      BY <1>0, <1>1, <2>3, ClaimedIsFree DEF RowsHeld, Live, Named, Held
    <3>2. job'[k] = job[k]
      BY <1>1, <3>1, ClaimedIsFree
    <3>3. CASE job[k].status = "running" /\ job[k].fresh /\ job[k].attempt = n /\ n > 0
      BY <3>1, <3>2, <3>3 DEF RowHeld
    <3>4. CASE Deleted(k)
      BY <3>1, <3>4, DeletedStays DEF RowHeld, Deleted
    <3> QED
      BY <3>1, <3>3, <3>4 DEF RowHeld
  <2>4. exec' = exec
    BY <1>1, ClaimedIsFree
  <2> QED
    BY <2>2, <2>3, <2>4 DEF RowsHeld, Live
<1>2. ASSUME NEW e \in Execs, Start(e) PROVE RowsHeld'
  <2>1. /\ exec'[e].job = pending.job /\ exec'[e].attempt = pending.attempt
        /\ RowHeld(pending.job, pending.attempt)
    BY <1>0, <1>2, Started DEF RowsHeld, Idle
  <2>2. job' = job /\ pending' = Nothing /\ \A f \in Execs : f # e => exec'[f] = exec[f]
    BY <1>2, Started
  <2>3. ASSUME NEW f \in Execs, Live(f)' PROVE RowHeld(exec[f].job, exec[f].attempt)'
    BY <1>0, <2>1, <2>2, <2>3 DEF RowsHeld, RowHeld, Deleted, Live
  <2> QED
    BY <2>2, <2>3 DEF RowsHeld
<1>3. CASE ~Claims /\ ~Starts
  <2>1. MemoryKept
    BY <1>3, StepMemory
  <2>2. ASSUME pending' # Nothing PROVE RowHeld(pending.job, pending.attempt)'
    <3>1. PICK j, n : j = pending.job /\ n = pending.attempt
      OBVIOUS
    <3>2. pending' = pending /\ j \in Jobs /\ RowHeld(j, n)
      BY <1>0, <2>1, <2>2, <3>1 DEF MemoryKept, RowsHeld, Named
    <3>3. Held(j) /\ Held(j)'
      BY <3>1, <3>2 DEF Held
    <3>4. RowHeld(j, n)'
      BY <1>3, <3>2, <3>3, StepRows, RowHeldKept
    <3> QED
      BY <3>1, <3>2, <3>4 DEF RowHeld, Deleted
  <2>3. ASSUME NEW e \in Execs, Live(e)' PROVE RowHeld(exec[e].job, exec[e].attempt)'
    <3>1. PICK j, n : j = exec[e].job /\ n = exec[e].attempt
      OBVIOUS
    <3>2. exec'[e].job = j /\ exec'[e].attempt = n /\ Live(e)
      BY <2>1, <2>3, <3>1 DEF MemoryKept, Same, Idle, Live
    <3>3. j \in Jobs /\ RowHeld(j, n)
      BY <1>0, <3>1, <3>2 DEF RowsHeld, Named, Live
    <3>4. Held(j) /\ Held(j)'
      BY <3>1, <3>2 DEF Held
    <3>5. RowHeld(j, n)'
      BY <1>3, <3>3, <3>4, StepRows, RowHeldKept
    <3> QED
      BY <3>2, <3>5 DEF RowHeld, Deleted
  <2> QED
    BY <2>2, <2>3 DEF RowsHeld
<1> QED
  BY <1>1, <1>2, <1>3 DEF Claims, Starts

\* No job comes to be held twice.
LEMMA StepOneHolder ==
    ASSUME Typed, Own, [Next]_vars
    PROVE  OneHolder'
<1>0. OneHolder /\ Named /\ NoJob \notin Jobs /\ Nothing.job = NoJob /\ Idle.job = NoJob
      /\ Idle.phase = "idle"
  BY RunnerAssumption DEF Own, Typed, Nothing, Idle
<1>1. ASSUME NEW j \in Jobs, NEW b \in BOOLEAN, ClaimOne(j, b) PROVE OneHolder'
  BY <1>0, <1>1, ClaimedIsFree DEF OneHolder, Held, Live
<1>2. ASSUME NEW e \in Execs, Start(e) PROVE OneHolder'
  <2>1. \A f \in Execs : f # e => exec'[f] = exec[f] /\ exec[f].job # pending.job
    BY <1>0, <1>2, Started DEF OneHolder, Live
  <2>2. exec'[e].job = pending.job /\ exec'[e].phase = "running" /\ pending'.job = NoJob
        /\ pending.job \in Jobs
    BY ZenonT(40), <1>0, <1>2, Started DEF Idle
  <2> QED
    BY <1>0, <2>1, <2>2 DEF OneHolder, Live, Named
<1>3. CASE ~Claims /\ ~Starts
  <2>1. MemoryKept
    BY <1>3, StepMemory
  <2> QED
    BY <1>0, <2>1 DEF OneHolder, MemoryKept, Same, Live, Named
<1> QED
  BY <1>1, <1>2, <1>3 DEF Claims, Starts

\* A job is held after a step if it was before, or is just claimed.
LEMMA HeldBefore ==
    ASSUME Typed, Own, [Next]_vars, NEW j \in Jobs, Held(j)'
    PROVE  Held(j) \/ \E b \in BOOLEAN : ClaimOne(j, b)
<1>0. NoJob \notin Jobs
  BY RunnerAssumption
<1>1. ASSUME NEW k \in Jobs, NEW b \in BOOLEAN, ClaimOne(k, b)
      PROVE  Held(j) \/ \E c \in BOOLEAN : ClaimOne(j, c)
  BY <1>1, ClaimedIsFree DEF Held
<1>2. ASSUME NEW e \in Execs, Start(e) PROVE Held(j)
  <2>1. exec'[e].job = pending.job
    BY <1>2, Started DEF Idle
  <2>2. pending' = Nothing /\ \A f \in Execs : f # e => exec'[f] = exec[f]
    BY <1>2, Started
  <2> QED
    BY <1>0, <2>1, <2>2 DEF Held, Nothing
<1>3. CASE ~Claims /\ ~Starts
  BY <1>0, <1>3, StepMemory DEF MemoryKept, Same, Held, Idle, Nothing
<1> QED
  BY <1>1, <1>2, <1>3 DEF Claims, Starts

\* No second job of a Feed comes into the memory beside one that is not on demand.
LEMMA StepOncePerFeed ==
    ASSUME Typed, Own, [Next]_vars
    PROVE  OncePerFeed'
<1>0. OncePerFeed
  BY DEF Own
<1>1. ASSUME NEW c \in Jobs, NEW b \in BOOLEAN, ClaimOne(c, b), NEW k \in Jobs, Held(k), k # c,
             FeedOf[k] = FeedOf[c], FeedOf[c] # NoFeed
      PROVE  c \in OnDemand
  <2>1. job[c].status = "queued" /\ (c \notin OnDemand => ~Q!RunningSameFeed(c))
    BY <1>1 DEF ClaimOne, Q!Claim, Q!Claimable
  <2>2. ~Deleted(k)
    BY <1>1, <2>1 DEF Deleted
  <2>3. job[k].status = "running"
    BY <1>1, <2>2, HeldRunning
  <2> QED
    BY <1>1, <2>1, <2>3 DEF Q!RunningSameFeed, Q!InStatus
<1> QED
  BY <1>0, <1>1, HeldBefore, ClaimedIsFree DEF OncePerFeed

\* What is registered stays the entry of its job in _running.
LEMMA StepInTheTable ==
    ASSUME Typed, Own, [Next]_vars
    PROVE  InTheTable'
<1>0. /\ InTheTable /\ OneHolder /\ Named /\ TableAgrees
      /\ exec \in [Execs -> RunningJob] /\ table \in [Jobs -> Execs \cup {NoExec}]
  BY DEF Own, Typed, ExecTypes
<1>1. \A f \in Execs : exec[f].phase \in Registered =>
          Live(f) /\ exec[f].job \in Jobs /\ table[exec[f].job] = f
  BY <1>0 DEF Registered, Live, Named, InTheTable
<1> DEFINE Tabled == \A e \in Execs : exec'[e].phase \in Registered => table'[exec'[e].job] = e
<1>3. Tabled
  <2>1. ASSUME NEW j \in Jobs, NEW b \in BOOLEAN, ClaimOne(j, b) PROVE Tabled
    BY <1>1, <2>1, ClaimedIsFree
  <2>2. ASSUME NEW e \in Execs, Start(e) PROVE Tabled
    <3>1. exec'[e].job = pending.job
      BY <2>2, Started DEF Idle
    <3>2. \A f \in Execs : f # e => exec'[f] = exec[f]
          /\ (exec[f].phase \in Registered => exec[f].job # pending.job)
      BY <1>0, <1>1, <2>2, Started DEF OneHolder
    <3>3. pending.job \in Jobs /\ table' = [table EXCEPT ![pending.job] = e]
      BY <2>2, Started
    <3> QED
      BY <1>0, <1>1, <3>1, <3>2, <3>3
  <2>3. ASSUME NEW e \in Execs, Live(e), table' = [table EXCEPT ![exec[e].job] = NoExec],
               exec'[e].phase \notin Registered, \A f \in Execs : f # e => exec'[f] = exec[f]
        PROVE  Tabled
    <3>1. \A f \in Execs : f # e /\ exec[f].phase \in Registered => exec[f].job # exec[e].job
      BY <1>0, <2>3 DEF OneHolder
    <3> QED
      BY <1>0, <1>1, <2>3, <3>1
  <2>4. ASSUME NEW e \in Execs, MarkStuck(e) \/ Settle(e) \/ DrainRequeue(e) PROVE Tabled
    <3>1. Live(e) /\ table' = [table EXCEPT ![exec[e].job] = NoExec]
      BY <2>4 DEF MarkStuck, Settle, DrainRequeue, Pop, Live
    <3>2. \A f \in Execs : f # e => exec'[f] = exec[f]
      BY <1>0, <2>4 DEF MarkStuck, Settle, DrainRequeue, Done
    <3>3. exec'[e].phase \in {"failing", "idle"}
      <4>1. CASE MarkStuck(e)
        BY <1>0, <4>1 DEF MarkStuck, RunningJob
      <4>2. CASE Settle(e) \/ DrainRequeue(e)
        <5>1. exec' = [exec EXCEPT ![e] = Idle]
          BY <4>2 DEF Settle, DrainRequeue, Done
        <5> QED
          BY <1>0, <5>1 DEF Idle
      <4> QED
        BY <2>4, <4>1, <4>2
    <3> QED
      BY <2>3, <3>1, <3>2, <3>3 DEF Registered
  <2>5. ASSUME NEW e \in Execs, FailStuck(e) PROVE Tabled
    BY <1>0, <1>1, <2>5 DEF FailStuck, Done, Idle, Registered
  <2>6. CASE table' = table /\ \A e \in Execs : exec'[e].job = exec[e].job
                /\ (exec'[e].phase \in Registered => exec[e].phase \in Registered)
    BY <1>1, <2>6
  <2>7. ASSUME NEW e \in Execs, MonitorPoll(e) \/ SoftTimeout(e) PROVE Tabled
    <3>1. CASE MonitorPoll(e)
      BY <1>0, <2>6, <3>1 DEF MonitorPoll, RunningJob
    <3>2. CASE SoftTimeout(e)
      BY <1>0, <2>6, <3>2 DEF SoftTimeout, RunningJob
    <3> QED
      BY <2>7, <3>1, <3>2
  <2>8. ASSUME NEW e \in Execs, NEW o \in Outcomes, HandlerReturn(e, o) PROVE Tabled
    BY <1>0, <2>6, <2>8 DEF HandlerReturn, RunningJob, Registered
  <2>9. CASE table' = table /\ exec' = CancelTokens
    BY <1>0, <2>6, <2>9 DEF CancelTokens, RunningJob
  <2>10. CASE DrainTimeout
    <3>1. \A e \in InTable : exec[e].phase \in Registered
      BY <1>0, RunnerAssumption DEF InTable, TableAgrees
    <3> QED
      BY <1>0, <2>6, <2>10, <3>1 DEF DrainTimeout, RunningJob
  <2>11. CASE Vanish
    BY <2>11 DEF Vanish, Idle, Registered
  <2>12. CASE exec' = exec /\ table' = table
    BY <1>1, <2>12
  <2>13. CASE Process
    BY <2>9, <2>10, <2>11, <2>12, <2>13
    DEF Process, Defer, LoopFails, AbandonedThreadEnds, StorageFreed, RequestStop, StuckStop,
        BeginDrain, Exit, DrainFails, Crash, Restart, memory
  <2>14. CASE User \/ (\E purged \in SUBSET Jobs : Tick(purged))
              \/ (\E j \in Jobs : GoStale(j) \/ BecomeDue(j)) \/ UNCHANGED vars
    BY <2>12, <2>14 DEF User, Tick, GoStale, BecomeDue, vars, memory
  <2> QED
    BY <2>1, <2>2, <2>4, <2>5, <2>7, <2>8, <2>13, <2>14 DEF Next, Execution
<1>4. proc' # "up" => pending' = Nothing
  <2>1. proc # "up" => pending = Nothing
    BY <1>0 DEF InTheTable
  <2>2. CASE proc' = proc /\ pending' \in {pending, Nothing}
    BY <2>1, <2>2
  <2>3. CASE \E e \in Execs : Execution(e)
    BY <2>2, <2>3 DEF Execution, Start, MonitorPoll, SoftTimeout, MarkStuck, FailStuck, Settle,
                      DrainRequeue, HandlerReturn
  <2>4. CASE Process
    BY <2>1, <2>4
    DEF Process, Defer, LoopFails, AbandonedThreadEnds, StorageFreed, RequestStop, StuckStop,
        BeginDrain, DrainTimeout, Exit, DrainFails, Crash, Restart, Vanish
  <2>5. CASE \E j \in Jobs, b \in BOOLEAN : ClaimOne(j, b)
    BY <2>5 DEF ClaimOne
  <2>6. CASE User \/ (\E purged \in SUBSET Jobs : Tick(purged))
              \/ (\E j \in Jobs : GoStale(j) \/ BecomeDue(j)) \/ UNCHANGED vars
    BY <2>2, <2>6 DEF User, Tick, GoStale, BecomeDue, vars, memory
  <2> QED
    BY <2>3, <2>4, <2>5, <2>6 DEF Next
<1> QED
  BY <1>3, <1>4 DEF InTheTable

\* What was asked for a job stays asked for as long as it is held.
LEMMA AskedKept ==
    ASSUME Typed, Own, [Next]_vars, ~Claims, NEW e \in Execs, Live(e),
           exec'[e].job = exec[e].job, Asked(e)
    PROVE  Asked(e)'
<1> DEFINE j == exec[e].job
<1>1. j \in Jobs /\ Held(j) /\ Held(j)'
  BY DEF Typed, Named, Live, Held
<1>2. RowKept(j)
  BY <1>1, StepRows
<1>3. Deleted(j) => Deleted(j)'
  <2>1. PICK k : k = j
    OBVIOUS
  <2>2. Deleted(k) => Deleted(k)'
    BY DeletedStays
  <2> QED
    BY <2>1, <2>2 DEF Deleted
<1> QED
  BY <1>2, <1>3 DEF Asked, RowKept, Deleted

\* An execution that is told to stop has a cause the code knows.
LEMMA StepCauses ==
    ASSUME Typed, Own, [Next]_vars
    PROVE  Causes'
<1> SUFFICES ASSUME NEW e \in Execs, Live(e)' PROVE Caused(e)'
  BY DEF Causes
<1>0. exec \in [Execs -> RunningJob] /\ (Live(e) => Caused(e))
  BY DEF Typed, ExecTypes, Own, Causes
<1>1. ASSUME NEW j \in Jobs, NEW b \in BOOLEAN, ClaimOne(j, b) PROVE Caused(e)'
  <2>1. exec' = exec /\ Live(e) /\ exec[e].job # j /\ exec[e].job \in Jobs
    BY <1>1, ClaimedIsFree DEF Live, Held, Typed, Named
  <2>2. job'[exec[e].job] = job[exec[e].job] /\ proc' = proc /\ stop' = stop
    BY <1>1, <2>1, ClaimedIsFree
  <2>3. Deleted(exec[e].job) => Deleted(exec[e].job)'
    <3>1. PICK k : k = exec[e].job
      OBVIOUS
    <3>2. Deleted(k) => Deleted(k)'
      BY DeletedStays
    <3> QED
      BY <2>1, <3>1, <3>2 DEF Deleted
  <2> QED
    BY <1>0, <2>1, <2>2, <2>3 DEF Caused, Asked
<1>2. ASSUME NEW f \in Execs, Start(f) PROVE Caused(e)'
  <2>1. CASE e = f
    <3>1. ~exec'[e].user /\ ~exec'[e].token /\ exec'[e].phase = "running"
      BY ZenonT(40), <1>2, <2>1, Started DEF Idle
    <3> QED
      BY <3>1 DEF Caused
  <2>2. CASE e # f
    <3>1. exec'[e] = exec[e] /\ job' = job /\ proc' = proc /\ stop' = stop
      BY <1>2, <2>2, Started
    <3> QED
      BY <1>0, <3>1 DEF Caused, Asked, Deleted, Live
  <2> QED
    BY <2>1, <2>2
<1>3. CASE ~Claims /\ ~Starts
  <2>1. Live(e) /\ Same(e) /\ Caused(e)
    BY <1>0, <1>3, StepMemory DEF MemoryKept, Same, Live, Idle
  <2>2. Asked(e) => Asked(e)'
    BY <1>3, <2>1, AskedKept DEF Same
  <2>3. ~Vanish
    BY DEF Vanish, Idle, Live
  <2> DEFINE Kept ==
        /\ exec'[e].user = exec[e].user
        /\ exec'[e].token = exec[e].token /\ exec'[e].timedOut = exec[e].timedOut
        /\ exec'[e].phase = "settling" =>
              exec[e].phase = "settling" /\ exec'[e].outcome = exec[e].outcome
      Cause == stop' \/ proc' = "draining"
      Told ==    \* the token is set, for the whole process or because the time is up
        /\ exec'[e].user = exec[e].user
        /\ exec'[e].token /\ (Cause \/ exec'[e].timedOut)
        /\ exec'[e].phase = "settling" => exec[e].phase = "settling"
  <2>4. stop \/ proc = "draining" => Cause
    <3>1. CASE UNCHANGED <<proc, stop>>
      BY <3>1
    <3>2. CASE Process
      BY <2>3, <3>2
      DEF Process, Defer, LoopFails, AbandonedThreadEnds, StorageFreed, RequestStop, StuckStop,
          BeginDrain, DrainTimeout, Exit, DrainFails, Crash, Restart
    <3>3. CASE \E f \in Execs : Execution(f)
      BY <3>1, <3>3 DEF Execution, Start, MonitorPoll, SoftTimeout, MarkStuck, FailStuck, Settle,
                        DrainRequeue, HandlerReturn
    <3> QED
      BY <1>3, <3>1, <3>2, <3>3 DEF Next, User, Tick, GoStale, BecomeDue, vars, Claims
  <2>5. CASE Kept
    BY <2>1, <2>2, <2>4, <2>5 DEF Caused, Same
  <2>6. CASE Told
    BY <2>1, <2>2, <2>6 DEF Caused
  <2>7. CASE exec' = exec
    BY <2>5, <2>7
  <2>8. CASE exec' = CancelTokens /\ Cause
    <3>1. CASE e \in InTable
      BY <1>0, <2>6, <2>8, <3>1 DEF CancelTokens, RunningJob
    <3>2. CASE e \notin InTable
      BY <1>0, <2>5, <2>8, <3>2 DEF CancelTokens
    <3> QED
      BY <3>1, <3>2
  <2>9. CASE DrainTimeout
    <3>1. CASE e \in InTable
      BY <1>0, <2>5, <2>9, <3>1 DEF DrainTimeout, RunningJob
    <3>2. CASE e \notin InTable
      BY <1>0, <2>5, <2>9, <3>2 DEF DrainTimeout
    <3> QED
      BY <3>1, <3>2
  <2>10. ASSUME NEW f \in Execs, FailStuck(f) \/ Settle(f) \/ DrainRequeue(f) PROVE Caused(e)'
    <3>1. exec' = [exec EXCEPT ![f] = Idle]
      BY <2>10 DEF FailStuck, Settle, DrainRequeue, Done
    <3>2. e # f
      BY <1>0, <3>1 DEF Idle, Live
    <3> QED
      BY <1>0, <2>5, <3>1, <3>2
  <2>11. ASSUME NEW f \in Execs, MarkStuck(f) PROVE Caused(e)'
    BY <1>0, <2>5, <2>11 DEF MarkStuck, RunningJob
  <2>12. ASSUME NEW f \in Execs, SoftTimeout(f) PROVE Caused(e)'
    <3>1. CASE e = f
      BY <1>0, <2>6, <2>12, <3>1 DEF SoftTimeout, RunningJob
    <3>2. CASE e # f
      BY <1>0, <2>5, <2>12, <3>2 DEF SoftTimeout
    <3> QED
      BY <3>1, <3>2
  <2>13. ASSUME NEW f \in Execs, NEW o \in Outcomes, HandlerReturn(f, o) PROVE Caused(e)'
    <3>1. CASE e = f
      <4>1. /\ exec'[e].user = exec[e].user /\ exec'[e].token = exec[e].token
            /\ exec'[e].timedOut = exec[e].timedOut /\ exec'[e].outcome = o
        BY <1>0, <2>13, <3>1 DEF HandlerReturn, RunningJob
      <4>2. o = "cancelled" => exec[e].token \/ exec[e].job \in Archive
        BY <2>13, <3>1 DEF HandlerReturn
      <4> QED
        BY <2>1, <2>2, <2>4, <4>1, <4>2 DEF Caused, Same
    <3>2. CASE e # f
      BY <1>0, <2>5, <2>13, <3>2 DEF HandlerReturn
    <3> QED
      BY <3>1, <3>2
  <2>14. ASSUME NEW f \in Execs, MonitorPoll(f) PROVE Caused(e)'
    <3>1. CASE e = f
      <4>1. /\ exec'[e].user => exec[e].user \/ job[exec[e].job].cancel
            /\ exec'[e].token => exec[e].token \/ job[exec[e].job].status # "running"
                                    \/ job[exec[e].job].cancel
            /\ exec'[e].timedOut = exec[e].timedOut /\ exec'[e].phase = "running"
        BY <1>0, <2>14, <3>1 DEF MonitorPoll, RunningJob
      <4>2. job[exec[e].job].status # "running" => Asked(e)
        BY <2>1 DEF Own, RowsHeld, RowHeld, Asked
      <4> QED
        BY <2>1, <2>2, <2>4, <4>1, <4>2 DEF Caused, Asked
    <3>2. CASE e # f
      BY <1>0, <2>5, <2>14, <3>2 DEF MonitorPoll
    <3> QED
      BY <3>1, <3>2
  <2>15. CASE Process
    BY <2>3, <2>7, <2>8, <2>9, <2>15
    DEF Process, Defer, LoopFails, AbandonedThreadEnds, StorageFreed, RequestStop, StuckStop,
        BeginDrain, Exit, DrainFails, Crash, Restart, memory
  <2>16. CASE User \/ (\E purged \in SUBSET Jobs : Tick(purged))
              \/ (\E j \in Jobs : GoStale(j) \/ BecomeDue(j)) \/ UNCHANGED vars
    BY <2>7, <2>16 DEF User, Tick, GoStale, BecomeDue, vars, memory
  <2> QED
    BY <1>3, <2>10, <2>11, <2>12, <2>13, <2>14, <2>15, <2>16 DEF Next, Execution, Claims, Starts
<1> QED
  BY <1>1, <1>2, <1>3 DEF Claims, Starts

\* The invariant of ownership is inductive.
LEMMA StepOwn == Typed /\ Own /\ [Next]_vars => Own'
BY StepCalm, StepRowsHeld, StepOneHolder, StepOncePerFeed, StepInTheTable, StepCauses DEF Own

\* Own is inductive as long as no heartbeat stalls.
LEMMA OwnAlways == ASSUME NeverStalls PROVE Spec => []Own
<1>1. Init => Own
  <2> SUFFICES ASSUME Init PROVE Own
    OBVIOUS
  <2>1. Calm
    BY DEF Init, NeverStalls, Calm
  <2>2. /\ pending = Nothing /\ proc = "up"
        /\ \A e \in Execs : exec[e] = Idle
    BY DEF Init, Fresh
  <2>3. RowsHeld /\ OneHolder /\ Causes /\ InTheTable
    BY <2>2 DEF RowsHeld, OneHolder, Causes, InTheTable, Live, Idle, Registered
  <2>4. OncePerFeed
    BY <2>2, RunnerAssumption DEF OncePerFeed, Held, Idle, Nothing
  <2> QED
    BY <2>1, <2>3, <2>4 DEF Own
<1> QED
  BY <1>1, StepOwn, TypedAlways, PTL DEF Spec

\* While no heartbeat stalls, an execution owns its row, across cancels, timeouts,
\* drains, crashes and restarts: it is the only one of its job, the row stays
\* running (or is deleted) until it moves it, and one execution of a feed runs.
THEOREM Owners == ASSUME NeverStalls PROVE Spec => []ExecutionsOwn
<1>1. Typed /\ Own => ExecutionsOwn
  <2> SUFFICES ASSUME Typed, Own PROVE ExecutionsOwn
    OBVIOUS
  <2>1. Ownership
    <3> SUFFICES ASSUME NEW e \in Execs, Live(e)
        PROVE  /\ job[exec[e].job].status \in {"running", "gone"}
               /\ job[exec[e].job].status = "running" => job[exec[e].job].attempt = exec[e].attempt
               /\ pending.job # exec[e].job
               /\ \A f \in Execs : exec[f].job = exec[e].job => f = e
      BY DEF Ownership, Live
    <3>1. RowHeld(exec[e].job, exec[e].attempt) /\ exec[e].job \in Jobs
      BY DEF Own, RowsHeld, Typed, Named, Live
    <3> QED
      BY <3>1 DEF RowHeld, Deleted, Own, OneHolder
  <2>2. OneExecutionPerFeed
    BY DEF OneExecutionPerFeed, Own, OneHolder, OncePerFeed, Held, Typed, Named, Live
  <2> QED
    BY <2>1, <2>2 DEF ExecutionsOwn
<1> QED
  BY <1>1, OwnAlways, TypedAlways, PTL

-----------------------------------------------------------------------------
\* The sets behind the slots are finite.
LEMMA CountsFinite ==
    /\ IsFiniteSet(General) /\ IsFiniteSet(Reserved)
    /\ Cardinality(General) \in Nat /\ Cardinality(Reserved) \in Nat
<1>1. General \subseteq Jobs /\ Reserved \subseteq Jobs
  BY DEF General, Reserved
<1>2. IsFiniteSet(General) /\ IsFiniteSet(Reserved)
  BY <1>1, RunnerAssumption, FS_Subset
<1> QED
  BY <1>2, FS_CardinalityType

\* Adding an element adds at most one to the cardinality.
LEMMA AtMostOneMore ==
    ASSUME NEW S, IsFiniteSet(S), NEW x, NEW T, T \subseteq S \cup {x}
    PROVE  Cardinality(T) <= Cardinality(S) + 1 /\ Cardinality(T) \in Nat
<1>1. IsFiniteSet(S \cup {x}) /\ Cardinality(S \cup {x}) \in Nat /\ Cardinality(S) \in Nat
      /\ Cardinality(S \cup {x}) <= Cardinality(S) + 1
  BY FS_AddElement, FS_CardinalityType
<1>2. Cardinality(T) <= Cardinality(S \cup {x}) /\ Cardinality(T) \in Nat
  BY <1>1, FS_Subset, FS_CardinalityType
<1> QED
  BY <1>1, <1>2

\* The bound on what _running holds, which a claim reads: it counts every stuck
\* thread against the general slots, whichever slot its job had.
SlotBound ==
    /\ Cardinality(General) + Claimed("general") + abandoned["general"] <= Concurrency
    /\ Cardinality(Reserved) + Claimed("reserved") <= OnDemandSlots
    /\ abandoned["general"] + abandoned["reserved"] <= stuck

\* No thread is left behind: those that were end, or the process does.
NoneAbandoned ==
    /\ abandoned' \in [SlotKinds -> Nat] /\ stuck' \in Nat
    /\ abandoned'["general"] <= abandoned["general"]
    /\ abandoned'["general"] + abandoned'["reserved"] <= stuck'

\* No job enters _running and no claim is taken: the slots in use can only
\* become fewer.
NoNewcomer ==
    /\ pending' \in {pending, Nothing}
    /\ \A j \in Jobs : table'[j] # NoExec =>
           table'[j] = table[j] /\ exec'[table[j]].reserved = exec[table[j]].reserved

\* Without a newcomer the bound on the slots is kept.
LEMMA Fewer ==
    ASSUME SlotBound, NoNewcomer, NoneAbandoned, abandoned \in [SlotKinds -> Nat]
    PROVE  SlotBound'
<1> USE DEF SlotKinds
<1> DEFINE g == Cardinality(General)  g1 == Cardinality(General)'  c == Claimed("general")
           r == Cardinality(Reserved) r1 == Cardinality(Reserved)' d == Claimed("reserved")
           c1 == Claimed("general")'      d1 == Claimed("reserved")'
           a == abandoned["general"]      a1 == abandoned'["general"]
<1>1. General' \subseteq General /\ Reserved' \subseteq Reserved
  BY DEF NoNewcomer, General, Reserved, Tracked
<1>2. g1 <= g /\ r1 <= r /\ {g, g1, r, r1} \subseteq Nat
  BY <1>1, CountsFinite, FS_Subset, FS_CardinalityType
<1>3. c1 <= c /\ d1 <= d /\ {c, c1, d, d1} \subseteq {0, 1}
  BY DEF NoNewcomer, Claimed, SlotOf, Nothing
<1>4. g + c + a <= Concurrency /\ r + d <= OnDemandSlots
  BY DEF SlotBound
<1>5. Concurrency \in Nat /\ OnDemandSlots \in Nat /\ a \in Nat /\ a1 \in Nat /\ a1 <= a
  BY RunnerAssumption DEF OnDemandSlots, NoneAbandoned
<1>6. g1 + c1 + a1 <= Concurrency /\ r1 + d1 <= OnDemandSlots
  <2> HIDE DEF g, g1, r, r1, c, c1, d, d1, a, a1
  <2> QED
    BY <1>2, <1>3, <1>4, <1>5
<1> QED
  BY <1>6 DEF SlotBound, OnDemandSlots, NoneAbandoned

\* Every step keeps the bound: only a claim takes a slot, and it found one free; a
\* stuck general job leaves _running as its thread is left behind.
LEMMA StepSlots == SlotBound /\ Typed /\ Own /\ [Next]_vars => SlotBound'
<1> SUFFICES ASSUME SlotBound, Typed, Own, [Next]_vars PROVE SlotBound'
  OBVIOUS
<1> USE DEF SlotKinds
<1>0. /\ table \in [Jobs -> Execs \cup {NoExec}] /\ exec \in [Execs -> RunningJob]
      /\ pending \in [job : Jobs \cup {NoJob}, reserved : BOOLEAN, attempt : Nat]
      /\ stuck \in Nat /\ abandoned \in [SlotKinds -> Nat]
      /\ Named /\ TableAgrees
  BY DEF Typed, ExecTypes, ProcessTypes
<1>1. Concurrency \in Nat /\ OnDemandSlots \in Nat
      /\ abandoned["general"] \in Nat /\ abandoned["reserved"] \in Nat
      /\ abandoned["general"] + abandoned["reserved"] <= stuck
  BY <1>0, RunnerAssumption DEF OnDemandSlots, SlotBound
<1>q. ASSUME UNCHANGED <<stuck, abandoned>> PROVE NoneAbandoned
  BY <1>0, <1>1, <1>q DEF NoneAbandoned
<1>2. ASSUME table' = table, pending' \in {pending, Nothing}, UNCHANGED <<stuck, abandoned>>,
             \A e \in Execs : exec'[e].reserved = exec[e].reserved
      PROVE  SlotBound'
  <2>1. NoNewcomer
    BY <1>0, <1>2 DEF NoNewcomer
  <2> QED
    BY <2>1, <1>0, <1>2, <1>q, Fewer
<1>3. ASSUME NEW e \in Execs, exec[e].phase # "idle", pending' = pending,
             table' = [table EXCEPT ![exec[e].job] = NoExec],
             \A f \in Execs : f # e => exec'[f].reserved = exec[f].reserved
      PROVE  NoNewcomer
  <2>1. exec[e].job \in Jobs
    BY <1>0, <1>3 DEF Named
  <2>2. \A j \in Jobs : table'[j] # NoExec =>
            j # exec[e].job /\ table'[j] = table[j] /\ table[j] \in Execs /\ table[j] # e
    BY <1>0, <1>3, <2>1 DEF TableAgrees
  <2> QED
    BY <1>3, <2>2 DEF NoNewcomer
<1>4. ASSUME NEW j \in Jobs, NEW b \in BOOLEAN, ClaimOne(j, b) PROVE SlotBound'
  <2>1. General' = General /\ Reserved' = Reserved /\ UNCHANGED <<stuck, abandoned>>
    BY <1>4 DEF ClaimOne, General, Reserved, Tracked
  <2>2. pending = Nothing /\ pending'.reserved = b /\ FreeSlots(b) > 0
    BY <1>4 DEF ClaimOne
  <2>3. Claimed("general") = 0 /\ Claimed("reserved") = 0
    BY <2>2 DEF Claimed, SlotOf
  <2>4. Cardinality(General) + abandoned["general"] <= Concurrency /\ Cardinality(Reserved) <= OnDemandSlots
    BY <2>3, <1>1, CountsFinite DEF SlotBound
  <2>5. Claimed("general")' \in {0, 1} /\ Claimed("reserved")' \in {0, 1}
        /\ (b => Claimed("general")' = 0) /\ (~b => Claimed("reserved")' = 0)
    BY <2>2 DEF Claimed, SlotOf
  <2>6. (b => Cardinality(Reserved) + 1 <= OnDemandSlots)
        /\ (~b => Cardinality(General) + 1 + abandoned["general"] <= Concurrency)
    BY <2>2, <1>0, <1>1, CountsFinite DEF FreeSlots
  <2>7. /\ Cardinality(General) + Claimed("general")' + abandoned["general"] <= Concurrency
        /\ Cardinality(Reserved) + Claimed("reserved")' <= OnDemandSlots
    <3>1. CASE b
      BY <3>1, <2>4, <2>5, <2>6, <1>1, CountsFinite
    <3>2. CASE ~b
      BY <3>2, <2>4, <2>5, <2>6, <1>1, CountsFinite
    <3> QED
      BY <3>1, <3>2
  <2> QED
    BY <2>1, <2>7, <1>1 DEF SlotBound, OnDemandSlots
<1>5. ASSUME NEW e \in Execs, Start(e) PROVE SlotBound'
  <2> DEFINE p == pending.job
  <2>1. /\ p \in Jobs /\ pending # Nothing /\ pending' = Nothing
        /\ table' = [table EXCEPT ![p] = e]
        /\ exec'[e].reserved = pending.reserved
        /\ \A f \in Execs : f # e => exec'[f] = exec[f]
        /\ exec[e].phase = "idle" /\ UNCHANGED <<stuck, abandoned>>
    BY <1>0, <1>5 DEF Start, Named, Idle
  <2>2. \A j \in Jobs : table[j] # e
    BY <1>0, <2>1, RunnerAssumption DEF TableAgrees, Registered
  <2>3. table'[p] = e /\ \A j \in Jobs : j # p =>
            table'[j] = table[j] /\ (table[j] # NoExec => exec'[table[j]] = exec[table[j]])
    BY <1>0, <2>1, <2>2
  <2>4. Claimed("general")' = 0 /\ Claimed("reserved")' = 0
    BY <2>1 DEF Claimed, SlotOf
  <2>f. IsFiniteSet(General) /\ IsFiniteSet(Reserved)
        /\ Cardinality(General) \in Nat /\ Cardinality(Reserved) \in Nat
    BY CountsFinite
  <2>5. CASE pending.reserved
    <3>1. General' \subseteq General
      BY <2>1, <2>3, <2>5 DEF General, Tracked
    <3>2. Reserved' \subseteq Reserved \cup {p}
      BY <2>1, <2>3, <2>5 DEF Reserved, Tracked
    <3>3. Cardinality(General') <= Cardinality(General) /\ Cardinality(General') \in Nat
      BY <3>1, <2>f, FS_Subset, FS_CardinalityType
    <3>4. Cardinality(Reserved') <= Cardinality(Reserved) + 1 /\ Cardinality(Reserved') \in Nat
      BY <3>2, <2>f, AtMostOneMore
    <3>5. Claimed("general") = 0 /\ Claimed("reserved") = 1
      BY <2>1, <2>5 DEF Claimed, SlotOf
    <3>6. Cardinality(General) + abandoned["general"] <= Concurrency /\ Cardinality(Reserved) + 1 <= OnDemandSlots
      BY <3>5, <1>1, <2>f DEF SlotBound
    <3>7. Cardinality(General') + 0 + abandoned["general"] <= Concurrency /\ Cardinality(Reserved') + 0 <= OnDemandSlots
      BY <3>3, <3>4, <3>6, <1>1, <2>f
    <3> QED
      BY <2>1, <2>4, <3>7, <1>1 DEF SlotBound, OnDemandSlots
  <2>6. CASE ~pending.reserved
    <3>1. General' \subseteq General \cup {p}
      BY <2>1, <2>3, <2>6 DEF General, Tracked
    <3>2. Reserved' \subseteq Reserved
      BY <2>1, <2>3, <2>6 DEF Reserved, Tracked
    <3>3. Cardinality(Reserved') <= Cardinality(Reserved) /\ Cardinality(Reserved') \in Nat
      BY <3>2, <2>f, FS_Subset, FS_CardinalityType
    <3>4. Cardinality(General') <= Cardinality(General) + 1 /\ Cardinality(General') \in Nat
      BY <3>1, <2>f, AtMostOneMore
    <3>5. Claimed("general") = 1 /\ Claimed("reserved") = 0
      <4>1. pending.reserved = FALSE
        BY <1>0, <2>6
      <4> QED
        BY <2>1, <4>1 DEF Claimed, SlotOf
    <3>6. Cardinality(General) + 1 + abandoned["general"] <= Concurrency /\ Cardinality(Reserved) <= OnDemandSlots
      BY <3>5, <1>1, <2>f DEF SlotBound
    <3>7. Cardinality(General') + 0 + abandoned["general"] <= Concurrency /\ Cardinality(Reserved') + 0 <= OnDemandSlots
      BY <3>3, <3>4, <3>6, <1>1, <2>f
    <3> QED
      BY <2>1, <2>4, <3>7, <1>1 DEF SlotBound, OnDemandSlots
  <2> QED
    BY <2>5, <2>6
<1>6. ASSUME NEW e \in Execs, NEW o \in Outcomes, HandlerReturn(e, o) PROVE SlotBound'
  BY <1>0, <1>2, <1>6 DEF HandlerReturn
<1>7. ASSUME NEW e \in Execs, MonitorPoll(e) \/ SoftTimeout(e) PROVE SlotBound'
  <2>1. table' = table /\ pending' = pending /\ UNCHANGED <<stuck, abandoned>>
    BY <1>7 DEF MonitorPoll, SoftTimeout
  <2>2. \A f \in Execs : exec'[f].reserved = exec[f].reserved
    <3>1. CASE MonitorPoll(e)
      BY <1>0, <3>1 DEF MonitorPoll, RunningJob
    <3>2. CASE SoftTimeout(e)
      BY <1>0, <3>2 DEF SoftTimeout, RunningJob
    <3> QED
      BY <1>7, <3>1, <3>2
  <2> QED
    BY <1>2, <2>1, <2>2
<1>8. ASSUME NEW e \in Execs, MarkStuck(e) PROVE SlotBound'
  <2> DEFINE k == exec[e].job  b == SlotOf(exec[e])
  <2>1. /\ k \in Jobs /\ table[k] = e /\ exec[e].phase = "running" /\ b \in SlotKinds
        /\ table' = [table EXCEPT ![k] = NoExec] /\ pending' = pending
        /\ \A f \in Execs : f # e => exec'[f] = exec[f]
        /\ stuck' = stuck + 1 /\ abandoned' = [abandoned EXCEPT ![b] = @ + 1]
    BY <1>0, <1>8 DEF MarkStuck, Pop, Named, Own, InTheTable, Registered, SlotOf, SlotKinds, RunningJob
  <2>2. NoNewcomer
    BY <1>3, <2>1
  <2>3. General' \subseteq General /\ Reserved' \subseteq Reserved /\ k \notin General'
    <3>1. General' \subseteq General /\ Reserved' \subseteq Reserved
      BY <2>2 DEF NoNewcomer, General, Reserved, Tracked
    <3>2. table'[k] = NoExec
      BY <1>0, <2>1
    <3> QED
      BY <3>1, <3>2 DEF General, Tracked
  <2>f. IsFiniteSet(General) /\ IsFiniteSet(Reserved)
        /\ Cardinality(General) \in Nat /\ Cardinality(Reserved) \in Nat
    BY CountsFinite
  <2>4. Cardinality(General') <= Cardinality(General) /\ Cardinality(General') \in Nat
        /\ Cardinality(Reserved') <= Cardinality(Reserved) /\ Cardinality(Reserved') \in Nat
    BY <2>3, <2>f, FS_Subset, FS_CardinalityType
  <2>5. Claimed("general")' = Claimed("general") /\ Claimed("reserved")' = Claimed("reserved")
        /\ Claimed("general") \in {0, 1} /\ Claimed("reserved") \in {0, 1}
    BY <2>1 DEF Claimed, SlotOf
  <2>6. /\ Cardinality(General) + Claimed("general") + abandoned["general"] <= Concurrency
        /\ Cardinality(Reserved) + Claimed("reserved") <= OnDemandSlots
    BY DEF SlotBound
  <2>7. abandoned'["general"] + abandoned'["reserved"] <= stuck'
    <3>1. CASE b = "reserved"
      <4>1. abandoned'["reserved"] = abandoned["reserved"] + 1 /\ abandoned'["general"] = abandoned["general"]
        BY <1>0, <2>1, <3>1
      <4> QED
        BY <4>1, <2>1, <1>0, <1>1
    <3>2. CASE b = "general"
      <4>1. abandoned'["general"] = abandoned["general"] + 1 /\ abandoned'["reserved"] = abandoned["reserved"]
        BY <1>0, <2>1, <3>2
      <4> QED
        BY <4>1, <2>1, <1>0, <1>1
    <3> QED
      BY <2>1, <3>1, <3>2
  <2>8. Cardinality(Reserved') + Claimed("reserved")' <= OnDemandSlots
    BY <2>4, <2>5, <2>6, <1>1, <2>f
  <2>9. Cardinality(General') + Claimed("general")' + abandoned'["general"] <= Concurrency
    <3>1. CASE b = "reserved"
      <4>1. abandoned'["general"] = abandoned["general"]
        BY <1>0, <2>1, <3>1
      <4> QED
        BY <4>1, <2>4, <2>5, <2>6, <1>1, <2>f
    <3>2. CASE b = "general"
      <4>1. abandoned'["general"] = abandoned["general"] + 1
        BY <1>0, <2>1, <3>2
      <4>2. k \in General
        BY <1>0, <2>1, <3>2, RunnerAssumption DEF General, Tracked, SlotOf
      <4>3. General' \subseteq General \ {k}
        BY <2>3
      <4>4. IsFiniteSet(General \ {k}) /\ Cardinality(General \ {k}) = Cardinality(General) - 1
        BY <4>2, <2>f, FS_RemoveElement
      <4>5. Cardinality(General') <= Cardinality(General) - 1
        BY <4>3, <4>4, FS_Subset
      <4> QED
        BY <4>1, <4>5, <2>4, <2>5, <2>6, <1>1, <2>f
    <3> QED
      BY <2>1, <3>1, <3>2
  <2> QED
    BY <2>7, <2>8, <2>9 DEF SlotBound, OnDemandSlots
<1>9. ASSUME NEW e \in Execs, Settle(e) \/ DrainRequeue(e) PROVE SlotBound'
  <2>1. NoNewcomer /\ UNCHANGED <<stuck, abandoned>>
    BY <1>0, <1>3, <1>9 DEF Settle, DrainRequeue, Pop, Done
  <2> QED
    BY <2>1, <1>0, <1>q, Fewer
<1>10. ASSUME NEW e \in Execs, FailStuck(e) PROVE SlotBound'
  <2>1. \A j \in Jobs : table[j] # NoExec => table[j] \in Execs /\ table[j] # e
    BY <1>0, <1>10 DEF FailStuck, TableAgrees, Registered
  <2>2. /\ table' = table /\ pending' = pending /\ UNCHANGED <<stuck, abandoned>>
        /\ \A f \in Execs : f # e => exec'[f] = exec[f]
    BY <1>0, <1>10 DEF FailStuck, Done
  <2>3. NoNewcomer
    BY <2>1, <2>2 DEF NoNewcomer
  <2> QED
    BY <2>2, <2>3, <1>0, <1>q, Fewer
<1>11. ASSUME exec' = CancelTokens, table' = table, pending' \in {pending, Nothing},
              UNCHANGED <<stuck, abandoned>>
       PROVE  SlotBound'
  BY <1>0, <1>2, <1>11 DEF CancelTokens
<1>12. CASE DrainTimeout
  BY <1>0, <1>2, <1>12 DEF DrainTimeout
<1>13. CASE Vanish
  <2>1. NoNewcomer
    BY <1>13 DEF Vanish, NoNewcomer
  <2>2. NoneAbandoned
    BY <1>1, <1>13 DEF Vanish, NoneAbandoned
  <2> QED
    BY <2>1, <2>2, <1>0, Fewer
<1>14. ASSUME UNCHANGED <<table, exec, stuck, abandoned>>, pending' \in {pending, Nothing} PROVE SlotBound'
  BY <1>2, <1>14
<1>19. ASSUME NEW b \in SlotKinds, AbandonedThreadEnds(b) PROVE SlotBound'
  <2>1. /\ UNCHANGED <<table, exec, pending, stuck>>
        /\ abandoned[b] > 0 /\ abandoned' = [abandoned EXCEPT ![b] = @ - 1]
    BY <1>19 DEF AbandonedThreadEnds
  <2>2. abandoned' \in [SlotKinds -> Nat] /\ abandoned'["general"] <= abandoned["general"]
        /\ abandoned'["reserved"] <= abandoned["reserved"]
    BY <1>0, <1>1, <2>1
  <2>3. NoneAbandoned
    BY <2>1, <2>2, <1>0, <1>1 DEF NoneAbandoned
  <2>4. NoNewcomer
    BY <2>1 DEF NoNewcomer
  <2> QED
    BY <2>3, <2>4, <1>0, Fewer
<1> USE DEF memory
<1>15. ASSUME NEW j \in Jobs, GoStale(j) \/ BecomeDue(j) PROVE SlotBound'
  BY <1>14, <1>15 DEF GoStale, BecomeDue
<1>16. ASSUME NEW purged \in SUBSET Jobs, Tick(purged) PROVE SlotBound'
  BY <1>14, <1>16 DEF Tick
<1>17. CASE Process
  BY <1>11, <1>12, <1>13, <1>14, <1>17, <1>19
  DEF Process, Defer, LoopFails, StorageFreed, RequestStop, StuckStop,
      BeginDrain, Exit, DrainFails, Crash, Restart
<1>18. CASE User \/ UNCHANGED vars
  BY <1>14, <1>18 DEF User, vars
<1> QED
  BY <1>4, <1>5, <1>6, <1>7, <1>8, <1>9, <1>10, <1>15, <1>16, <1>17, <1>18
  DEF Next, Execution

\* What is at work is in _running, where the slots are counted.
LEMMA AtWorkIsTracked ==
    ASSUME Typed, Own
    PROVE  /\ Cardinality(AtWork("general")) <= Cardinality(General) /\ Cardinality(AtWork("general")) \in Nat
           /\ Cardinality(AtWork("reserved")) <= Cardinality(Reserved) /\ Cardinality(AtWork("reserved")) \in Nat
<1>1. ASSUME NEW e \in Execs, exec[e].phase \notin {"idle", "failing"}
      PROVE  exec[e].job \in Jobs /\ table[exec[e].job] = e /\ exec[e].reserved \in BOOLEAN
  BY <1>1 DEF Own, InTheTable, Registered, Typed, Named, ExecTypes, RunningJob, Phases
<1>2. ASSUME NEW S, NEW T, IsFiniteSet(T), S \subseteq Execs,
             \A e \in S : exec[e].job \in T /\ table[exec[e].job] = e
      PROVE  Cardinality(S) <= Cardinality(T) /\ Cardinality(S) \in Nat
  <2> DEFINE f == [e \in S |-> exec[e].job]
  <2>1. f \in Injection(S, T)
    BY <1>2 DEF Injection, IsInjective
  <2> QED
    BY <1>2, <2>1, FS_Injection, FS_CardinalityType
<1>3. \A e \in AtWork("general") : exec[e].job \in General /\ table[exec[e].job] = e
  BY <1>1, RunnerAssumption DEF AtWork, SlotOf, General, Tracked
<1>4. \A e \in AtWork("reserved") : exec[e].job \in Reserved /\ table[exec[e].job] = e
  BY <1>1, RunnerAssumption DEF AtWork, SlotOf, Reserved, Tracked
<1>5. AtWork("general") \subseteq Execs /\ AtWork("reserved") \subseteq Execs
  BY DEF AtWork
<1>6. Cardinality(AtWork("general")) <= Cardinality(General) /\ Cardinality(AtWork("general")) \in Nat
  BY <1>2, <1>3, <1>5, CountsFinite
<1>7. Cardinality(AtWork("reserved")) <= Cardinality(Reserved) /\ Cardinality(AtWork("reserved")) \in Nat
  BY <1>2, <1>4, <1>5, CountsFinite
<1> QED
  BY <1>6, <1>7

\* While no heartbeat stalls, the general executions, the claimed job and the
\* threads stuck general jobs left busy are at most Concurrency, and one job at a
\* time has the reserved slot.
THEOREM Threads == ASSUME NeverStalls PROVE Spec => []ThreadsSuffice
<1>1. Init => SlotBound
  <2> SUFFICES ASSUME Init PROVE SlotBound
    OBVIOUS
  <2>1. General = {} /\ Reserved = {} /\ Claimed("general") = 0 /\ Claimed("reserved") = 0
        /\ abandoned["general"] = 0 /\ abandoned["reserved"] = 0 /\ stuck = 0
    BY DEF Init, Fresh, General, Reserved, Tracked, Claimed, SlotKinds
  <2>2. Concurrency \in Nat
    BY RunnerAssumption
  <2> QED
    BY <2>1, <2>2, FS_EmptySet DEF SlotBound, OnDemandSlots
<1>2. SlotBound /\ Typed /\ Own => ThreadsSuffice
  <2> SUFFICES ASSUME SlotBound, Typed, Own PROVE ThreadsSuffice
    OBVIOUS
  <2>1. Claimed("general") \in Nat /\ Claimed("reserved") \in Nat /\ abandoned["general"] \in Nat
        /\ Concurrency \in Nat /\ OnDemandSlots \in Nat
    BY RunnerAssumption DEF Claimed, SlotOf, SlotKinds, Typed, ProcessTypes, OnDemandSlots
  <2>2. /\ Cardinality(General) + Claimed("general") + abandoned["general"] <= Concurrency
        /\ Cardinality(Reserved) + Claimed("reserved") <= OnDemandSlots
    BY DEF SlotBound
  <2> QED
    BY <2>1, <2>2, AtWorkIsTracked, CountsFinite DEF ThreadsSuffice
<1> QED
  BY <1>1, <1>2, StepSlots, OwnAlways, TypedAlways, PTL DEF Spec

-----------------------------------------------------------------------------
\* Nothing moves without a cause.  Each part of EndsHaveCause follows from Own.

\* Whoever finishes or gives back a row holds it: the row still runs, or is gone.
LEMMA HolderRow ==
    ASSUME Typed, Own, NEW e \in Execs, Live(e)
    PROVE  /\ exec[e].job \in Jobs /\ job[exec[e].job].status \in {"running", "gone"}
           /\ job[exec[e].job].status = "running" =>
                  job[exec[e].job].attempt = exec[e].attempt /\ exec[e].attempt > 0
BY DEF Own, RowsHeld, RowHeld, Deleted, Typed, Named, Live

\* A job that just lost its last holder is left running only for a cause.
OrphanCause ==
    \/ left'["crash"] < left["crash"] \/ left'["fault"] < left["fault"]
    \/ \E e \in Execs : exec[e].phase = "leftover" /\ ~Q!Exists(exec[e].job)

\* A misfortune uses up one of its kind.
LEMMA SpendLess ==
    ASSUME Typed, NEW h \in Hazards, Spend(h)
    PROVE  left'[h] < left[h]
BY DEF Typed, ProcessTypes, Spend

\* A finished job stays as it finished.
LEMMA TerminalStep ==
    ASSUME Typed, Own, [Next]_vars, NEW j \in Jobs, job[j].status \in Q!Finished
    PROVE  job'[j] = job[j] \/ job'[j].status = "gone"
<1>0. Q!TypeOK /\ job[j].status \notin {"unborn", "queued", "running", "gone"}
  BY DEF Typed, Q!Finished
<1>1. ~Held(j)
  BY <1>0, HeldRunning DEF Deleted
<1> USE DEF Q!TypeOK, Q!Row
<1>2. ASSUME NEW k \in Jobs, NEW b \in BOOLEAN, ClaimOne(k, b) PROVE job'[j] = job[j]
  BY <1>0, <1>2 DEF ClaimOne, Q!Claim, Q!Claimable
<1>3. ASSUME NEW k \in Jobs, GoStale(k) \/ BecomeDue(k) PROVE job'[j] = job[j]
  BY <1>0, <1>3 DEF GoStale, BecomeDue, Q!GoStale, Q!BecomeDue
<1>4. ASSUME NEW e \in Execs, Settle(e) \/ FailStuck(e) \/ DrainRequeue(e) \/ MonitorPoll(e)
      PROVE  job'[j] = job[j]
  <2>1. exec[e].job # j
    BY <1>1 DEF Held
  <2> QED
    BY <1>0, <1>4, <2>1 DEF Settle, Settled, FailStuck, DrainRequeue, MonitorPoll, Q!Finish,
                            Q!Requeue, Q!Heartbeat
<1>5. ASSUME NEW e \in Execs,
             Start(e) \/ SoftTimeout(e) \/ MarkStuck(e) \/ \E o \in Outcomes : HandlerReturn(e, o)
      PROVE  job'[j] = job[j]
  BY <1>5 DEF Start, SoftTimeout, MarkStuck, HandlerReturn
<1>6. CASE Process
  BY <1>0, <1>6 DEF Process, Defer, LoopFails, AbandonedThreadEnds, StorageFreed, RequestStop,
      StuckStop, BeginDrain, DrainTimeout, Exit, DrainFails, Crash, Restart, Vanish, Q!Requeue
<1>7. ASSUME NEW purged \in SUBSET Jobs, Tick(purged)
      PROVE  job'[j] = job[j] \/ job'[j].status = "gone"
  BY <1>0, <1>7 DEF Tick, Q!Maintenance, Q!Stale, Q!InStatus
<1>8. CASE User
  <2>1. ASSUME NEW k \in Jobs, Q!Enqueue(k, TRUE) \/ Q!Cancel(k) PROVE job'[j] = job[j]
    BY <1>0, <2>1 DEF Q!Enqueue, Q!Cancel, Q!Cancelled
  <2>2. ASSUME NEW f \in Q!Feeds, Q!CancelForFeed(f) PROVE job'[j] = job[j]
    BY <1>0, <2>2 DEF Q!CancelForFeed, Q!Cancelled
  <2>3. ASSUME NEW f \in Q!Feeds, Q!DeleteFeed(f)
        PROVE  job'[j] = job[j] \/ job'[j].status = "gone"
    BY <1>0, <2>3 DEF Q!DeleteFeed
  <2> QED
    BY <1>8, <2>1, <2>2, <2>3 DEF User
<1>9. CASE UNCHANGED vars
  BY <1>9 DEF vars
<1> QED
  BY <1>2, <1>3, <1>4, <1>5, <1>6, <1>7, <1>8, <1>9 DEF Next, Execution

\* Only the settling of an execution that was told to stop cancels a running job.
LEMMA CancelStep ==
    ASSUME Typed, Own, [Next]_vars, NEW j \in Jobs, BecomesCancelled(j)
    PROVE  job[j].cancel \/ TimedOut(j) \/ (proc = "draining" /\ ~stop)
<1>0. Q!TypeOK /\ job[j].status = "running" /\ job'[j].status = "cancelled" /\ j \notin Archive
  BY DEF Typed, BecomesCancelled
<1>1. ~Deleted(j)
  BY <1>0 DEF Deleted
<1> USE DEF Q!TypeOK, Q!Row
<1>2. ASSUME NEW e \in Execs, Settle(e)
      PROVE  job[j].cancel \/ TimedOut(j) \/ (proc = "draining" /\ ~stop)
  <2>1. j = exec[e].job /\ exec[e].outcome = "cancelled" /\ ~ByShutdown(e)
    <3>1. Settled(e)
      BY <1>0, <1>2 DEF Settle
    <3> QED
      BY <1>0, <3>1 DEF Settled, Q!Finish, Q!Requeue, Q!Released
  <2>2. Caused(e) /\ exec[e].phase = "settling"
    BY <1>2 DEF Own, Causes, Settle, Live
  <2> QED
    BY <1>0, <1>1, <2>1, <2>2 DEF Caused, Asked, ByShutdown, TimedOut
<1>3. CASE job'[j].status \in {job[j].status, "queued", "failed", "gone"}
  BY <1>0, <1>3
<1>4. ASSUME NEW k \in Jobs, NEW b \in BOOLEAN,
             ClaimOne(k, b) \/ GoStale(k) \/ BecomeDue(k)
      PROVE  job'[j].status = job[j].status
  BY <1>0, <1>4 DEF ClaimOne, Q!Claim, GoStale, BecomeDue, Q!GoStale, Q!BecomeDue
<1>5. ASSUME NEW e \in Execs, FailStuck(e) \/ DrainRequeue(e) \/ MonitorPoll(e)
      PROVE  job'[j].status \in {job[j].status, "queued", "failed"}
  <2>1. CASE FailStuck(e)
    BY <1>0, <2>1 DEF FailStuck, Q!Finish
  <2>2. CASE DrainRequeue(e)
    BY <1>0, <2>2 DEF DrainRequeue, Q!Requeue, Q!Released
  <2>3. CASE MonitorPoll(e)
    BY <1>0, <2>3 DEF MonitorPoll, Q!Heartbeat
  <2> QED
    BY <1>5, <2>1, <2>2, <2>3
<1>6. ASSUME NEW e \in Execs,
             Start(e) \/ SoftTimeout(e) \/ MarkStuck(e) \/ \E o \in Outcomes : HandlerReturn(e, o)
      PROVE  job' = job
  BY <1>6 DEF Start, SoftTimeout, MarkStuck, HandlerReturn
<1>7. CASE Process
  <2>1. job'[j].status \in {job[j].status, "queued"}
    BY <1>0, <1>7 DEF Process, Defer, LoopFails, AbandonedThreadEnds, StorageFreed, RequestStop,
        StuckStop, BeginDrain, DrainTimeout, Exit, DrainFails, Crash, Restart, Vanish, Q!Requeue,
        Q!Released
  <2> QED
    BY <1>3, <2>1
<1>8. ASSUME NEW purged \in SUBSET Jobs, Tick(purged)
      PROVE  job'[j].status \in {job[j].status, "queued", "gone"}
  BY <1>0, <1>8 DEF Tick, Q!Maintenance
<1>9. CASE User
  <2>1. ASSUME NEW k \in Jobs, Q!Enqueue(k, TRUE) \/ Q!Cancel(k) PROVE job'[j].status = "running"
    BY <1>0, <2>1 DEF Q!Enqueue, Q!Cancel, Q!Cancelled
  <2>2. ASSUME NEW f \in Q!Feeds, Q!CancelForFeed(f) PROVE job'[j].status = "running"
    BY <1>0, <2>2 DEF Q!CancelForFeed, Q!Cancelled
  <2>3. ASSUME NEW f \in Q!Feeds, Q!DeleteFeed(f) PROVE job'[j].status \in {"running", "gone"}
    BY <1>0, <2>3 DEF Q!DeleteFeed
  <2> QED
    BY <1>0, <1>9, <2>1, <2>2, <2>3 DEF User
<1>10. CASE UNCHANGED vars
  BY <1>0, <1>10 DEF vars
<1> QED
  BY <1>2, <1>3, <1>4, <1>5, <1>6, <1>7, <1>8, <1>9, <1>10 DEF Next, Execution

\* Only a claim makes a row running.
LEMMA OnlyClaimStarts ==
    ASSUME Typed, [Next]_vars, ~Claims, NEW j \in Jobs, job'[j].status = "running"
    PROVE  job[j].status = "running"
<1>0. Q!TypeOK
  BY DEF Typed
<1> USE DEF Q!TypeOK, Q!Row
<1>1. CASE UNCHANGED job
  BY <1>1
<1>2. ASSUME NEW k \in Jobs, GoStale(k) \/ BecomeDue(k) PROVE job[j].status = "running"
  BY <1>0, <1>2 DEF GoStale, BecomeDue, Q!GoStale, Q!BecomeDue
<1>3. ASSUME NEW e \in Execs, FailStuck(e) \/ Settle(e) PROVE job[j].status = "running"
  BY <1>0, <1>3 DEF FailStuck, Settle, Settled, Q!Finish, Q!Requeue, Q!Released
<1>4. ASSUME NEW e \in Execs, DrainRequeue(e) \/ MonitorPoll(e) PROVE job[j].status = "running"
  BY <1>0, <1>4 DEF DrainRequeue, MonitorPoll, Q!Requeue, Q!Released, Q!Heartbeat
<1>5. ASSUME NEW e \in Execs,
             Start(e) \/ SoftTimeout(e) \/ MarkStuck(e) \/ \E o \in Outcomes : HandlerReturn(e, o)
      PROVE  job' = job
  BY <1>5 DEF Start, SoftTimeout, MarkStuck, HandlerReturn
<1>6. CASE Defer
  BY <1>0, <1>6 DEF Defer, Q!Requeue, Q!Released
<1>7. CASE Process /\ ~Defer
  BY <1>1, <1>7 DEF Process, LoopFails, AbandonedThreadEnds, StorageFreed, RequestStop,
      StuckStop, BeginDrain, DrainTimeout, Exit, DrainFails, Crash, Restart, Vanish
<1>8. ASSUME NEW purged \in SUBSET Jobs, Tick(purged) PROVE job[j].status = "running"
  BY <1>0, <1>8 DEF Tick, Q!Maintenance
<1>9. CASE User
  <2>1. ASSUME NEW k \in Jobs, Q!Enqueue(k, TRUE) \/ Q!Cancel(k) PROVE job[j].status = "running"
    BY <1>0, <2>1 DEF Q!Enqueue, Q!Unborn, Q!Cancel, Q!Cancelled
  <2>2. ASSUME NEW f \in Q!Feeds, Q!CancelForFeed(f) PROVE job[j].status = "running"
    BY <1>0, <2>2 DEF Q!CancelForFeed, Q!Cancelled
  <2>3. ASSUME NEW f \in Q!Feeds, Q!DeleteFeed(f) PROVE job[j].status = "running"
    BY <1>0, <2>3 DEF Q!DeleteFeed
  <2> QED
    BY <1>9, <2>1, <2>2, <2>3 DEF User
<1> QED
  BY <1>1, <1>2, <1>3, <1>4, <1>5, <1>6, <1>7, <1>8, <1>9
  DEF Next, Execution, Process, Claims, vars

\* A row is left running without an execution only by a crash, a failing
\* database write, or a drain that died on a deleted row.
LEMMA OrphanStep ==
    ASSUME Typed, Own, [Next]_vars, NEW j \in Jobs, ~Orphan(j), Orphan(j)'
    PROVE  OrphanCause
<1>0. Q!TypeOK /\ exec \in [Execs -> RunningJob] /\ TableAgrees /\ Named
      /\ job'[j].status = "running" /\ ~Held(j)'
  BY DEF Typed, ExecTypes, Orphan
<1>1. ASSUME NEW h \in {"crash", "fault"}, Spend(h) PROVE OrphanCause
  BY <1>1, SpendLess DEF OrphanCause, Hazards
<1>2. ASSUME NEW k \in Jobs, NEW b \in BOOLEAN, ClaimOne(k, b) PROVE FALSE
  <2>1. k = j => Held(j)'
    BY <1>2, ClaimedIsFree DEF Held
  <2>2. k # j => job'[j] = job[j] /\ (Held(j) => Held(j)')
    BY <1>2, ClaimedIsFree, RunnerAssumption DEF Held, ClaimOne, Nothing
  <2> QED
    BY <1>0, <2>1, <2>2 DEF Orphan
<1> SUFFICES ASSUME ~Claims PROVE OrphanCause
  BY <1>2 DEF Claims
<1>3. Held(j) /\ job[j].status = "running"
  BY <1>0, OnlyClaimStarts DEF Orphan
<1>4. CASE pending' = pending /\ \A e \in Execs : exec'[e].job = exec[e].job
  BY <1>0, <1>3, <1>4 DEF Held
<1>5. ASSUME NEW e \in Execs, Start(e) PROVE FALSE
  <2>1. exec'[e].job = pending.job
    BY <1>5, Started DEF Idle
  <2>2. \A f \in Execs : f # e => exec'[f] = exec[f]
    BY <1>5, Started
  <2>3. exec[e].job = NoJob
    BY <1>5, Started DEF Own, OneHolder
  <2> QED
    BY <1>0, <1>3, <2>1, <2>2, <2>3, RunnerAssumption DEF Held
<1>6. ASSUME NEW e \in Execs, FailStuck(e) \/ Settle(e) \/ DrainRequeue(e) PROVE OrphanCause
  <2>1. exec' = [exec EXCEPT ![e] = Idle] /\ pending' = pending
    BY <1>6 DEF FailStuck, Settle, DrainRequeue, Done
  <2>2. exec[e].job = j
    BY <1>0, <1>3, <2>1 DEF Held
  <2>3. CASE Spend("fault")
    BY <1>1, <2>3
  <2>4. CASE ~Q!Exists(exec[e].job)
    BY <1>3, <2>2, <2>4 DEF Q!Exists
  <2>6. CASE Settled(e)
    BY ZenonT(40), <1>0, <1>3, <2>2, <2>6 DEF Settled, Q!Finish, Q!Requeue, Q!Released, Q!TypeOK, Q!Row, Q!Finished
  <2>7. CASE Q!Finish(exec[e].job, "failed")
    BY <1>0, <1>3, <2>2, <2>7 DEF Q!Finish, Q!TypeOK, Q!Row
  <2>8. CASE Q!Requeue(exec[e].job, TRUE, FALSE)
    BY <1>0, <1>3, <2>2, <2>8 DEF Q!Requeue, Q!Released, Q!TypeOK, Q!Row
  <2> QED
    BY <1>6, <2>3, <2>4, <2>6, <2>7, <2>8 DEF FailStuck, Settle, DrainRequeue
<1>7. CASE Defer
  <2>1. exec' = exec
    BY <1>7 DEF Defer
  <2>2. pending.job = j
    BY <1>0, <1>3, <2>1 DEF Held
  <2> QED
    BY <1>0, <1>3, <1>7, <2>2 DEF Defer, Q!Requeue, Q!Released, Q!TypeOK, Q!Row
<1>8. CASE exec' = CancelTokens /\ pending' = pending
  BY <1>0, <1>4, <1>8 DEF CancelTokens, RunningJob
<1>9. CASE LoopFails
  <2>1. CASE Spend("fault")
    BY <1>1, <2>1
  <2>2. CASE pending # Nothing /\ ~Q!Exists(pending.job)
    <3>1. pending.job # j
      BY <1>3, <2>2 DEF Q!Exists
    <3>2. \A e \in Execs : exec'[e].job = exec[e].job
      BY <1>0, <1>9 DEF LoopFails, CancelTokens, RunningJob
    <3> QED
      BY <1>0, <1>3, <3>1, <3>2 DEF Held
  <2> QED
    BY <1>9, <2>1, <2>2 DEF LoopFails
<1>10. CASE DrainTimeout
  BY <1>0, <1>4, <1>10 DEF DrainTimeout, RunningJob
<1>11. CASE Exit
  <2>1. pending.job # j
    BY <1>11, RunnerAssumption DEF Exit, Own, InTheTable, Nothing
  <2>2. PICK e \in Execs : exec[e].job = j
    BY <1>3, <2>1 DEF Held
  <2>3. exec[e].phase \notin Registered
    BY <1>11, <2>2 DEF Exit, Own, InTheTable, InTable
  <2>4. exec[e].phase = "failing"
    BY <1>0, <2>2, <2>3, RunnerAssumption
    DEF RunningJob, Phases, Registered, Own, OneHolder
  <2> QED
    BY <1>1, <1>11, <2>4 DEF Exit
<1>12. CASE DrainFails
  BY <1>12 DEF DrainFails, OrphanCause
<1>13. CASE Crash
  BY <1>1, <1>13 DEF Crash
<1>14. ASSUME NEW e \in Execs, MonitorPoll(e) PROVE OrphanCause
  BY <1>0, <1>4, <1>14 DEF MonitorPoll, RunningJob
<1>15. ASSUME NEW e \in Execs, SoftTimeout(e) PROVE OrphanCause
  BY <1>0, <1>4, <1>15 DEF SoftTimeout, RunningJob
<1>16. ASSUME NEW e \in Execs, MarkStuck(e) PROVE OrphanCause
  BY <1>0, <1>4, <1>16 DEF MarkStuck, RunningJob
<1>17. ASSUME NEW e \in Execs, NEW o \in Outcomes, HandlerReturn(e, o) PROVE OrphanCause
  BY <1>0, <1>4, <1>17 DEF HandlerReturn, RunningJob
<1>18. CASE Process
  BY <1>4, <1>7, <1>8, <1>9, <1>10, <1>11, <1>12, <1>13, <1>18
  DEF Process, AbandonedThreadEnds, StorageFreed, RequestStop, StuckStop, BeginDrain, Restart,
      memory
<1>19. CASE User \/ (\E purged \in SUBSET Jobs : Tick(purged))
            \/ (\E k \in Jobs : GoStale(k) \/ BecomeDue(k)) \/ UNCHANGED vars
  BY <1>4, <1>19 DEF User, Tick, GoStale, BecomeDue, vars, memory
<1> QED
  BY <1>5, <1>6, <1>14, <1>15, <1>16, <1>17, <1>18, <1>19 DEF Next, Execution, Claims

\* A counted retry is granted below max_attempts only.
LEMMA RetryStep ==
    ASSUME Typed, Own, [Next]_vars, NEW j \in Jobs,
           job[j].status = "running", job'[j].status = "queued",
           job'[j].attempt = job[j].attempt, job[j].attempt >= MaxAttempts[j]
    PROVE  ~job[j].fresh
<1>0. Q!TypeOK /\ exec \in [Execs -> RunningJob] /\ MaxAttempts \in [Jobs -> Nat]
  BY RunnerAssumption DEF Typed, ExecTypes
<1> USE DEF Q!TypeOK, Q!Row
<1>1. CASE job'[j].status = job[j].status
  BY <1>1
<1>2. ASSUME NEW k \in Jobs, NEW b \in BOOLEAN,
             ClaimOne(k, b) \/ GoStale(k) \/ BecomeDue(k)
      PROVE  ~job[j].fresh
  BY <1>0, <1>2 DEF ClaimOne, Q!Claim, Q!Claimable, GoStale, BecomeDue, Q!GoStale, Q!BecomeDue
<1>3. ASSUME NEW e \in Execs, FailStuck(e) \/ MonitorPoll(e) PROVE ~job[j].fresh
  BY <1>0, <1>3 DEF FailStuck, MonitorPoll, Q!Finish, Q!Heartbeat
<1>4. ASSUME NEW k, NEW b, Q!Requeue(k, b, FALSE), j = k => job[k].attempt > 0 PROVE FALSE
  BY <1>0, <1>4 DEF Q!Requeue, Q!Released, Q!Counted
<1>5. ASSUME NEW e \in Execs, Settle(e) \/ DrainRequeue(e) PROVE ~job[j].fresh
  <2>0. Live(e)
    BY <1>5 DEF Settle, DrainRequeue, Live
  <2>1. job[exec[e].job].status = "running" =>
            job[exec[e].job].attempt = exec[e].attempt /\ exec[e].attempt > 0
    BY <2>0, HolderRow
  <2>2. CASE \E b \in BOOLEAN : Q!Requeue(exec[e].job, b, FALSE)
    BY <1>4, <2>1, <2>2
  <2>3. CASE UNCHANGED job
    BY <2>3
  <2>4. CASE \E s \in Q!Finished : Q!Finish(exec[e].job, s)
    BY <1>0, <2>4 DEF Q!Finish, Q!Finished
  <2>5. CASE Q!Requeue(exec[e].job, FALSE, TRUE) /\ Retryable(e)
    <3>1. exec[e].job = j
      BY <1>0, <2>5 DEF Q!Requeue
    <3>2. exec[e].attempt < MaxAttempts[exec[e].job] /\ exec[e].attempt = job[j].attempt
      BY <2>1, <2>5, <3>1 DEF Retryable
    <3> QED
      BY <1>0, <3>1, <3>2
  <2>6. CASE Settled(e)
    BY <2>2, <2>4, <2>5, <2>6 DEF Settled, Q!Finished
  <2> QED
    BY <1>5, <2>2, <2>3, <2>6 DEF Settle, DrainRequeue
<1>6. ASSUME NEW e \in Execs,
             Start(e) \/ SoftTimeout(e) \/ MarkStuck(e) \/ \E o \in Outcomes : HandlerReturn(e, o)
      PROVE  job' = job
  BY <1>6 DEF Start, SoftTimeout, MarkStuck, HandlerReturn
<1>7. CASE Defer
  <2>1. pending.job = j => job[j].attempt > 0
    BY <1>7 DEF Defer, Own, RowsHeld, RowHeld, Deleted
  <2> QED
    BY <1>4, <1>7, <2>1 DEF Defer
<1>8. CASE Process /\ ~Defer
  BY <1>1, <1>8 DEF Process, LoopFails, AbandonedThreadEnds, StorageFreed, RequestStop,
      StuckStop, BeginDrain, DrainTimeout, Exit, DrainFails, Crash, Restart, Vanish
<1>9. ASSUME NEW purged \in SUBSET Jobs, Tick(purged) PROVE ~job[j].fresh
  BY <1>0, <1>9 DEF Tick, Q!Maintenance, Q!Stale, Q!InStatus
<1>10. CASE User
  <2>1. ASSUME NEW k \in Jobs, Q!Enqueue(k, TRUE) \/ Q!Cancel(k) PROVE FALSE
    BY <1>0, <2>1 DEF Q!Enqueue, Q!Unborn, Q!Cancel, Q!Cancelled
  <2>2. ASSUME NEW f \in Q!Feeds, Q!CancelForFeed(f) PROVE FALSE
    BY <1>0, <2>2 DEF Q!CancelForFeed, Q!Cancelled
  <2>3. ASSUME NEW f \in Q!Feeds, Q!DeleteFeed(f) PROVE FALSE
    BY <1>0, <2>3 DEF Q!DeleteFeed
  <2> QED
    BY <1>10, <2>1, <2>2, <2>3 DEF User
<1>11. CASE UNCHANGED vars
  BY <1>11 DEF vars
<1> QED
  BY <1>1, <1>2, <1>3, <1>5, <1>6, <1>7, <1>8, <1>9, <1>10, <1>11 DEF Next, Execution, Process

\* While no heartbeat stalls, no row moves from where it was left, is cancelled,
\* lost by the worker or retried without one of the causes the code knows.
THEOREM Causality == ASSUME NeverStalls PROVE Spec => EndsHaveCause
<1>1. ASSUME Typed, Own, [Next]_vars
      PROVE  /\ [\A j \in Jobs : job[j].status \in Q!Finished =>
                    job'[j] = job[j] \/ job'[j].status = "gone"]_vars
             /\ [\A j \in Jobs : BecomesCancelled(j) =>
                    job[j].cancel \/ TimedOut(j) \/ (proc = "draining" /\ ~stop)]_vars
  BY <1>1, TerminalStep, CancelStep
<1>2. ASSUME Typed, Own, [Next]_vars
      PROVE  [\A j \in Jobs : (~Orphan(j) /\ Orphan(j)') =>
                  \/ left'["crash"] < left["crash"] \/ left'["fault"] < left["fault"]
                  \/ \E e \in Execs : exec[e].phase = "leftover" /\ ~Q!Exists(exec[e].job)]_vars
  BY <1>2, OrphanStep DEF OrphanCause
<1>3. ASSUME Typed, Own, [Next]_vars
      PROVE  [\A j \in Jobs :
                (/\ job[j].status = "running" /\ job'[j].status = "queued"
                 /\ job'[j].attempt = job[j].attempt /\ job[j].attempt >= MaxAttempts[j])
                => ~job[j].fresh]_vars
  BY <1>3, RetryStep
<1> QED
  BY <1>1, <1>2, <1>3, OwnAlways, TypedAlways, PTL
  DEF Spec, EndsHaveCause, TerminalStays, CancelHasCause, OrphansHaveCause, CountedRetries

=============================================================================
