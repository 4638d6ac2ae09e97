------------------------------- MODULE Runner -------------------------------
(***************************************************************************)
(* The worker process of Copycast: the Runner that claims jobs, runs each  *)
(* on a thread with a monitor beside it, settles their outcomes, abandons  *)
(* the unresponsive ones and drains on shutdown (worker/runner.py), with   *)
(* the scheduler's maintenance (worker/scheduler.py) and the users' calls. *)
(*                                                                         *)
(* An action is what happens between two awaits that matter: a database    *)
(* transaction, with the in-memory assignments around it.  The jobs table  *)
(* only changes through JobQueue, which Runner therefore implements.       *)
(***************************************************************************)
EXTENDS Integers, FiniteSets

CONSTANTS
    Jobs, FeedOf, ItemOf, KeyOf, OnDemand, NoFeed, NoItem,  \* see JobQueue
    Archive,        \* the jobs of kind archive_item
    MaxAttempts,    \* jobs.max_attempts, by the kind of the job
    Concurrency,    \* general slots (refresh.concurrency)
    Execs,          \* bound: executions alive at once
    Scenarios,      \* bounds: how often each kind of misfortune, and a first play, happens
    NoJob, NoExec

OnDemandSlots == 1

Hazards == {"crash", "stall", "fault", "stop", "wait", "play"}

ASSUME RunnerAssumption ==
    /\ IsFiniteSet(Jobs)
    /\ OnDemand \subseteq Archive /\ Archive \subseteq Jobs
    /\ MaxAttempts \in [Jobs -> Nat] /\ Concurrency \in Nat \ {0}
    /\ Scenarios \subseteq [Hazards -> Nat]
    /\ NoJob \notin Jobs /\ NoExec \notin Execs

VARIABLES
    job,            \* the jobs table
    proc,           \* "up": run() loops; "draining": in drain(); "down": no process
    stop,           \* stop_event is set
    pending,        \* the job claim_available holds between claim and _start
    table,          \* _running: the execution registered for a job id
    exec,           \* the RunningJob records with their tasks
    stuck,          \* _stuck
    abandoned,      \* threads of stuck jobs still running, by the slot of the job
    quarantined,    \* feeds refused after an unresponsive job
    full,           \* storage_full_until lies ahead
    left            \* what remains of a scenario

Q == INSTANCE JobQueue WITH job <- job

ASSUME ItemsHaveAFeed == Q!QueueAssumption

memory == <<pending, table, exec, stuck, abandoned, quarantined, full>>
vars   == <<job, proc, stop, memory, left>>

Outcomes == {"success", "cancelled", "storageFull", "notReady", "permanent", "transient"}
Phases   == {"idle", "running", "settling", "failing", "leftover"}

SlotKinds == {"general", "reserved"}
SlotOf(x) == IF x.reserved THEN "reserved" ELSE "general"

Idle == [job |-> NoJob, phase |-> "idle", reserved |-> FALSE, attempt |-> 0, token |-> FALSE,
         user |-> FALSE, timedOut |-> FALSE, outcome |-> "success"]
Nothing == [job |-> NoJob, reserved |-> FALSE, attempt |-> 0]

Fresh ==    \* a Runner just constructed
    /\ pending = Nothing
    /\ table = [j \in Jobs |-> NoExec]
    /\ exec = [e \in Execs |-> Idle]
    /\ stuck = 0 /\ abandoned = [s \in SlotKinds |-> 0]
    /\ quarantined = {}
    /\ full = FALSE

Init ==
    /\ Q!Init
    /\ proc = "up" /\ stop = FALSE
    /\ Fresh
    /\ left \in Scenarios

Spend(h) == left[h] > 0 /\ left' = [left EXCEPT ![h] = @ - 1]

-----------------------------------------------------------------------------
(* Slots and tokens.                                                        *)
Tracked(j) == table[j] # NoExec
General  == {j \in Jobs : Tracked(j) /\ ~exec[table[j]].reserved}
Reserved == {j \in Jobs : Tracked(j) /\ exec[table[j]].reserved}

FreeSlotsOfTable(onDemand) ==   \* mutant: a thread left behind gives its slot back
    IF onDemand THEN OnDemandSlots - Cardinality(Reserved)
                ELSE Concurrency - Cardinality(General)

FreeSlots(onDemand) ==
    IF onDemand THEN OnDemandSlots - Cardinality(Reserved)
                ELSE Concurrency - Cardinality(General) - stuck

InTable == {e \in Execs : \E j \in Jobs : table[j] = e}
CancelTokens == [e \in Execs |-> IF e \in InTable THEN [exec[e] EXCEPT !.token = TRUE]
                                                  ELSE exec[e]]

(* The execution leaves its task; _running.pop(job.id) removes whatever is  *)
(* registered under the job id by then.                                     *)
Pop(j)  == table' = [table EXCEPT ![j] = NoExec]
Done(e) == exec' = [exec EXCEPT ![e] = Idle]

-----------------------------------------------------------------------------
(* claim_available: claim, then defer or start.  claim_available is called  *)
(* by the one run() task, so at most one job is between the two.            *)
ClaimInMemory(j, onDemand) ==   \* mutant: _running consulted, not the rows
    /\ proc = "up" /\ ~stop
    /\ pending = Nothing
    /\ FreeSlots(onDemand) > 0
    /\ job[j].status = "queued" /\ job[j].due
    /\ j \in OnDemand \/ \A k \in Jobs : Tracked(k) => FeedOf[k] # FeedOf[j]
    /\ job' = [job EXCEPT ![j].status = "running", ![j].fresh = TRUE, ![j].attempt = @ + 1]
    /\ pending' = [job |-> j, reserved |-> onDemand, attempt |-> job[j].attempt + 1]
    /\ UNCHANGED <<proc, stop, table, exec, stuck, abandoned, quarantined, full, left>>

ClaimOne(j, onDemand) ==
    /\ proc = "up" /\ ~stop
    /\ pending = Nothing
    /\ FreeSlots(onDemand) > 0
    /\ Q!Claim(j, onDemand)
    /\ pending' = [job |-> j, reserved |-> onDemand, attempt |-> job[j].attempt + 1]
    /\ UNCHANGED <<proc, stop, table, exec, stuck, abandoned, quarantined, full, left>>

Deferred(j) == FeedOf[j] \in quarantined \/ (j \in Archive /\ full)

Defer ==
    /\ pending # Nothing
    /\ Deferred(pending.job)
    /\ Q!Requeue(pending.job, FALSE, FALSE)
    /\ pending' = Nothing
    /\ UNCHANGED <<proc, stop, table, exec, stuck, abandoned, quarantined, full, left>>

Start(e) ==
    /\ pending # Nothing
    /\ ~Deferred(pending.job)
    /\ exec[e].phase = "idle"
    /\ exec' = [exec EXCEPT ![e] = [Idle EXCEPT !.job = pending.job, !.phase = "running",
                                                !.reserved = pending.reserved,
                                                !.attempt = pending.attempt]]
    /\ table' = [table EXCEPT ![pending.job] = e]
    /\ pending' = Nothing
    /\ UNCHANGED <<job, proc, stop, stuck, abandoned, quarantined, full, left>>

(* An exception in claim_available is caught nowhere: run() drains on its   *)
(* way out, with stop_event not set.  It is NotFound when the row to defer  *)
(* was deleted meanwhile, or a database error at any of the three awaits.   *)
LoopFails ==
    /\ proc = "up"
    /\ \/ pending # Nothing /\ Deferred(pending.job) /\ ~Q!Exists(pending.job)
          /\ UNCHANGED left
       \/ Spend("fault")
    /\ proc' = "draining"
    /\ pending' = Nothing
    /\ exec' = CancelTokens
    /\ UNCHANGED <<job, stop, table, stuck, abandoned, quarantined, full>>

-----------------------------------------------------------------------------
(* _execute and _monitor, one pair of tasks per execution.                  *)

(* The handler raises Cancelled for its token, or, for an archive, because  *)
(* its Mirror is Paused.  NotReady is an archive's.                         *)
HandlerReturn(e, o) ==
    /\ exec[e].phase = "running"
    /\ o = "cancelled" => exec[e].token \/ exec[e].job \in Archive
    /\ o = "notReady" => exec[e].job \in Archive
    /\ IF o \in {"storageFull", "notReady"} THEN Spend("wait") ELSE UNCHANGED left
    /\ exec' = [exec EXCEPT ![e] = [@ EXCEPT !.phase = "settling", !.outcome = o]]
    /\ UNCHANGED <<job, proc, stop, pending, table, stuck, abandoned, quarantined, full>>

MonitorPoll(e) ==
    LET j == exec[e].job
        ours == job[j].status = "running"
    IN  /\ exec[e].phase = "running"
        /\ Q!Heartbeat(j)
        /\ exec' = [exec EXCEPT ![e] = [exec[e] EXCEPT !.token = @ \/ ~ours \/ job[j].cancel,
                                                       !.user = @ \/ (ours /\ job[j].cancel)]]
        /\ UNCHANGED <<proc, stop, pending, table, stuck, abandoned, quarantined, full, left>>

SoftTimeout(e) ==
    /\ exec[e].phase = "running" /\ ~exec[e].timedOut
    /\ exec' = [exec EXCEPT ![e] = [@ EXCEPT !.timedOut = TRUE, !.token = TRUE]]
    /\ UNCHANGED <<job, proc, stop, pending, table, stuck, abandoned, quarantined, full, left>>

(* _mark_stuck up to its first await, then the shielded _fail_stuck.        *)
MarkStuck(e) ==
    LET j == exec[e].job IN
    /\ exec[e].phase = "running" /\ exec[e].timedOut
    /\ exec' = [exec EXCEPT ![e].phase = "failing"]
    /\ stuck' = stuck + 1
    /\ abandoned' = [abandoned EXCEPT ![SlotOf(exec[e])] = @ + 1]
    /\ quarantined' = quarantined \cup ({FeedOf[j]} \ {NoFeed})
    /\ Pop(j)
    /\ UNCHANGED <<job, proc, stop, pending, full, left>>

FailStuck(e) ==
    LET j == exec[e].job IN
    /\ exec[e].phase = "failing"
    /\ \/ Q!Finish(j, "failed") /\ UNCHANGED left
       \/ ~Q!Exists(j) /\ UNCHANGED <<job, left>>
       \/ Spend("fault") /\ UNCHANGED job
    /\ Done(e)
    /\ UNCHANGED <<proc, stop, pending, table, stuck, abandoned, quarantined, full>>

AbandonedThreadEnds(s) ==
    /\ abandoned[s] > 0
    /\ abandoned' = [abandoned EXCEPT ![s] = @ - 1]
    /\ UNCHANGED <<job, proc, stop, pending, table, exec, stuck, quarantined, full, left>>

(* _settle: the row as the outcome leaves it.                               *)
NeverShutdown(e) == FALSE                             \* mutant

ByShutdown(e) == stop /\ ~exec[e].user
Retryable(e)  == exec[e].attempt < MaxAttempts[exec[e].job]

Settled(e) ==
    LET j == exec[e].job
        o == exec[e].outcome
    IN  \/ o = "success" /\ Q!Finish(j, "succeeded")
        \/ o = "cancelled" /\ ByShutdown(e) /\ Q!Requeue(j, TRUE, FALSE)
        \/ o = "cancelled" /\ ~ByShutdown(e) /\ Q!Finish(j, "cancelled")
        \/ o \in {"storageFull", "notReady"} /\ Q!Requeue(j, FALSE, FALSE)
        \/ o = "permanent" /\ Q!Finish(j, "failed")
        \/ o = "transient" /\ Retryable(e) /\ Q!Requeue(j, FALSE, TRUE)
        \/ o = "transient" /\ ~Retryable(e) /\ Q!Finish(j, "failed")

(* A failing _settle (the row is gone, a database error) is only logged.    *)
Settle(e) ==
    LET j == exec[e].job IN
    /\ exec[e].phase = "settling"
    /\ \/ /\ Settled(e)
          /\ full' = (full \/ (exec[e].outcome = "storageFull" /\ j \in Archive))
          /\ UNCHANGED left
       \/ ~Q!Exists(j) /\ UNCHANGED <<job, full, left>>
       \/ Spend("fault") /\ UNCHANGED <<job, full>>
    /\ Pop(j)
    /\ Done(e)
    /\ UNCHANGED <<proc, stop, pending, stuck, abandoned, quarantined>>

StorageFreed ==
    /\ full
    /\ full' = FALSE
    /\ UNCHANGED <<job, proc, stop, pending, table, exec, stuck, abandoned, quarantined, left>>

-----------------------------------------------------------------------------
(* Shutdown: SIGTERM, or every slot lost to a stuck thread (exit code 3).   *)
RequestStop ==
    /\ proc # "down" /\ ~stop
    /\ Spend("stop")
    /\ stop' = TRUE
    /\ exec' = CancelTokens
    /\ UNCHANGED <<job, proc, pending, table, stuck, abandoned, quarantined, full>>

StuckStop ==
    /\ proc = "up" /\ ~stop /\ pending = Nothing
    /\ stuck >= Concurrency
    /\ stop' = TRUE
    /\ proc' = "draining"
    /\ exec' = CancelTokens
    /\ UNCHANGED <<job, pending, table, stuck, abandoned, quarantined, full, left>>

BeginDrain ==
    /\ proc = "up" /\ stop /\ pending = Nothing
    /\ proc' = "draining"
    /\ exec' = CancelTokens
    /\ UNCHANGED <<job, stop, pending, table, stuck, abandoned, quarantined, full, left>>

(* DRAIN_SECONDS passed: the tasks left are cancelled, a settling one with  *)
(* its transaction, and their jobs re-queued one by one.                    *)
DrainTimeout ==
    /\ proc = "draining"
    /\ \E e \in InTable : exec[e].phase \in {"running", "settling"}
    /\ exec' = [e \in Execs |-> IF e \in InTable THEN [exec[e] EXCEPT !.phase = "leftover"]
                                                 ELSE exec[e]]
    /\ UNCHANGED <<job, proc, stop, pending, table, stuck, abandoned, quarantined, full, left>>

DrainRequeue(e) ==
    LET j == exec[e].job IN
    /\ exec[e].phase = "leftover"
    /\ Q!Requeue(j, TRUE, FALSE)
    /\ Pop(j)
    /\ Done(e)
    /\ UNCHANGED <<proc, stop, pending, stuck, abandoned, quarantined, full, left>>

(* The process ends: drained, an exception out of drain() (the row of a     *)
(* leftover was deleted), or a crash.  Its memory goes, threads included.   *)
(* drain() does not wait for a _fail_stuck still in flight: that one is lost *)
(* when the process is gone first.                                          *)
Vanish ==
    /\ proc' = "down" /\ stop' = FALSE
    /\ pending' = Nothing
    /\ table' = [j \in Jobs |-> NoExec]
    /\ exec' = [e \in Execs |-> Idle]
    /\ stuck' = 0 /\ abandoned' = [s \in SlotKinds |-> 0]
    /\ quarantined' = {}
    /\ full' = FALSE
    /\ UNCHANGED job

Exit ==
    /\ proc = "draining"
    /\ InTable = {}
    /\ Vanish
    /\ IF \E e \in Execs : exec[e].phase = "failing" THEN Spend("fault") ELSE UNCHANGED left

DrainFails ==
    /\ \E e \in Execs : exec[e].phase = "leftover" /\ ~Q!Exists(exec[e].job)
    /\ Vanish
    /\ UNCHANGED left

Crash == proc # "down" /\ Spend("crash") /\ Vanish

Restart ==
    /\ proc = "down"
    /\ proc' = "up"
    /\ UNCHANGED <<job, stop, memory, left>>

-----------------------------------------------------------------------------
(* Scheduler, time and users.                                               *)
Held(j) == pending.job = j \/ \E e \in Execs : exec[e].job = j

Tick(purged) ==
    /\ proc # "down" /\ ~stop
    /\ \A j \in purged : ~Held(j)   \* JOB_RETENTION exceeds every timeout
    /\ Q!Maintenance(purged)
    /\ UNCHANGED <<proc, stop, memory, left>>

(* A heartbeat gets old when nobody sends it any more, or when the worker   *)
(* or its database stood still for STALE_HEARTBEAT.                         *)
GoStale(j) ==
    /\ Q!GoStale(j)
    /\ IF Held(j) THEN Spend("stall") ELSE UNCHANGED left
    /\ UNCHANGED <<proc, stop, memory>>

BecomeDue(j) == Q!BecomeDue(j) /\ UNCHANGED <<proc, stop, memory, left>>

User ==
    /\ \/ \E j \in Jobs : /\ Q!Enqueue(j, TRUE)
                          /\ IF j \in OnDemand THEN Spend("play") ELSE UNCHANGED left
       \/ (\E j \in Jobs : Q!Cancel(j)) /\ UNCHANGED left
       \/ (\E f \in Q!Feeds : Q!CancelForFeed(f) \/ Q!DeleteFeed(f)) /\ UNCHANGED left
    /\ UNCHANGED <<proc, stop, memory>>

-----------------------------------------------------------------------------
Execution(e) ==
    \/ Start(e) \/ MonitorPoll(e) \/ SoftTimeout(e) \/ MarkStuck(e) \/ FailStuck(e)
    \/ Settle(e) \/ DrainRequeue(e)
    \/ \E o \in Outcomes : HandlerReturn(e, o)

Process ==
    \/ Defer \/ LoopFails \/ StorageFreed
    \/ \E s \in SlotKinds : AbandonedThreadEnds(s)
    \/ RequestStop \/ StuckStop \/ BeginDrain \/ DrainTimeout
    \/ Exit \/ DrainFails \/ Crash \/ Restart

Next ==
    \/ \E j \in Jobs : \/ \E b \in BOOLEAN : ClaimOne(j, b)
                       \/ GoStale(j) \/ BecomeDue(j)
    \/ \E e \in Execs : Execution(e)
    \/ Process
    \/ \E purged \in SUBSET Jobs : Tick(purged)
    \/ User

Spec == Init /\ [][Next]_vars

(* Fairness.  The tasks of a live worker run, its timers fire, a supervisor *)
(* restarts it (restart: unless-stopped), and a claim that keeps becoming   *)
(* possible is made: the jobs ahead of it in priority are finitely many.    *)
(* Handlers need not return, users need not act, misfortunes need not come. *)
Fairness ==
    /\ \A j \in Jobs : /\ SF_vars(\E b \in BOOLEAN : ClaimOne(j, b))
                      /\ WF_vars(BecomeDue(j))
                      /\ WF_vars(~Held(j) /\ GoStale(j))
    /\ \A e \in Execs : /\ WF_vars(SoftTimeout(e)) /\ WF_vars(MarkStuck(e))
                       /\ WF_vars(FailStuck(e)) /\ WF_vars(Settle(e))
                       /\ WF_vars(MonitorPoll(e)) /\ WF_vars(DrainRequeue(e))
    /\ WF_vars(Defer) /\ WF_vars(\E e \in Execs : Start(e))
    /\ WF_vars(StorageFreed) /\ WF_vars(StuckStop) /\ WF_vars(BeginDrain)
    /\ WF_vars(DrainTimeout) /\ WF_vars(DrainFails) /\ WF_vars(Exit) /\ WF_vars(Restart)
    /\ WF_vars(pending # Nothing /\ ~Q!Exists(pending.job) /\ LoopFails)
    /\ WF_vars(Tick({}))

LiveSpec == Spec /\ Fairness

-----------------------------------------------------------------------------
RunningJob == [job : Jobs \cup {NoJob}, phase : Phases, reserved : BOOLEAN, attempt : Nat,
               token : BOOLEAN, user : BOOLEAN, timedOut : BOOLEAN, outcome : Outcomes]

ProcessTypes ==
    /\ proc \in {"up", "draining", "down"} /\ stop \in BOOLEAN
    /\ pending \in [job : Jobs \cup {NoJob}, reserved : BOOLEAN, attempt : Nat]
    /\ stuck \in Nat /\ abandoned \in [SlotKinds -> Nat]
    /\ quarantined \subseteq Q!Feeds
    /\ full \in BOOLEAN
    /\ left \in [Hazards -> Nat]

TypeOK ==
    /\ Q!TypeOK
    /\ ProcessTypes
    /\ table \in [Jobs -> Execs \cup {NoExec}]
    /\ exec \in [Execs -> RunningJob]

\* Every step of the worker, its scheduler and its users is a method of the
\* jobs table: the table's own guarantees (one active job per key, one
\* running job per feed) hold whatever the worker does.
QueueSpec == Q!Spec

\* Per-feed exclusivity of the table, which the worker inherits from it: of two
\* running rows of one feed at least one is an on-demand archive, whatever is
\* claimed, re-queued, drained and swept in between.
FeedExclusive == Q!FeedExclusive

\* While no heartbeat stalls, a job that is claimed for a general slot has a thread:
\* those of the general executions (settling and drained ones too) and those that
\* stuck general jobs left busy behind them are Concurrency at most.  The reserved
\* slot runs one job at a time likewise, but a stuck one gives it back with its
\* thread still busy: of that thread nothing is said.
AtWork(s) == {e \in Execs : exec[e].phase \notin {"idle", "failing"} /\ SlotOf(exec[e]) = s}
Claimed(s) == IF pending # Nothing /\ SlotOf(pending) = s THEN 1 ELSE 0

ThreadsSuffice ==
    /\ Cardinality(AtWork("general")) + Claimed("general") + abandoned["general"] <= Concurrency
    /\ Cardinality(AtWork("reserved")) + Claimed("reserved") <= OnDemandSlots

\* While no heartbeat stalls, an execution owns its row: it is the only one of
\* its job, and the row stays running (or is deleted) until the execution
\* itself moves it, across cancels, timeouts, drains, crashes and restarts.
Ownership ==
    \A e \in Execs : exec[e].phase # "idle" =>
        LET j == exec[e].job IN
        /\ job[j].status \in {"running", "gone"}
        /\ job[j].status = "running" => job[j].attempt = exec[e].attempt
        /\ pending.job # j
        /\ \A f \in Execs : exec[f].job = j => f = e

\* Per-feed exclusivity of what actually runs: two live executions of one
\* feed include an on-demand archive.
OneExecutionPerFeed ==
    \A e, f \in Execs :
        (e # f /\ exec[e].phase # "idle" /\ exec[f].phase # "idle"
            /\ FeedOf[exec[e].job] = FeedOf[exec[f].job] /\ FeedOf[exec[e].job] # NoFeed)
        => exec[e].job \in OnDemand \/ exec[f].job \in OnDemand

\* Both: what runs is what the table says runs, and once per feed.
ExecutionsOwn == Ownership /\ OneExecutionPerFeed

\* While no heartbeat stalls, a finished job stays as it finished: the
\* unguarded UPDATE of finish never hits a row with a terminal status.
TerminalStays ==
    [][\A j \in Jobs : job[j].status \in Q!Finished =>
            job'[j] = job[j] \/ job'[j].status = "gone"]_vars

\* A running job (not an archive, whose Mirror may be Paused) finishes
\* cancelled only because it was flagged, or because its soft timeout struck,
\* or because the claim loop died of an error: drain() then sets the tokens
\* although nobody asked the process to stop.
TimedOut(j) == \E e \in Execs : exec[e].job = j /\ exec[e].timedOut
BecomesCancelled(j) ==
    job[j].status = "running" /\ job'[j].status = "cancelled" /\ j \notin Archive

CancelHasCause ==
    [][\A j \in Jobs : BecomesCancelled(j) =>
            job[j].cancel \/ TimedOut(j) \/ (proc = "draining" /\ ~stop)]_vars

\* A row is left running without an execution only by a crash, a failing
\* database write, or a drain that died on a deleted row: an orderly shutdown
\* takes every claimed job back to the queue or to its end.
Orphan(j) == job[j].status = "running" /\ ~Held(j)

OrphansHaveCause ==
    [][\A j \in Jobs : (~Orphan(j) /\ Orphan(j)') =>
            \/ left'["crash"] < left["crash"] \/ left'["fault"] < left["fault"]
            \/ \E e \in Execs : exec[e].phase = "leftover" /\ ~Q!Exists(exec[e].job)]_vars

\* A retry that counts is granted below max_attempts only: a row that used
\* its last attempt goes back to the queue uncounted or by the stale sweep.
CountedRetries ==
    [][\A j \in Jobs :
          (/\ job[j].status = "running" /\ job'[j].status = "queued"
           /\ job'[j].attempt = job[j].attempt /\ job[j].attempt >= MaxAttempts[j])
          => ~job[j].fresh]_vars

\* All four: no row moves from where it was left, is cancelled, lost or retried
\* without one of the causes the code knows.
EndsHaveCause == TerminalStays /\ CancelHasCause /\ OrphansHaveCause /\ CountedRetries

\* Every queued job ends, or its feed is quarantined, whatever crashes,
\* restarts, lost heartbeats and stuck threads come in between.
JobsEnd ==
    \A j \in Jobs : job[j].status = "queued" ~>
        (job[j].status \in Q!Finished \cup {"gone"} \/ FeedOf[j] \in quarantined)

\* A cancel of a running job is honoured: the job ends, also when the worker
\* dies or re-queues it before its monitor saw the flag.
CancelHonoured ==
    \A j \in Jobs : (job[j].status = "running" /\ job[j].cancel) ~>
        (job[j].status \in Q!Finished \cup {"gone"} \/ FeedOf[j] \in quarantined)
=============================================================================
