-------------------------------- MODULE Health --------------------------------
(***************************************************************************)
(* What the api says of the instance (application/services/status.py,      *)
(* adapters/api/health.py) against what is the case.  Of the worker it     *)
(* knows the last heartbeat a worker wrote, and that row stays when the    *)
(* worker is gone.  The worker's own readiness (worker/health.py) reads    *)
(* its memory.  A tick is a heartbeat interval, half a scheduler's.        *)
(***************************************************************************)
EXTENDS Integers

CONSTANTS
    Stale,          \* WORKER_STALE_SECONDS: heartbeats missed
    SchedulerStale, \* SCHEDULER_STALE_SECONDS, in ticks
    Far,            \* bound: ages are not told apart from here on
    Never,          \* the age of what has not happened
    TroublesMax     \* bound: deaths, outages, stalls

ASSUME HealthAssumption ==
    /\ Stale \in Nat \ {0} /\ SchedulerStale \in Nat /\ Far \in Nat /\ Never \in Nat
    /\ Stale + 2 <= Far /\ SchedulerStale + 2 <= Far /\ Far < Never
    /\ TroublesMax \in Nat

VARIABLES
    worker,     \* the process: up, draining or down; the ages of its start, beat, tick; pauses
    wedged,     \* its scheduler does not return, its loop does not turn
    row,        \* worker_heartbeats, the latest: its age, and its status
    infra,      \* Postgres, the schema, the Object store
    known,      \* for how many ticks the worker has been gone, or beating
    troubles    \* what was used up of TroublesMax

healthVars == <<worker, wedged, row, infra, known, troubles>>

Ages == 0 .. Far
Older(age) == IF age \in {Far, Never} THEN age ELSE age + 1

NoStatus == [age |-> Never, started |-> Never, ticked |-> Never, full |-> FALSE, stuck |-> FALSE,
             ffmpeg |-> TRUE]

HealthInit ==
    /\ worker = [at |-> "down", started |-> Never, beaten |-> Never, ticked |-> Never,
                 full |-> FALSE, stuck |-> FALSE, ffmpeg |-> TRUE]
    /\ wedged = {} /\ row = NoStatus
    /\ infra = [db |-> "up", schema |-> "head", store |-> "2"]
    /\ known = [gone |-> 0, calm |-> 0] /\ troubles = 0

Trouble == troubles < TroublesMax /\ troubles' = troubles + 1

-----------------------------------------------------------------------------
(* worker/main.py                                                             *)

WorkerStarts ==
    /\ worker.at = "down" /\ infra = [db |-> "up", schema |-> "head", store |-> "2"]
    /\ \E ffmpeg \in BOOLEAN :
          worker' = [at |-> "up", started |-> 0, beaten |-> Never, ticked |-> Never,
                     full |-> FALSE, stuck |-> FALSE, ffmpeg |-> ffmpeg]
    /\ wedged' = {}
    /\ UNCHANGED <<row, infra, known, troubles>>

\* _heartbeat_loop: not when it drains, not while the loop is blocked, not without Postgres.
Beats(w) == w.at = "up" /\ "loop" \notin wedged /\ infra.db = "up"

\* What a heartbeat carries.
Told(w) == [age |-> 0, started |-> w.started, ticked |-> w.ticked,
            full |-> w.full, stuck |-> w.stuck, ffmpeg |-> w.ffmpeg]

\* Scheduler.tick, every second tick.  Its time is kept when all of its steps went well.
Schedules(w) == w.at = "up" /\ wedged = {} /\ infra.db = "up" /\ infra.store = "2"

Tick ==
    LET older  == [worker EXCEPT !.started = Older(@), !.beaten = Older(@), !.ticked = Older(@)]
        ticked == IF Schedules(worker) /\ worker.ticked \notin {0} THEN [older EXCEPT !.ticked = 0] ELSE older
    IN  /\ worker' = IF Beats(worker) THEN [ticked EXCEPT !.beaten = 0] ELSE ticked
        /\ row' = IF Beats(worker)
                  THEN Told(ticked)
                  ELSE [row EXCEPT !.age = Older(@), !.started = Older(@), !.ticked = Older(@)]
        /\ known' = [gone |-> IF worker.at = "down" \/ "loop" \in wedged THEN Older(known.gone) ELSE 0,
                     calm |-> IF Beats(worker) THEN Older(known.calm) ELSE 0]
        /\ UNCHANGED <<wedged, infra, troubles>>

\* SIGTERM; or an error of the claim loop when Postgres is away.
Drains == /\ worker.at = "up" /\ worker' = [worker EXCEPT !.at = "draining"]
          /\ UNCHANGED <<wedged, row, infra, known, troubles>>
DrainEnds   == /\ worker.at = "draining" /\ worker' = [worker EXCEPT !.at = "down"]
          /\ UNCHANGED <<wedged, row, infra, known, troubles>>
Dies   == /\ worker.at # "down" /\ Trouble /\ worker' = [worker EXCEPT !.at = "down"]
          /\ UNCHANGED <<wedged, row, infra, known>>

\* A statement without an answer in the scheduler, a call that blocks the event loop.
Wedges == /\ worker.at = "up" /\ Trouble /\ \E what \in {"scheduler", "loop"} : wedged' = wedged \cup {what}
          /\ UNCHANGED <<worker, row, infra, known>>
Unwedges == /\ wedged # {} /\ wedged' = {} /\ UNCHANGED <<worker, row, infra, known, troubles>>

\* Runner: storage_full_until is set or passes, a job is stuck.
Pauses == /\ worker.at = "up" /\ Trouble
          /\ worker' \in {[worker EXCEPT !.full = ~@], [worker EXCEPT !.stuck = TRUE]}
          /\ UNCHANGED <<wedged, row, infra, known>>

InfraChanges ==
    /\ Trouble
    /\ infra' \in {[infra EXCEPT !.db = IF @ = "up" THEN "down" ELSE "up"],
                   [infra EXCEPT !.schema = "old"], [infra EXCEPT !.schema = "head"],
                   [infra EXCEPT !.store = "down"], [infra EXCEPT !.store = "2"], [infra EXCEPT !.store = "1"]}
    /\ UNCHANGED <<worker, wedged, row, known>>

HealthNext ==
    \/ WorkerStarts \/ Tick \/ Drains \/ DrainEnds \/ Dies \/ Wedges \/ Unwedges \/ Pauses \/ InfraChanges

-----------------------------------------------------------------------------
(* application/services/status.py                                             *)

Severity(state) == CASE state = "error" -> 2 [] state = "warn" -> 1 [] OTHER -> 0
Worst(states) ==
    IF \E s \in states : Severity(s) = 2 THEN "error"
    ELSE IF \E s \in states : Severity(s) = 1 THEN "warn" ELSE "ok"

Database == IF infra.db = "up" /\ infra.schema = "head" THEN "ok" ELSE "error"

WorkerState ==
    IF infra.db = "down" THEN "unknown"
    ELSE IF row.age = Never \/ row.age > Stale \/ row.full THEN "error"
    ELSE IF row.stuck THEN "warn" ELSE "ok"

\* The last tick that the last heartbeat told of, whatever its age.
SchedulerToldOf == IF infra.db = "down" \/ row.age = Never THEN "unknown"
                   ELSE IF row.ticked = Never THEN "warn" ELSE "ok"

SchedulerState ==
    IF infra.db = "down" \/ row.age = Never \/ row.age > Stale THEN "unknown"
    ELSE IF row.ticked = Never
    THEN IF row.started <= SchedulerStale THEN "unknown" ELSE "warn"
    ELSE IF row.ticked > SchedulerStale THEN "error" ELSE "ok"

\* Of the Object store what can still be told is the layout of what is in it.
StorageState == IF infra.store = "2" THEN "ok" ELSE "error"

Ffmpeg == IF infra.db = "up" /\ row.age # Never /\ ~row.ffmpeg THEN "error" ELSE "ok"

\* get_status lists the caller's Cookie files on its way, outside any try: while the Object
\* store does not answer the call ends with a 500, and there is no status.
CookiesListed == infra.store # "down"
Status == IF ~CookiesListed THEN "none"
          ELSE Worst({Database, WorkerState, SchedulerState, StorageState, Ffmpeg})

-----------------------------------------------------------------------------
(* /healthz/ready of the api; of the worker, which answers while its loop turns. *)

ApiReady == infra.db = "up" /\ infra.schema = "head" /\ infra.store = "2"
WorkerSeen == infra.db = "up" /\ row.age <= Stale

WorkerReady ==
    /\ ApiReady /\ "loop" \notin wedged /\ worker.at # "down"
    /\ worker.beaten <= Stale /\ worker.ticked <= SchedulerStale

-----------------------------------------------------------------------------
\* A worker that is gone, or whose event loop is blocked, is an error within the stale
\* time and one tick, for the status and for readiness, though its row, and another
\* worker's before it, still say that all is well; so is a scheduler that stopped.  There
\* is no status only while readiness says that the instance is degraded.
TroubleIsTold ==
    /\ infra.db = "up" /\ known.gone > Stale + 1 => Status \in {"error", "none"} /\ ~WorkerSeen
    /\ worker.at = "up" /\ worker.ticked > SchedulerStale + 1 /\ worker.started > SchedulerStale + 1
         => Status \in {"warn", "error", "none"} /\ ~WorkerReady
    /\ ~ApiReady => Status \in {"error", "none"}
    /\ Status = "none" => ~ApiReady

\* A worker whose loop has turned for a tick, Postgres there, is not reported gone, and
\* its scheduler's silence is no error before its time.
NoFalseAlarm ==
    worker.at = "up" /\ infra.db = "up" /\ wedged = {} /\ known.calm > 0 =>
        /\ WorkerSeen /\ (WorkerState = "error" => row.full)
        /\ SchedulerState = "error" => worker.ticked > SchedulerStale \/ row.ticked > SchedulerStale

\* Both.
StatusTellsTheTruth == TroubleIsTold /\ NoFalseAlarm
=============================================================================
