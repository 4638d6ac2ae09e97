------------------------------- MODULE Startup -------------------------------
(***************************************************************************)
(* How the processes of one instance start, work and stop around the same  *)
(* Postgres, Object store and Scratch (worker/main.py, adapters/api/       *)
(* app.py, cli.py): the layout version, the sweep of Scratch, the schema   *)
(* under MIGRATE_LOCK, and WORKER_LOCK.  `copycast storage push` fills the *)
(* Object store from a data directory meanwhile.                           *)
(*                                                                         *)
(* Both locks are advisory locks of a Postgres session: they live as long  *)
(* as a connection does, not as long as the process that took them.        *)
(***************************************************************************)
EXTENDS Integers, Sequences, FiniteSets

CONSTANTS
    Workers,        \* processes of `copycast worker`
    Apis,           \* and of `copycast api`
    Tools,          \* and of `copycast rebuild` and `copycast users reassign`
    HeadRevision,   \* the revision of the migration scripts
    AutoMigrate,    \* the processes with COPYCAST_AUTO_MIGRATE
    ScratchOf,      \* the Scratch directory each process uses
    Pushed,         \* what a push uploads, in its order: "engine", "media", "feed"
    MishapsMax,     \* bound: processes killed, connections lost
    StartsMax       \* bound: processes started

Procs == Workers \cup Apis \cup Tools
NoProc == "nobody"

ASSUME StartupAssumption ==
    /\ Workers \cap Apis = {} /\ Workers \cap Tools = {} /\ Apis \cap Tools = {}
    /\ NoProc \notin Procs
    /\ HeadRevision \in Nat /\ AutoMigrate \subseteq Procs
    /\ ScratchOf \in [Procs -> STRING] /\ Pushed \in Seq({"engine", "media", "feed"})
    /\ MishapsMax \in Nat /\ StartsMax \in Nat

VARIABLES
    at,         \* where each process is
    revision,   \* of the schema
    upgrades,   \* how many times a migration ran
    migrateLock,\* the session that holds MIGRATE_LOCK
    workerLock, \* and WORKER_LOCK
    layout,     \* LAYOUT_VERSION in the Object store
    pushing,    \* `storage push`: whether it saw a version, the files it stored
    works,      \* the directories in Scratch: the process that made each
    happened    \* what was used up of the bounds

startupVars == <<at, revision, upgrades, migrateLock, workerLock, layout, pushing, works, happened>>
Mishap == happened.crashes + happened.losses < MishapsMax

StartupInit ==
    /\ at = [p \in Procs |-> "off"]
    /\ revision \in 0 .. HeadRevision /\ upgrades = 0
    /\ migrateLock = NoProc /\ workerLock = NoProc
    /\ layout = "none"
    /\ pushing = [at |-> "off", saw |-> "none", stored |-> 0]
    /\ works = {}
    /\ happened = [starts |-> 0, crashes |-> 0, losses |-> 0]

Goes(p, where) == at' = [at EXCEPT ![p] = where]

-----------------------------------------------------------------------------
(* Layout.ensure_version                                                      *)

StartProcess(p) ==
    /\ at[p] = "off" /\ happened.starts < StartsMax
    /\ happened' = [happened EXCEPT !.starts = @ + 1]
    /\ Goes(p, IF p \in Tools THEN "lock" ELSE "layout")
    /\ UNCHANGED <<revision, upgrades, migrateLock, workerLock, layout, pushing, works>>

AfterLayout(p) == IF p \in Workers THEN "sweep" ELSE "schema"

ReadVersion(p) ==
    /\ at[p] = "layout"
    /\ Goes(p, IF layout = "2" THEN AfterLayout(p) ELSE "empty")
    /\ UNCHANGED <<revision, upgrades, migrateLock, workerLock, layout, pushing, works, happened>>

\* feeds/ holds something from the first file of a Feed on.
FeedsStored == \E i \in 1 .. pushing.stored : Pushed[i] # "engine"

LookForFeeds(p) ==
    /\ at[p] = "empty"
    /\ Goes(p, IF FeedsStored THEN "off" ELSE "first_run")
    /\ UNCHANGED <<revision, upgrades, migrateLock, workerLock, layout, pushing, works, happened>>

WriteVersion(p) ==
    /\ at[p] = "first_run"
    /\ layout' = "2" /\ Goes(p, AfterLayout(p))
    /\ UNCHANGED <<revision, upgrades, migrateLock, workerLock, pushing, works, happened>>

\* Scratch.sweep: every directory there, whoever made it.
Sweep(p) ==
    /\ at[p] = "sweep"
    /\ works' = {w \in works : ScratchOf[w] # ScratchOf[p]}
    /\ Goes(p, "schema")
    /\ UNCHANGED <<revision, upgrades, migrateLock, workerLock, layout, pushing, happened>>

-----------------------------------------------------------------------------
(* prepare_schema: ensure_schema or await_schema                              *)

Migrating == {"migrating", "upgrading"}
AfterSchema(p) == IF p \in Workers THEN "lock" ELSE "up"

TakeMigrateLock(p) ==
    /\ at[p] = "schema" /\ p \in AutoMigrate /\ migrateLock = NoProc
    /\ migrateLock' = p /\ Goes(p, "migrating")
    /\ UNCHANGED <<revision, upgrades, workerLock, layout, pushing, works, happened>>

\* One transaction, under the lock: the revision is read, and what is missing is done.
CheckRevision(p) ==
    /\ at[p] = "migrating"
    /\ IF revision = HeadRevision
       THEN Goes(p, AfterSchema(p)) /\ migrateLock' = NoProc
       ELSE Goes(p, "upgrading") /\ UNCHANGED migrateLock
    /\ UNCHANGED <<revision, upgrades, workerLock, layout, pushing, works, happened>>

Migrate(p) ==
    /\ at[p] = "upgrading"
    /\ revision' = HeadRevision /\ upgrades' = upgrades + 1
    /\ migrateLock' = NoProc /\ Goes(p, AfterSchema(p))
    /\ UNCHANGED <<workerLock, layout, pushing, works, happened>>

\* await_schema, until it gives up.
AwaitSchema(p) ==
    /\ at[p] = "schema" /\ p \notin AutoMigrate
    /\ Goes(p, IF revision = HeadRevision THEN AfterSchema(p) ELSE "off")
    /\ UNCHANGED <<revision, upgrades, migrateLock, workerLock, layout, pushing, works, happened>>

\* A rebuild and a reassign do not migrate; they look at the schema first.
Admitted(p) == p \in Tools => revision = HeadRevision

\* Nobody looks whether the lock is held.
TakeWorkerLockUnchecked(p) ==
    /\ at[p] = "lock"
    /\ workerLock' = IF workerLock = NoProc THEN p ELSE workerLock
    /\ Goes(p, "up")
    /\ UNCHANGED <<revision, upgrades, migrateLock, layout, pushing, works, happened>>

\* SessionLock: held for the life of a worker, of a rebuild, of a reassign.
TakeWorkerLock(p) ==
    /\ at[p] = "lock"
    /\ IF workerLock = NoProc /\ Admitted(p)
       THEN workerLock' = p /\ Goes(p, "up")
       ELSE Goes(p, "off") /\ UNCHANGED workerLock
    /\ UNCHANGED <<revision, upgrades, migrateLock, layout, pushing, works, happened>>

-----------------------------------------------------------------------------
(* Life and death of a process that started.                                  *)

\* Scratch.job, and temp_file in an api.
BeginWork(p) == /\ at[p] = "up" /\ p \notin Tools /\ p \notin works /\ works' = works \cup {p}
                /\ UNCHANGED <<at, revision, upgrades, migrateLock, workerLock, layout, pushing, happened>>
EndWork(p)   == /\ at[p] = "up" /\ p \in works /\ works' = works \ {p}
                /\ UNCHANGED <<at, revision, upgrades, migrateLock, workerLock, layout, pushing, happened>>

Freed(lock, p) == IF lock = p THEN NoProc ELSE lock

\* SIGTERM, or the end of a tool: the runner drained, the lock is released.
Stop(p) ==
    /\ at[p] = "up" /\ Goes(p, "off") /\ works' = works \ {p}
    /\ workerLock' = Freed(workerLock, p)
    /\ UNCHANGED <<revision, upgrades, migrateLock, layout, pushing, happened>>

\* Killed: its sessions end, its directories stay.
Kill(p) ==
    /\ at[p] # "off" /\ Mishap
    /\ happened' = [happened EXCEPT !.crashes = @ + 1]
    /\ Goes(p, "off")
    /\ workerLock' = Freed(workerLock, p) /\ migrateLock' = Freed(migrateLock, p)
    /\ UNCHANGED <<revision, upgrades, layout, pushing, works>>

\* The connection of a lock is lost, with the process alive: nothing looks at
\* SessionLock.held again, and the pool opens new connections (pool_pre_ping).
\* A migration fails with its transaction.
LoseConnection(p) ==
    /\ Mishap /\ p \in {workerLock, migrateLock}
    /\ happened' = [happened EXCEPT !.losses = @ + 1]
    /\ workerLock' = Freed(workerLock, p) /\ migrateLock' = Freed(migrateLock, p)
    /\ at' = IF at[p] \in Migrating THEN [at EXCEPT ![p] = "off"] ELSE at
    /\ UNCHANGED <<revision, upgrades, layout, pushing, works>>

-----------------------------------------------------------------------------
(* adapters/storage/push.py                                                   *)

PushStart ==
    /\ pushing.at = "off" /\ Pushed # <<>>
    /\ pushing' = [pushing EXCEPT !.at = "on", !.saw = layout]
    /\ UNCHANGED <<at, revision, upgrades, migrateLock, workerLock, layout, works, happened>>

\* A file of the same size that is there already is skipped.
PushFile ==
    /\ pushing.at = "on" /\ pushing.stored < Len(Pushed)
    /\ pushing' = [pushing EXCEPT !.stored = @ + 1]
    /\ UNCHANGED <<at, revision, upgrades, migrateLock, workerLock, layout, works, happened>>

PushEnd ==
    /\ pushing.at = "on" /\ pushing.stored = Len(Pushed)
    /\ layout' = IF pushing.saw = "none" THEN "2" ELSE layout
    /\ pushing' = [pushing EXCEPT !.at = "done"]
    /\ UNCHANGED <<at, revision, upgrades, migrateLock, workerLock, works, happened>>

\* Interrupted: the next one resumes.
PushStops ==
    /\ pushing.at = "on" /\ Mishap
    /\ happened' = [happened EXCEPT !.crashes = @ + 1]
    /\ pushing' = [pushing EXCEPT !.at = "off"]
    /\ UNCHANGED <<at, revision, upgrades, migrateLock, workerLock, layout, works>>

-----------------------------------------------------------------------------
Advance(p) ==
    \/ ReadVersion(p) \/ LookForFeeds(p) \/ WriteVersion(p) \/ Sweep(p)
    \/ TakeMigrateLock(p) \/ CheckRevision(p) \/ Migrate(p) \/ AwaitSchema(p) \/ TakeWorkerLock(p)

StartupNext ==
    \/ \E p \in Procs : \/ StartProcess(p) \/ Advance(p) \/ BeginWork(p) \/ EndWork(p)
                        \/ Stop(p) \/ Kill(p) \/ LoseConnection(p)
    \/ PushStart \/ PushFile \/ PushEnd \/ PushStops

StartupSpec == StartupInit /\ [][StartupNext]_startupVars

-----------------------------------------------------------------------------
\* docs/operations.md: there is exactly one worker, and neither a rebuild nor a
\* reassign runs beside it, while the connection that holds the lock lives.
OneWorker ==
    happened.losses = 0 =>
        \A p, q \in Workers \cup Tools : at[p] = "up" /\ at[q] = "up" => p = q

\* Whoever serves or works has the schema its code knows, and it was migrated once,
\* however many processes started together and died meanwhile.
MigratedOnce ==
    /\ upgrades <= 1
    /\ \A p \in Procs : at[p] = "up" => revision = HeadRevision

\* Both: no start, crash or tool that waits brings a second writer or an older schema.
StartsInOrder == OneWorker /\ MigratedOnce
=============================================================================
