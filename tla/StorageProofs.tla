--------------------------- MODULE StorageProofs ---------------------------
(***************************************************************************)
(* Proofs about Storage: processes start in order on one schema, a change   *)
(* that is committed reaches feed.json, the rows and the objects of the      *)
(* assets follow each other, and a change of a User's Cookie files loses no  *)
(* cookie of the others.                                                     *)
(***************************************************************************)
EXTENDS Storage, TLAPS, FiniteSetTheorems, WellFoundedInduction

-----------------------------------------------------------------------------
(* Startup: one worker at a time, on the schema its code knows.             *)

Places == {"off", "layout", "empty", "first_run", "sweep", "schema", "migrating", "upgrading", "lock", "up"}
Happenings == [starts : Nat, crashes : Nat, losses : Nat]
Singles == Workers \cup Tools

\* Past prepare_schema, where the schema is the one the code knows.
SchemaReady(p) == at[p] = "up" \/ (p \notin Tools /\ at[p] = "lock")

\* The inductive invariant.  Tools go straight to the lock; nothing lowers the
\* revision of the schema, whoever migrates it has MIGRATE_LOCK, and whoever is up of a
\* worker or a tool has the other lock since no lock connection was lost.
StartupInv ==
    /\ at \in [Procs -> Places]
    /\ revision \in 0 .. HeadRevision /\ upgrades \in {0, 1}
    /\ happened \in Happenings
    /\ \A p \in Tools : at[p] \in {"off", "lock", "up"}
    /\ upgrades = 1 => revision = HeadRevision
    /\ \A p \in Procs : SchemaReady(p) => revision = HeadRevision
    /\ \A p \in Procs : at[p] \in Migrating => migrateLock = p
    /\ \A p \in Procs : at[p] = "upgrading" => revision # HeadRevision
    /\ happened.losses = 0 => \A p \in Singles : at[p] = "up" => workerLock = p

\* No process is up at first.
LEMMA StartupBegins == StartupInit => StartupInv
  BY StartupAssumption DEF StartupInit, StartupInv, Happenings, Places, Singles, SchemaReady, Procs, Migrating

\* A step of one process, to a place that asks for nothing but the schema.
LEMMA OneProcessMoves ==
    ASSUME StartupInv, NEW p \in Procs, NEW place \in Places, Goes(p, place),
           p \in Tools => place \in {"off", "lock", "up"},
           revision' \in {revision, HeadRevision}, upgrades' \in {0, 1},
           upgrades' = 1 => revision' = HeadRevision,
           place = "up" \/ (p \notin Tools /\ place = "lock") => revision' = HeadRevision,
           \A q \in Procs \ {p} : at[q] \in Migrating => migrateLock' = q,
           place \in Migrating => migrateLock' = p,
           place = "upgrading" => revision' # HeadRevision,
           revision' = revision \/ migrateLock = p,
           happened' \in Happenings, happened'.losses = happened.losses,
           happened.losses = 0 => \A q \in Singles \ {p} : at[q] = "up" => workerLock' = q,
           happened.losses = 0 /\ p \in Singles /\ place = "up" => workerLock' = p
    PROVE  StartupInv'
<1>1. at' = [at EXCEPT ![p] = place]
  BY DEF Goes
<1>2. at' \in [Procs -> Places]
  BY <1>1 DEF StartupInv
<1>3. \A q \in Procs : at'[q] = IF q = p THEN place ELSE at[q]
  BY <1>1 DEF StartupInv
<1>4. Singles \subseteq Procs /\ Tools \subseteq Procs
  BY DEF Singles, Procs
<1>5. revision' \in 0 .. HeadRevision
  BY StartupAssumption DEF StartupInv
<1>6. \A q \in Tools : at'[q] \in {"off", "lock", "up"}
  BY <1>3, <1>4 DEF StartupInv
<1>7. \A q \in Procs : SchemaReady(q)' => revision' = HeadRevision
  BY <1>3 DEF StartupInv, SchemaReady
<1>8. happened'.losses = 0 => \A q \in Singles : at'[q] = "up" => workerLock' = q
  BY <1>3, <1>4 DEF StartupInv
<1>9. \A q \in Procs : at'[q] \in Migrating => migrateLock' = q
  BY <1>3
<1>10. \A q \in Procs : at'[q] = "upgrading" => revision' # HeadRevision
  BY <1>3 DEF StartupInv, Migrating
<1> QED
  BY <1>2, <1>5, <1>6, <1>7, <1>8, <1>9, <1>10 DEF StartupInv

\* Every start, end and lost connection keeps the order.
LEMMA StartupKept == StartupInv /\ [StartupNext]_startupVars => StartupInv'
<1> SUFFICES ASSUME StartupInv, [StartupNext]_startupVars PROVE StartupInv'
  OBVIOUS
<1>t. Workers \subseteq Singles /\ Tools \subseteq Singles /\ Workers \cap Tools = {}
  BY StartupAssumption DEF Singles
<1>p. {"off", "layout", "empty", "first_run", "sweep", "schema", "migrating", "upgrading", "lock", "up"} \subseteq Places
  BY DEF Places
<1>m. \A q \in Procs : at[q] \in Migrating => migrateLock = q
  BY DEF StartupInv
<1>n. \A q \in Procs : q # NoProc
  BY StartupAssumption
<1>1. ASSUME NEW p \in Procs, StartProcess(p) PROVE StartupInv'
  BY <1>1, <1>p, <1>m, OneProcessMoves DEF StartProcess, Happenings, Singles, StartupInv, Migrating
<1>2. ASSUME NEW p \in Procs, Advance(p) PROVE StartupInv'
  <2>1. CASE ReadVersion(p) \/ LookForFeeds(p) \/ WriteVersion(p) \/ Sweep(p)
    BY <2>1, <1>p, <1>m, OneProcessMoves
    DEF ReadVersion, LookForFeeds, WriteVersion, Sweep, AfterLayout, Singles, StartupInv, Migrating
  <2>2. CASE TakeMigrateLock(p)
    <3>1. \A q \in Procs \ {p} : at[q] \notin Migrating
      BY <2>2, <1>m, <1>n DEF TakeMigrateLock
    <3> QED
      BY <2>2, <3>1, <1>p, OneProcessMoves DEF TakeMigrateLock, Singles, StartupInv
  <2>3. CASE CheckRevision(p) \/ Migrate(p)
    <3>1. p \notin Tools /\ AfterSchema(p) \in {"lock", "up"} /\ (p \in Singles => AfterSchema(p) = "lock")
      BY <2>3, <1>t DEF CheckRevision, Migrate, AfterSchema, StartupInv, Singles
    <3>2. migrateLock = p /\ \A q \in Procs \ {p} : at[q] \notin Migrating
      BY <2>3, <1>m DEF CheckRevision, Migrate, Migrating
    <3>3. AfterSchema(p) \notin Migrating
      BY <3>1 DEF Migrating
    <3>4. CASE CheckRevision(p)
      BY <3>1, <3>2, <3>3, <3>4, <1>p, OneProcessMoves DEF CheckRevision, Singles, StartupInv
    <3>5. CASE Migrate(p)
      <4>1. upgrades = 0
        BY <3>5 DEF Migrate, StartupInv
      <4> QED
        BY <3>1, <3>2, <3>3, <3>5, <4>1, <1>p, OneProcessMoves DEF Migrate, Singles, StartupInv
    <3> QED
      BY <2>3, <3>4, <3>5
  <2>4. CASE AwaitSchema(p)
    <3>1. p \notin Tools /\ AfterSchema(p) \in {"lock", "up"} /\ (p \in Singles => AfterSchema(p) = "lock")
      BY <2>4, <1>t DEF AwaitSchema, AfterSchema, StartupInv, Singles
    <3> QED
      BY <2>4, <3>1, <1>p, <1>m, OneProcessMoves DEF AwaitSchema, Singles, StartupInv, Migrating
  <2>5. CASE TakeWorkerLock(p)
    <3>1. CASE workerLock = NoProc /\ Admitted(p)
      <4>1. revision = HeadRevision
        BY <2>5, <3>1 DEF TakeWorkerLock, Admitted, StartupInv, SchemaReady
      <4>2. Goes(p, "up") /\ workerLock' = p /\ UNCHANGED <<revision, upgrades, happened, migrateLock>>
        BY <2>5, <3>1 DEF TakeWorkerLock
      <4>3. happened.losses = 0 => \A q \in Singles \ {p} : at[q] # "up"
        BY <3>1, StartupAssumption DEF StartupInv, Singles, Procs
      <4> QED
        BY <4>1, <4>2, <4>3, <1>p, <1>m, OneProcessMoves DEF StartupInv, Migrating
    <3>2. CASE ~(workerLock = NoProc /\ Admitted(p))
      <4>1. Goes(p, "off") /\ UNCHANGED <<workerLock, revision, upgrades, happened, migrateLock>>
        BY <2>5, <3>2 DEF TakeWorkerLock
      <4> QED
        BY <4>1, <1>p, <1>m, OneProcessMoves DEF StartupInv, Singles, Migrating
    <3> QED
      BY <3>1, <3>2
  <2> QED
    BY <1>2, <2>1, <2>2, <2>3, <2>4, <2>5 DEF Advance
<1>3. ASSUME NEW p \in Procs, Stop(p) \/ Kill(p) PROVE StartupInv'
  <2>1. Goes(p, "off") /\ workerLock' = Freed(workerLock, p) /\ UNCHANGED <<revision, upgrades>>
    BY <1>3 DEF Stop, Kill
  <2>2. happened' \in Happenings /\ happened'.losses = happened.losses
    BY <1>3 DEF Stop, Kill, Happenings, StartupInv
  <2>3. happened.losses = 0 => \A q \in Singles \ {p} : at[q] = "up" => workerLock' = q
    BY <2>1 DEF StartupInv, Freed
  <2>4. migrateLock' \in {migrateLock, Freed(migrateLock, p)}
    BY <1>3 DEF Stop, Kill
  <2>5. \A q \in Procs \ {p} : at[q] \in Migrating => migrateLock' = q
    BY <2>4, <1>m DEF Freed
  <2> QED
    BY <2>1, <2>2, <2>3, <2>5, <1>p, OneProcessMoves DEF StartupInv, Migrating
<1>4. ASSUME NEW p \in Procs, LoseConnection(p) PROVE StartupInv'
  <2>1. happened' \in Happenings /\ happened'.losses = happened.losses + 1
    BY <1>4 DEF LoseConnection, Happenings, StartupInv
  <2>2. at' = at \/ at' = [at EXCEPT ![p] = "off"]
    BY <1>4 DEF LoseConnection
  <2>3. at[p] \in Migrating => at'[p] = "off"
    BY <1>4 DEF LoseConnection, StartupInv
  <2>4. /\ \A q \in Procs : at'[q] \in {at[q], "off"}
        /\ UNCHANGED <<revision, upgrades>> /\ migrateLock' = Freed(migrateLock, p)
    BY <1>4, <2>2 DEF LoseConnection, StartupInv
  <2>5. \A q \in Procs : at'[q] \in Migrating => migrateLock' = q
    BY <1>m, <2>3, <2>4 DEF Migrating, Freed
  <2>6. \A q \in Procs : at'[q] = "upgrading" => revision' # HeadRevision
    BY <2>4 DEF StartupInv
  <2>7. at' \in [Procs -> Places]
    BY <1>p, <2>2 DEF StartupInv
  <2>8. happened'.losses # 0
    BY <2>1 DEF Happenings, StartupInv
  <2>9. \A q \in Tools : at'[q] \in {"off", "lock", "up"}
    BY <2>4 DEF StartupInv, Procs
  <2>10. \A q \in Procs : SchemaReady(q)' => revision' = HeadRevision
    BY <2>4 DEF StartupInv, SchemaReady
  <2> QED
    BY <2>1, <2>4, <2>5, <2>6, <2>7, <2>8, <2>9, <2>10 DEF StartupInv
<1>5. ASSUME NEW p \in Procs, BeginWork(p) \/ EndWork(p) PROVE StartupInv'
  BY <1>5 DEF BeginWork, EndWork, StartupInv, SchemaReady
<1>6. CASE PushStart \/ PushFile \/ PushEnd \/ PushStops
  BY <1>6 DEF PushStart, PushFile, PushEnd, PushStops, Happenings, StartupInv, SchemaReady
<1>7. CASE UNCHANGED startupVars
  BY <1>7 DEF startupVars, StartupInv, SchemaReady
<1> QED
  BY <1>1, <1>2, <1>3, <1>4, <1>5, <1>6, <1>7 DEF StartupNext

\* The property is part of the invariant.
LEMMA StartupOrdered == StartupInv => StartsInOrder
<1> SUFFICES ASSUME StartupInv PROVE OneWorker /\ MigratedOnce
  BY DEF StartsInOrder
<1>1. OneWorker
  BY DEF OneWorker, StartupInv, Singles
<1>2. MigratedOnce
  BY DEF MigratedOnce, StartupInv, SchemaReady
<1> QED
  BY <1>1, <1>2

-----------------------------------------------------------------------------
(* Descriptors: every committed change reaches feed.json.                   *)

ItemStates == {"unknown", "available", "wanted", "archived", "deleted"}
FeedRows == [there : BOOLEAN, intent : Nat, policy : Policies, items : [Items -> ItemStates]]
Exports == [at : {"idle", "export", "compare", "write", "hooks"}, desc : FeedRows,
            hook : {"none", "feed"} \cup Items]
Rebuilds == [at : {"idle", "listed", "read", "rebuilt"}, there : BOOLEAN, media : SUBSET Items,
             desc : FeedRows, yes : BOOLEAN]

\* The export that will write the newest intent, or find a newer one there.
Exporting(t) == \/ task[t].at = "export"
                \/ task[t].at \in {"compare", "write"} /\ task[t].desc.intent = db.intent

\* The inductive invariant: no descriptor, nor what a rebuild read, is newer than the newest
\* one that was written, so an export that stops at a newer object has nothing left to do.
DescInv ==
    /\ db \in FeedRows
    /\ disk \in [desc : FeedRows, media : SUBSET Items, newest : Nat]
    /\ disk.desc.intent <= disk.newest
    /\ task \in [Tasks -> Exports]
    /\ armed \in BOOLEAN /\ excused \in BOOLEAN
    /\ rebuild \in Rebuilds /\ rebuild.desc.intent <= disk.newest
    /\ (db.there /\ ~excused /\ db.intent > disk.newest) => armed \/ \E t \in Tasks : Exporting(t)

\* The row of a deleted Feed, older than any descriptor.
LEMMA NoFeedIsARow == NoFeed \in FeedRows /\ NoFeed.intent = 0 /\ ~NoFeed.there
<1>1. (CHOOSE p \in Policies : TRUE) \in Policies
  BY DescriptorsAssumption
<1> QED
  BY <1>1 DEF NoFeed, FeedRows, NoItems, ItemStates

\* An idle export.
LEMMA NoTaskIsOne == NoTask \in Exports /\ NoTask.at = "idle"
  BY NoFeedIsARow DEF NoTask, Exports

\* No Feed and no descriptor at first.
LEMMA DescBegins == DescInit => DescInv
<1> SUFFICES ASSUME DescInit PROVE DescInv
  OBVIOUS
<1>1. db \in FeedRows /\ db.intent = 1
  BY NoFeedIsARow DEF DescInit, FeedRows
<1>2. disk \in [desc : FeedRows, media : SUBSET Items, newest : Nat] /\ disk.desc.intent = 1 /\ disk.newest = 1
  BY <1>1 DEF DescInit
<1>3. rebuild \in Rebuilds /\ rebuild.desc.intent = 0
  BY NoFeedIsARow DEF DescInit, NoRebuild, Rebuilds
<1>4. task \in [Tasks -> Exports]
  BY NoTaskIsOne DEF DescInit
<1>5. disk.desc.intent <= disk.newest /\ rebuild.desc.intent <= disk.newest /\ ~ (db.intent > disk.newest)
  BY <1>1, <1>2, <1>3
<1>6. armed = FALSE /\ excused = FALSE
  BY DEF DescInit
<1> QED
  BY <1>1, <1>2, <1>3, <1>4, <1>5, <1>6 DEF DescInv

\* The greater of two numbers.
LEMMA MaxOfTwo == ASSUME NEW a \in Nat, NEW b \in Nat
                  PROVE Max({a, b}) \in Nat /\ a <= Max({a, b}) /\ b <= Max({a, b})
  BY DEF Max

\* What is left alone when one task moves.
LEMMA OneTaskMoves ==
    ASSUME DescInv, NEW t \in Tasks, NEW e \in Exports, task' = [task EXCEPT ![t] = e]
    PROVE  task' \in [Tasks -> Exports] /\ \A u \in Tasks : task'[u] = IF u = t THEN e ELSE task[u]
  BY DEF DescInv

\* A committed change arms the export of its own transaction.
LEMMA ChangesKept ==
    ASSUME DescInv, NEW t \in Tasks, NEW p \in Policies, NEW its \in [Items -> ItemStates],
           NEW hook \in {"none"} \cup Items, Changes(t, p, its, hook)
    PROVE  DescInv'
<1> DEFINE e == [NoTask EXCEPT !.at = "export", !.hook = hook]
<1>1. e \in Exports /\ e.at = "export"
  BY NoTaskIsOne DEF Exports
<1>2. task' = [task EXCEPT ![t] = e]
  BY DEF Changes
<1> HIDE DEF e
<1>3. task' \in [Tasks -> Exports] /\ task'[t].at = "export"
  BY <1>1, <1>2, OneTaskMoves
<1>4. db' \in FeedRows
  <2>1. db' = [db EXCEPT !.intent = @ + 1, !.policy = p, !.items = its] /\ db \in FeedRows
    BY DEF Changes, DescInv
  <2>2. db.there \in BOOLEAN /\ db.intent + 1 \in Nat
    BY <2>1 DEF FeedRows
  <2>3. db' = [there |-> db.there, intent |-> db.intent + 1, policy |-> p, items |-> its]
    BY <2>1 DEF FeedRows
  <2> QED
    BY <2>2, <2>3 DEF FeedRows
<1>5. \E u \in Tasks : Exporting(u)'
  BY <1>3 DEF Exporting
<1> QED
  BY <1>3, <1>4, <1>5 DEF Changes, DescInv

\* A deletion leaves no Feed whose change could be missing.
LEMMA DeleteFeedKept == ASSUME DescInv, NEW t \in Requests, DeleteFeed(t) PROVE DescInv'
<1> DEFINE e == [NoTask EXCEPT !.at = "hooks", !.hook = "feed"]
<1>1. e \in Exports
  BY NoTaskIsOne DEF Exports
<1>2. task' = [task EXCEPT ![t] = e] /\ t \in Tasks
  BY DEF DeleteFeed, Tasks
<1> HIDE DEF e
<1>3. task' \in [Tasks -> Exports]
  BY <1>1, <1>2, OneTaskMoves
<1>4. db' \in FeedRows /\ ~db'.there
  BY NoFeedIsARow DEF DeleteFeed
<1> QED
  BY <1>3, <1>4 DEF DeleteFeed, DescInv

\* The export reads the newest intent.
LEMMA BuildKept == ASSUME DescInv, NEW t \in Tasks, Build(t) PROVE DescInv'
<1> DEFINE e == [task[t] EXCEPT !.at = IF db.there THEN "compare" ELSE "hooks", !.desc = db]
<1>1. e \in Exports /\ e.desc = db /\ (db.there => e.at = "compare")
  BY DEF DescInv, Exports
<1>2. task' = [task EXCEPT ![t] = e] /\ UNCHANGED <<db, disk, armed, rebuild, excused>>
  BY DEF Build, DescInv
<1> HIDE DEF e
<1>3. task' \in [Tasks -> Exports] /\ \A u \in Tasks : task'[u] = IF u = t THEN e ELSE task[u]
  BY <1>1, <1>2, OneTaskMoves
<1>4. db.there => Exporting(t)'
  BY <1>1, <1>2, <1>3 DEF Exporting
<1> QED
  BY <1>2, <1>3, <1>4 DEF DescInv

\* It stops only at a descriptor that is as new; the newest of those was written.
LEMMA CompareKept == ASSUME DescInv, NEW t \in Tasks, Compare(t) PROVE DescInv'
<1> DEFINE e == [task[t] EXCEPT !.at = IF disk.desc.intent > task[t].desc.intent THEN "hooks" ELSE "write"]
<1>1. e \in Exports /\ e.desc = task[t].desc /\ (~ (disk.desc.intent > task[t].desc.intent) => e.at = "write")
  BY DEF DescInv, Exports
<1>2. task' = [task EXCEPT ![t] = e] /\ UNCHANGED <<db, disk, armed, rebuild, excused>>
  BY DEF Compare, DescInv
<1> HIDE DEF e
<1>3. task' \in [Tasks -> Exports] /\ \A u \in Tasks : task'[u] = IF u = t THEN e ELSE task[u]
  BY <1>1, <1>2, OneTaskMoves
<1>4. \A u \in Tasks : u # t /\ Exporting(u) => Exporting(u)'
  BY <1>2, <1>3 DEF Exporting
<1>5. task[t].at = "compare" /\ task[t].desc.intent \in Nat /\ db.intent \in Nat /\ disk.desc.intent \in Nat /\ disk.newest \in Nat
  BY DEF Compare, DescInv, Exports, FeedRows
<1>6. Exporting(t) /\ db.intent > disk.newest => Exporting(t)'
  BY <1>1, <1>2, <1>3, <1>5 DEF Exporting, DescInv
<1> QED
  BY <1>2, <1>3, <1>4, <1>6 DEF DescInv

\* What it writes is its intent, or it was overtaken by a newer one whose export goes on.
LEMMA WriteKept == ASSUME DescInv, NEW t \in Tasks, Write(t) PROVE DescInv'
<1> DEFINE e == [task[t] EXCEPT !.at = "hooks"]
           top == Max({disk.newest, task[t].desc.intent})
<1>1. e \in Exports
  BY DEF DescInv, Exports
<1>2. task' = [task EXCEPT ![t] = e] /\ UNCHANGED <<db, armed, rebuild, excused>>
  BY DEF Write, DescInv
<1> HIDE DEF e
<1>3. task' \in [Tasks -> Exports] /\ \A u \in Tasks : task'[u] = IF u = t THEN e ELSE task[u]
  BY <1>1, <1>2, OneTaskMoves
<1>4. \A u \in Tasks : u # t /\ Exporting(u) => Exporting(u)'
  BY <1>2, <1>3 DEF Exporting
<1>5. task[t].desc \in FeedRows /\ task[t].desc.intent \in Nat /\ disk.newest \in Nat /\ task[t].at = "write"
  BY DEF Write, DescInv, Exports, FeedRows
<1>6. top \in Nat /\ disk.newest <= top /\ task[t].desc.intent <= top
  BY <1>5, MaxOfTwo
<1>7. disk'.newest = top /\ disk'.desc = task[t].desc /\ disk'.media = disk.media
      /\ disk' \in [desc : FeedRows, media : SUBSET Items, newest : Nat]
  BY <1>5, <1>6 DEF Write, DescInv
<1> HIDE DEF top
<1>8. db.intent \in Nat /\ rebuild.desc.intent \in Nat
  BY DEF DescInv, FeedRows, Rebuilds
<1>9. db.intent > top => db.intent > disk.newest /\ ~Exporting(t)
  BY <1>5, <1>6, <1>8 DEF Exporting
<1>10. (db'.there /\ ~excused' /\ db'.intent > disk'.newest) => armed' \/ \E u \in Tasks : Exporting(u)'
  BY <1>2, <1>4, <1>7, <1>9 DEF DescInv
<1>11. rebuild'.desc.intent <= disk'.newest
  BY <1>2, <1>5, <1>6, <1>7, <1>8 DEF DescInv
<1> QED
  BY <1>2, <1>3, <1>6, <1>7, <1>10, <1>11 DEF DescInv

\* Hooks run after the export and touch no descriptor.
LEMMA HooksKept ==
    ASSUME DescInv, NEW t \in Tasks, Hooks(t) \/ ExportFails(t) PROVE DescInv'
<1>1. CASE ExportFails(t)
  <2> DEFINE e == [task[t] EXCEPT !.at = "hooks"]
  <2>1. e \in Exports
    BY DEF DescInv, Exports
  <2>2. task' = [task EXCEPT ![t] = e] /\ excused' = TRUE /\ UNCHANGED <<db, disk, armed, rebuild>>
    BY <1>1 DEF ExportFails, DescInv
  <2> HIDE DEF e
  <2> QED
    BY <2>1, <2>2, OneTaskMoves DEF DescInv
<1>2. CASE Hooks(t)
  <2>1. task' = [task EXCEPT ![t] = NoTask] /\ UNCHANGED <<db, armed, rebuild, excused>> /\ task[t].at = "hooks"
    BY <1>2 DEF Hooks
  <2>2. task' \in [Tasks -> Exports] /\ \A u \in Tasks : task'[u] = IF u = t THEN NoTask ELSE task[u]
    BY <2>1, NoTaskIsOne, OneTaskMoves
  <2>3. \A u \in Tasks : Exporting(u) => Exporting(u)'
    BY <2>1, <2>2 DEF Exporting
  <2>4. disk' \in [desc : FeedRows, media : SUBSET Items, newest : Nat] /\ disk'.newest = disk.newest
        /\ (disk'.desc = disk.desc \/ disk'.desc = NoFeed)
    <3>1. CASE task[t].hook = "none"
      BY <1>2, <3>1 DEF Hooks, DescInv
    <3>2. CASE task[t].hook # "none" /\ task[t].hook = "feed"
      BY <1>2, <3>2, NoFeedIsARow DEF Hooks, DescInv
    <3>3. CASE task[t].hook # "none" /\ task[t].hook # "feed"
      <4>1. disk' = [disk EXCEPT !.media = @ \ {task[t].hook}]
        BY <1>2, <3>3 DEF Hooks
      <4> QED
        BY <4>1 DEF DescInv
    <3> QED
      BY <3>1, <3>2, <3>3
  <2>5. disk'.desc.intent <= disk'.newest
    BY <2>4, NoFeedIsARow DEF DescInv
  <2> QED
    BY <2>1, <2>2, <2>3, <2>4, <2>5 DEF DescInv
<1> QED
  BY <1>1, <1>2

\* The worker's own steps and the end of a process.
LEMMA WorkerKept ==
    ASSUME DescInv,
           \/ \E i \in Items : Store(i) \/ Register(i)
           \/ Fire \/ WorkerStops \/ WorkerStarts \/ Die(Requests) \/ Die({Timer}) \/ Lose
    PROVE  DescInv'
<1>e. UNCHANGED <<task, db>> => \A u \in Tasks : Exporting(u)' <=> Exporting(u)
  BY DEF Exporting
<1>1. ASSUME NEW i \in Items, Store(i) PROVE DescInv'
  <2>1. disk' \in [desc : FeedRows, media : SUBSET Items, newest : Nat] /\ disk'.newest = disk.newest /\ disk'.desc = disk.desc
    BY <1>1 DEF Store, DescInv
  <2> QED
    BY <1>1, <1>e, <2>1 DEF Store, DescInv
<1>2. ASSUME NEW i \in Items, Register(i) PROVE DescInv'
  <2>1. db' = [db EXCEPT !.intent = @ + 1, !.items[i] = "archived"] /\ db \in FeedRows
    BY <1>2 DEF Register, DescInv
  <2>2. db' \in FeedRows
    <3>1. db.there \in BOOLEAN /\ db.intent + 1 \in Nat /\ db.policy \in Policies
      BY <2>1 DEF FeedRows
    <3>2. [db.items EXCEPT ![i] = "archived"] \in [Items -> ItemStates]
      BY <2>1 DEF FeedRows, ItemStates
    <3>3. db' = [there |-> db.there, intent |-> db.intent + 1, policy |-> db.policy,
                 items |-> [db.items EXCEPT ![i] = "archived"]]
      BY <2>1 DEF FeedRows
    <3> QED
      BY <3>1, <3>2, <3>3 DEF FeedRows
  <2> QED
    BY <1>2, <2>2 DEF Register, DescInv
<1>3. CASE Fire
  <2> DEFINE e == [task[Timer] EXCEPT !.at = "export"]
  <2>1. Timer \in Tasks
    BY DEF Tasks
  <2>2. e \in Exports /\ e.at = "export"
    BY <2>1 DEF DescInv, Exports
  <2>3. task' = [task EXCEPT ![Timer] = e] /\ UNCHANGED <<db, disk, rebuild, excused>> /\ armed' = FALSE
    BY <1>3 DEF Fire, DescInv
  <2> HIDE DEF e
  <2>4. task' \in [Tasks -> Exports] /\ task'[Timer].at = "export"
    BY <2>1, <2>2, <2>3, OneTaskMoves
  <2> QED
    BY <2>1, <2>3, <2>4 DEF DescInv, Exporting
<1>4. CASE WorkerStops \/ WorkerStarts
  BY <1>4, <1>e DEF WorkerStops, WorkerStarts, DescInv
<1>5. ASSUME NEW tasks \in SUBSET Tasks, Die(tasks) PROVE DescInv'
  <2>1. task' = [t \in Tasks |-> IF t \in tasks THEN NoTask ELSE task[t]] /\ UNCHANGED <<db, disk, rebuild>>
    BY <1>5 DEF Die
  <2>2. task' \in [Tasks -> Exports]
    BY <2>1, NoTaskIsOne DEF DescInv
  <2>3. excused' = (excused \/ (\E t \in tasks : ~Idle(t)) \/ (Timer \in tasks /\ armed))
        /\ armed' = (armed /\ Timer \notin tasks)
    BY <1>5 DEF Die
  <2>4. excused' \in BOOLEAN /\ armed' \in BOOLEAN
    BY <2>3 DEF DescInv
  <2>5. ~excused' => ~excused /\ (armed => armed') /\ \A u \in tasks : Idle(u)
    BY <2>3 DEF DescInv
  <2>6. (\A u \in tasks : Idle(u)) => \A u \in Tasks : Exporting(u) => Exporting(u)'
    BY <2>1 DEF Exporting, Idle
  <2> QED
    BY <2>1, <2>2, <2>4, <2>5, <2>6 DEF DescInv
<1>6. CASE Lose
  BY <1>6, NoFeedIsARow DEF Lose, DescInv
<1> QED
  BY <1>1, <1>2, <1>3, <1>4, <1>5, <1>6 DEF Tasks

\* A rebuild brings back no intent newer than the newest written.
LEMMA RebuildKept ==
    ASSUME DescInv,
           \/ \E yes \in BOOLEAN : ListObjects(yes)
           \/ ReadDescriptor \/ RebuildFeed \/ Finish \/ RebuildEnds
    PROVE  DescInv'
<1>e. UNCHANGED <<task, db>> => \A u \in Tasks : Exporting(u)' <=> Exporting(u)
  BY DEF Exporting
<1>n. NoRebuild \in Rebuilds /\ NoRebuild.desc.intent = 0
  BY NoFeedIsARow DEF NoRebuild, Rebuilds
<1>m. disk.newest \in Nat /\ disk.desc \in FeedRows /\ disk.media \subseteq Items
      /\ disk.desc.there \in BOOLEAN /\ 0 <= disk.newest
  BY DEF DescInv, FeedRows
<1>1. ASSUME NEW yes \in BOOLEAN, ListObjects(yes) PROVE DescInv'
  <2>1. rebuild' \in Rebuilds /\ rebuild'.desc.intent = 0
    BY <1>1, <1>n, <1>m DEF ListObjects, Rebuilds
  <2> QED
    BY <1>1, <1>e, <1>m, <2>1 DEF ListObjects, DescInv
<1>2. CASE ReadDescriptor
  <2>1. rebuild' \in Rebuilds /\ rebuild'.desc = disk.desc
    BY <1>2, <1>m DEF ReadDescriptor, Rebuilds, DescInv
  <2> QED
    BY <1>2, <1>e, <2>1 DEF ReadDescriptor, DescInv
<1>3. CASE RebuildFeed
  <2>1. \A i \in Items : Rebuilt(db.items[i], rebuild.desc.items[i], i \in rebuild.media, rebuild.yes) \in ItemStates
    BY DEF Rebuilt, DescInv, FeedRows, Rebuilds, ItemStates
  <2>2. db' \in FeedRows /\ db'.intent = rebuild.desc.intent
    BY <1>3, <2>1 DEF RebuildFeed, DescInv, FeedRows, Rebuilds
  <2>3. rebuild' \in Rebuilds /\ rebuild'.desc = rebuild.desc
    BY <1>3 DEF RebuildFeed, DescInv, Rebuilds
  <2>4. ~ (db'.intent > disk.newest)
    BY <2>2, <1>m DEF DescInv, FeedRows
  <2> QED
    BY <1>3, <2>2, <2>3, <2>4 DEF RebuildFeed, DescInv
<1>4. CASE Finish
  <2>1. CASE rebuild.yes /\ ~rebuild.there
    BY <1>4, <2>1, <1>m, <1>n, NoFeedIsARow DEF Finish, DescInv
  <2>2. CASE ~ (rebuild.yes /\ ~rebuild.there)
    BY <1>4, <2>2, <1>e, <1>m, <1>n DEF Finish, DescInv
  <2> QED
    BY <2>1, <2>2
<1>5. CASE RebuildEnds
  BY <1>5, <1>e, <1>m, <1>n DEF RebuildEnds, DescInv
<1> QED
  BY <1>1, <1>2, <1>3, <1>4, <1>5

\* Every step keeps the invariant.
LEMMA DescKept == DescInv /\ [DescNext]_descVars => DescInv'
<1> SUFFICES ASSUME DescInv, [DescNext]_descVars PROVE DescInv'
  OBVIOUS
<1>t. Requests \subseteq Tasks /\ db.policy \in Policies /\ db.items \in [Items -> ItemStates]
  BY DEF Tasks, DescInv, FeedRows
<1>i. \A i \in Items, s \in ItemStates : [db.items EXCEPT ![i] = s] \in [Items -> ItemStates]
  BY <1>t
<1>1. ASSUME NEW t \in Requests, NEW i \in Items, Discover(t, i) \/ Want(t, i) \/ DeleteEpisode(t, i)
      PROVE  DescInv'
  BY <1>1, <1>t, <1>i, ChangesKept DEF Discover, Want, DeleteEpisode, ItemStates
<1>2. ASSUME NEW t \in Requests, NEW p \in Policies, SetPolicy(t, p) PROVE DescInv'
  BY <1>2, <1>t, ChangesKept DEF SetPolicy
<1>3. CASE UNCHANGED descVars
  BY <1>3 DEF descVars, DescInv, Exporting
<1> QED
  BY <1>1, <1>2, <1>3, DeleteFeedKept, BuildKept, CompareKept, WriteKept, HooksKept, WorkerKept, RebuildKept
  DEF DescNext

\* The property is part of the invariant.
LEMMA DescExported == DescInv => EveryChangeExported
  BY DEF DescInv, EveryChangeExported, Exporting

-----------------------------------------------------------------------------
(* Descriptors: one rebuild brings back what was there.                     *)

\* What a rebuild is to bring back: the row, or what a lost database held.
Truth == IF lost.there THEN lost ELSE db

\* An earlier descriptor of the row, or the row itself.
Describes(d, row) == d.intent <= row.intent /\ (d.intent = row.intent => d = row)

\* A file whose item no longer asks for it is about to go.
Leaving(i) == \E t \in Tasks : task[t].at # "idle" /\ task[t].hook = i

\* While the rebuild is still to come, or has not written the row.
ToRebuild == plan.rebuilds > 0 \/ rebuild.at \in {"listed", "read"}

\* No descriptor is of a future that the truth does not have, and every object is of an
\* item that wants it.
Restorable ==
    /\ Truth.intent > 0
    /\ Describes(disk.desc, Truth) /\ Describes(rebuild.desc, Truth)
    /\ \A t \in Tasks : Describes(task[t].desc, Truth)
    /\ ~excused => \A i \in disk.media : Truth.items[i] \in {"wanted", "archived"} \/ Leaving(i)

\* The inductive invariant of one rebuild, which runs alone.  A second one could begin at the
\* row of the first, and an intent can then stand for two states of the Feed.
RestoreInv ==
    /\ plan \in [changes : Nat, misfortunes : Nat, rebuilds : 0 .. 1]
    /\ lost \in FeedRows
    /\ rebuild.at # "idle" => plan.rebuilds = 0 /\ ~worker /\ Quiet /\ rebuild.media = disk.media
    /\ ToRebuild => (lost.there => db = NoFeed) /\ (Truth.there => Restorable)

OneRebuild == ~LiveRebuild /\ \A p \in Plans : p.rebuilds <= 1

\* The row is at its first intent, without objects.
LEMMA RestoreBegins == ASSUME OneRebuild, DescInit PROVE RestoreInv
<1>1. plan \in [changes : Nat, misfortunes : Nat, rebuilds : 0 .. 1]
  <2>1. plan \in [changes : Nat, misfortunes : Nat, rebuilds : Nat] /\ plan.rebuilds <= 1
    BY DescriptorsAssumption DEF DescInit, OneRebuild
  <2> QED
    BY <2>1
<1>2. lost = NoFeed /\ rebuild = NoRebuild /\ rebuild.at = "idle" /\ rebuild.desc = NoFeed /\ disk.desc = db
      /\ disk.media = {} /\ \A t \in Tasks : task[t].desc = NoFeed
  BY DEF DescInit, NoRebuild, NoTask
<1>3. db.intent = 1
  BY DEF DescInit, NoFeed
<1>4. Truth = db
  BY <1>2, NoFeedIsARow DEF Truth
<1>5. Restorable
  BY <1>2, <1>3, <1>4, NoFeedIsARow DEF Restorable, Describes
<1> QED
  BY <1>1, <1>2, <1>5, NoFeedIsARow DEF RestoreInv

\* No Feed is older than any row.
LEMMA NoFeedDescribes == ASSUME NEW row \in FeedRows, row.intent > 0 PROVE Describes(NoFeed, row)
  BY NoFeedIsARow DEF Describes, FeedRows

\* The truth is a row; it is the row of a Feed that is there.
LEMMA TruthIsARow ==
    ASSUME DescInv, RestoreInv
    PROVE  Truth \in FeedRows /\ (ToRebuild /\ db.there => Truth = db /\ ~lost.there)
  BY NoFeedIsARow DEF Truth, DescInv, RestoreInv

\* Where the truth stays, a step keeps it restorable that keeps the descriptors to it.
LEMMA TruthStays ==
    ASSUME RestoreInv, ToRebuild' => ToRebuild, ToRebuild' => (lost'.there => db' = NoFeed) /\ Truth' = Truth,
           plan' \in [changes : Nat, misfortunes : Nat, rebuilds : 0 .. 1], lost' \in FeedRows,
           rebuild'.at # "idle" => plan'.rebuilds = 0 /\ ~worker' /\ Quiet' /\ rebuild'.media = disk'.media,
           Truth.there /\ Restorable /\ ToRebuild' => /\ Describes(disk'.desc, Truth) /\ Describes(rebuild'.desc, Truth)
                                         /\ \A t \in Tasks : Describes(task'[t].desc, Truth),
           Truth.there /\ Restorable /\ ToRebuild' /\ ~excused' =>
               ~excused /\ \A i \in disk'.media : Truth.items[i] \in {"wanted", "archived"} \/ Leaving(i)'
    PROVE  RestoreInv'
<1>1. ToRebuild' /\ Truth'.there => Restorable'
  <2> SUFFICES ASSUME ToRebuild', Truth'.there PROVE Restorable'
    OBVIOUS
  <2>1. Truth' = Truth /\ Restorable
    BY DEF RestoreInv
  <2>2. Truth'.intent > 0
    BY <2>1 DEF Restorable
  <2> QED
    BY <2>1, <2>2 DEF Restorable
<1> QED
  BY <1>1 DEF RestoreInv

\* What a change no longer wants, its hook removes.
RemovesTheRest(its, hook) ==
    \A i \in Items : db.items[i] \in {"wanted", "archived"} => its[i] \in {"wanted", "archived"} \/ hook = i

\* A committed change is newer than every descriptor; what it no longer asks for is about to go.
LEMMA ChangesRestorable ==
    ASSUME OneRebuild, DescInv, RestoreInv, NEW t \in Requests, NEW p \in Policies, NEW its \in [Items -> ItemStates],
           NEW hook \in {"none"} \cup Items, Changes(t, p, its, hook), RemovesTheRest(its, hook)
    PROVE  RestoreInv'
<1> DEFINE e == [NoTask EXCEPT !.at = "export", !.hook = hook]
<1>1. e \in Exports /\ e.at = "export" /\ e.hook = hook /\ e.desc = NoFeed
  BY NoTaskIsOne DEF Exports, NoTask
<1>2. task' = [task EXCEPT ![t] = e] /\ t \in Tasks /\ task[t].at = "idle"
  BY DEF Changes, Tasks, Idle
<1> HIDE DEF e
<1>3. \A u \in Tasks : task'[u] = IF u = t THEN e ELSE task[u]
  BY <1>1, <1>2, OneTaskMoves
<1>4. db.there /\ rebuild.at = "idle" /\ UNCHANGED <<disk, rebuild, worker, excused, lost>>
  BY DEF Changes, MayChange, OneRebuild
<1>5. plan' \in [changes : Nat, misfortunes : Nat, rebuilds : 0 .. 1] /\ plan'.rebuilds = plan.rebuilds
  BY DEF Changes, Spend, RestoreInv
<1>6. db' \in FeedRows /\ db'.there /\ db'.intent = db.intent + 1 /\ db'.items = its
  <2>1. db' = [db EXCEPT !.intent = @ + 1, !.policy = p, !.items = its] /\ db \in FeedRows
    BY DEF Changes, DescInv
  <2>2. db.there \in BOOLEAN /\ db.intent + 1 \in Nat
    BY <2>1 DEF FeedRows
  <2>3. db' = [there |-> db.there, intent |-> db.intent + 1, policy |-> p, items |-> its]
    BY <2>1 DEF FeedRows
  <2> QED
    BY <1>4, <2>2, <2>3 DEF FeedRows
<1>7. ToRebuild' => Truth' = db' /\ Truth = db /\ ~lost.there /\ Restorable
  BY <1>4, <1>5, <1>6, TruthIsARow DEF ToRebuild, Truth, RestoreInv
<1>8. ToRebuild' => Restorable'
  <2> SUFFICES ASSUME ToRebuild' PROVE Restorable'
    OBVIOUS
  <2>1. db.intent \in Nat /\ \A d \in FeedRows : Describes(d, db) => Describes(d, db')
    BY <1>6 DEF Describes, DescInv, FeedRows
  <2>2. disk.desc \in FeedRows /\ rebuild.desc \in FeedRows /\ \A u \in Tasks : task[u].desc \in FeedRows
    BY DEF DescInv, Exports, Rebuilds
  <2>3. db'.intent > 0 /\ Describes(NoFeed, db')
    BY <1>6, <2>1, NoFeedDescribes
  <2>4. Describes(disk'.desc, db') /\ Describes(rebuild'.desc, db')
    BY <1>4, <1>7, <2>1, <2>2 DEF Restorable
  <2>5. \A u \in Tasks : Describes(task'[u].desc, db')
    BY <1>1, <1>3, <1>7, <2>1, <2>2, <2>3 DEF Restorable
  <2>6. ~excused' => \A i \in disk'.media : db'.items[i] \in {"wanted", "archived"} \/ Leaving(i)'
    <3> SUFFICES ASSUME ~excused', NEW i \in disk'.media PROVE db'.items[i] \in {"wanted", "archived"} \/ Leaving(i)'
      OBVIOUS
    <3>1. i \in Items /\ i \in disk.media
      BY <1>4 DEF DescInv
    <3>2. CASE db.items[i] \in {"wanted", "archived"}
      BY <1>1, <1>2, <1>3, <1>6, <3>1, <3>2 DEF Leaving, RemovesTheRest
    <3>3. CASE Leaving(i)
      BY <1>2, <1>3, <3>3 DEF Leaving
    <3> QED
      BY <1>4, <1>7, <3>1, <3>2, <3>3 DEF Restorable
  <2> QED
    BY <1>7, <2>3, <2>4, <2>5, <2>6 DEF Restorable
<1> QED
  BY <1>4, <1>5, <1>7, <1>8 DEF RestoreInv

\* A deletion leaves nothing to bring back.
LEMMA DeleteFeedRestorable ==
    ASSUME OneRebuild, DescInv, RestoreInv, NEW t \in Requests, DeleteFeed(t) PROVE RestoreInv'
<1>1. db.there /\ rebuild.at = "idle" /\ UNCHANGED <<disk, rebuild, worker, excused, lost>> /\ db' = NoFeed
  BY DEF DeleteFeed, MayChange, OneRebuild
<1>2. plan' \in [changes : Nat, misfortunes : Nat, rebuilds : 0 .. 1] /\ plan'.rebuilds = plan.rebuilds
  BY DEF DeleteFeed, Spend, RestoreInv
<1>3. ToRebuild' => ~lost.there
  BY <1>1, <1>2, TruthIsARow DEF ToRebuild
<1>4. ToRebuild' => ~Truth'.there
  BY <1>1, <1>3, NoFeedIsARow DEF Truth
<1> QED
  BY <1>1, <1>2, <1>3, <1>4 DEF RestoreInv

\* An export reads the truth, or no Feed, and writes what it read.
LEMMA ExportRestorable ==
    ASSUME DescInv, RestoreInv, NEW t \in Tasks, Build(t) \/ Compare(t) \/ Write(t) \/ ExportFails(t)
    PROVE  RestoreInv'
<1> DEFINE e == [at |-> task'[t].at, desc |-> task'[t].desc, hook |-> task[t].hook]
<1>1. e \in Exports /\ task' = [task EXCEPT ![t] = e] /\ e.at # "idle" /\ e.hook = task[t].hook
      /\ e.desc = IF Build(t) THEN db ELSE task[t].desc
  BY DEF Build, Compare, Write, ExportFails, DescInv, Exports
<1> HIDE DEF e
<1>2. \A u \in Tasks : task'[u] = IF u = t THEN e ELSE task[u]
  BY <1>1, OneTaskMoves
<1>3. UNCHANGED <<db, rebuild, worker, lost>> /\ task[t].at # "idle" /\ disk'.media = disk.media
      /\ disk'.desc \in {disk.desc, task[t].desc}
  BY DEF Build, Compare, Write, ExportFails, DescInv
<1>4. plan' \in [changes : Nat, misfortunes : Nat, rebuilds : 0 .. 1] /\ plan'.rebuilds = plan.rebuilds
  BY DEF Build, Compare, Write, ExportFails, Spend, RestoreInv
<1>5. rebuild.at = "idle"
  BY <1>3 DEF RestoreInv, Quiet, Idle
<1>6. Truth' = Truth /\ (ToRebuild' <=> ToRebuild)
  BY <1>3, <1>4 DEF Truth, ToRebuild
<1>7. ToRebuild /\ Truth.there /\ Restorable => Describes(db, Truth)
  <2>1. CASE lost.there
    BY <2>1, TruthIsARow, NoFeedDescribes DEF Restorable, RestoreInv
  <2>2. CASE ~lost.there
    BY <2>2, TruthIsARow DEF Describes, Truth, FeedRows
  <2> QED
    BY <2>1, <2>2
<1>8. Truth.there /\ Restorable /\ ToRebuild' => /\ Describes(disk'.desc, Truth) /\ Describes(rebuild'.desc, Truth)
                                                 /\ \A u \in Tasks : Describes(task'[u].desc, Truth)
  BY <1>1, <1>2, <1>3, <1>6, <1>7 DEF Restorable
<1>9. \A i \in Items : Leaving(i) => Leaving(i)'
  BY <1>1, <1>2, <1>3 DEF Leaving
<1>10. ~excused' => ~excused
  BY DEF Build, Compare, Write, ExportFails
<1>11. \A i \in disk.media : i \in Items
  BY DEF DescInv
<1>12. Truth.there /\ Restorable /\ ToRebuild' /\ ~excused' =>
          ~excused /\ \A i \in disk'.media : Truth.items[i] \in {"wanted", "archived"} \/ Leaving(i)'
  BY <1>3, <1>9, <1>10, <1>11 DEF Restorable
<1>13. lost' \in FeedRows /\ (ToRebuild' => (lost'.there => db' = NoFeed) /\ Truth' = Truth)
  BY <1>3, <1>6 DEF RestoreInv
<1> QED
  BY <1>3, <1>4, <1>5, <1>6, <1>8, <1>12, <1>13, TruthStays

\* A hook takes the file of its item, or all of a Feed that is gone.
LEMMA HooksRestorable == ASSUME DescInv, RestoreInv, NEW t \in Tasks, Hooks(t) PROVE RestoreInv'
<1>1. task' = [task EXCEPT ![t] = NoTask] /\ task[t].at = "hooks" /\ UNCHANGED <<db, rebuild, worker, plan, excused, lost>>
  BY DEF Hooks
<1>2. \A u \in Tasks : task'[u] = IF u = t THEN NoTask ELSE task[u]
  BY <1>1, NoTaskIsOne, OneTaskMoves
<1>3. rebuild.at = "idle"
  BY <1>1 DEF RestoreInv, Quiet, Idle
<1>4. Truth' = Truth /\ (ToRebuild' <=> ToRebuild)
  BY <1>1 DEF Truth, ToRebuild
<1>5. disk'.desc \in {disk.desc, NoFeed} /\ \A i \in disk'.media : i \in disk.media /\ i \in Items /\ task[t].hook # i
  <2>1. CASE task[t].hook = "none"
    BY <2>1, DescriptorsAssumption DEF Hooks, DescInv
  <2>2. CASE task[t].hook # "none" /\ task[t].hook = "feed"
    BY <2>2 DEF Hooks, DescInv
  <2>3. CASE task[t].hook # "none" /\ task[t].hook # "feed"
    <3>1. disk' = [disk EXCEPT !.media = @ \ {task[t].hook}]
      BY <2>3 DEF Hooks
    <3> QED
      BY <3>1 DEF DescInv
  <2> QED
    BY <2>1, <2>2, <2>3
<1>6. Truth.there /\ Restorable => Describes(NoFeed, Truth)
  BY TruthIsARow, NoFeedDescribes DEF Restorable
<1>7. Truth.there /\ Restorable /\ ToRebuild' => /\ Describes(disk'.desc, Truth) /\ Describes(rebuild'.desc, Truth)
                                                 /\ \A u \in Tasks : Describes(task'[u].desc, Truth)
  <2>1. NoTask.desc = NoFeed
    BY DEF NoTask
  <2> QED
    BY <1>1, <1>2, <1>5, <1>6, <2>1 DEF Restorable
<1>8. \A i \in disk'.media : Leaving(i) => Leaving(i)'
  BY <1>2, <1>5 DEF Leaving
<1>9. Truth.there /\ Restorable /\ ToRebuild' /\ ~excused' =>
          ~excused /\ \A i \in disk'.media : Truth.items[i] \in {"wanted", "archived"} \/ Leaving(i)'
  BY <1>1, <1>5, <1>8 DEF Restorable
<1>10. lost' \in FeedRows /\ plan' \in [changes : Nat, misfortunes : Nat, rebuilds : 0 .. 1]
       /\ (ToRebuild' => (lost'.there => db' = NoFeed) /\ Truth' = Truth)
  BY <1>1, <1>4 DEF RestoreInv
<1> QED
  BY <1>1, <1>3, <1>4, <1>7, <1>9, <1>10, TruthStays

\* The worker stores what is wanted; what it registers is newer than every descriptor.
LEMMA WorkerRestorable ==
    ASSUME OneRebuild, DescInv, RestoreInv,
           (\E i \in Items : Store(i) \/ Register(i)) \/ Fire \/ WorkerStops \/ WorkerStarts
    PROVE  RestoreInv'
<1>1. ASSUME NEW i \in Items, Store(i) PROVE RestoreInv'
  <2>1. db.there /\ db.items[i] = "wanted" /\ rebuild.at = "idle" /\ disk'.media = disk.media \cup {i}
        /\ disk'.desc = disk.desc /\ UNCHANGED <<db, task, rebuild, worker, plan, excused, lost>>
    BY <1>1 DEF Store, MayChange, OneRebuild, DescInv
  <2>2. Truth' = Truth /\ (ToRebuild' <=> ToRebuild) /\ \A j \in Items : Leaving(j)' <=> Leaving(j)
    BY <2>1 DEF Truth, ToRebuild, Leaving
  <2>3. ToRebuild => Truth.items[i] = "wanted"
    BY <2>1, TruthIsARow
  <2>4. disk.media \subseteq Items
    BY DEF DescInv
  <2>5. Truth.there /\ Restorable /\ ToRebuild' /\ ~excused' =>
          ~excused /\ \A j \in disk'.media : Truth.items[j] \in {"wanted", "archived"} \/ Leaving(j)'
    BY <2>1, <2>2, <2>3, <2>4 DEF Restorable
  <2>6. lost' \in FeedRows /\ plan' \in [changes : Nat, misfortunes : Nat, rebuilds : 0 .. 1]
        /\ (ToRebuild' => (lost'.there => db' = NoFeed) /\ Truth' = Truth)
    BY <2>1, <2>2 DEF RestoreInv
  <2>7. Truth.there /\ Restorable /\ ToRebuild' => /\ Describes(disk'.desc, Truth) /\ Describes(rebuild'.desc, Truth)
                                                   /\ \A u \in Tasks : Describes(task'[u].desc, Truth)
    BY <2>1 DEF Restorable
  <2> QED
    BY <2>1, <2>2, <2>5, <2>6, <2>7, TruthStays
<1>2. ASSUME NEW i \in Items, Register(i) PROVE RestoreInv'
  <2>1. db.there /\ rebuild.at = "idle" /\ UNCHANGED <<disk, task, rebuild, worker, plan, excused, lost>>
        /\ db' = [db EXCEPT !.intent = @ + 1, !.items[i] = "archived"]
    BY <1>2 DEF Register, MayChange, OneRebuild
  <2>2. db'.intent = db.intent + 1 /\ db.intent \in Nat /\ db'.there
        /\ \A j \in Items : db'.items[j] = IF j = i THEN "archived" ELSE db.items[j]
    BY <2>1 DEF DescInv, FeedRows
  <2>3. ToRebuild' => Truth' = db' /\ Truth = db /\ ~lost.there /\ Restorable
    BY <2>1, TruthIsARow DEF ToRebuild, Truth, RestoreInv
  <2>4. \A d \in FeedRows : Describes(d, db) => Describes(d, db')
    BY <2>2 DEF Describes, FeedRows
  <2>5. disk.desc \in FeedRows /\ rebuild.desc \in FeedRows /\ \A u \in Tasks : task[u].desc \in FeedRows
    BY DEF DescInv, Exports, Rebuilds
  <2>6. disk.media \subseteq Items /\ \A j \in Items : Leaving(j)' <=> Leaving(j)
    BY <2>1 DEF DescInv, Leaving
  <2>7. ToRebuild' => /\ db'.intent > 0
                      /\ Describes(disk'.desc, db') /\ Describes(rebuild'.desc, db')
                      /\ \A u \in Tasks : Describes(task'[u].desc, db')
    BY <2>1, <2>2, <2>3, <2>4, <2>5 DEF Restorable
  <2>8. ToRebuild' /\ ~excused' => \A j \in disk'.media : db'.items[j] \in {"wanted", "archived"} \/ Leaving(j)'
    BY <2>1, <2>2, <2>3, <2>6 DEF Restorable
  <2>9. ToRebuild' => Restorable'
    BY <2>3, <2>7, <2>8 DEF Restorable
  <2> QED
    BY <2>1, <2>3, <2>9 DEF RestoreInv
<1>3. CASE Fire
  <2> DEFINE e == [task[Timer] EXCEPT !.at = "export"]
  <2>1. Timer \in Tasks /\ worker /\ UNCHANGED <<db, disk, worker, rebuild, plan, excused, lost>>
        /\ task' = [task EXCEPT ![Timer] = e] /\ Idle(Timer)
    BY <1>3 DEF Fire, Tasks, DescInv
  <2>2. e \in Exports /\ e.desc = task[Timer].desc
    BY <2>1 DEF DescInv, Exports
  <2> HIDE DEF e
  <2>3. \A u \in Tasks : task'[u] = IF u = Timer THEN e ELSE task[u]
    BY <2>1, <2>2, OneTaskMoves
  <2>4. \A u \in Tasks : task'[u].desc = task[u].desc
    BY <2>2, <2>3
  <2>5. rebuild.at = "idle" /\ Truth' = Truth /\ (ToRebuild' <=> ToRebuild)
    BY <2>1 DEF RestoreInv, Truth, ToRebuild
  <2>6. disk.media \subseteq Items /\ \A j \in Items : Leaving(j) => Leaving(j)'
    BY <2>1, <2>3 DEF DescInv, Leaving, Idle
  <2>7. Truth.there /\ Restorable /\ ToRebuild' => /\ Describes(disk'.desc, Truth) /\ Describes(rebuild'.desc, Truth)
                                                   /\ \A u \in Tasks : Describes(task'[u].desc, Truth)
    BY <2>1, <2>4 DEF Restorable
  <2>8. Truth.there /\ Restorable /\ ToRebuild' /\ ~excused' =>
          ~excused /\ \A i \in disk'.media : Truth.items[i] \in {"wanted", "archived"} \/ Leaving(i)'
    BY <2>1, <2>6 DEF Restorable
  <2>9. lost' \in FeedRows /\ plan' \in [changes : Nat, misfortunes : Nat, rebuilds : 0 .. 1]
        /\ (ToRebuild' => (lost'.there => db' = NoFeed) /\ Truth' = Truth)
    BY <2>1, <2>5 DEF RestoreInv
  <2> QED
    BY <2>1, <2>5, <2>7, <2>8, <2>9, TruthStays
<1>4. CASE WorkerStops \/ WorkerStarts
  <2>1. rebuild.at = "idle" /\ UNCHANGED <<db, disk, task, rebuild, plan, excused, lost>>
    BY <1>4 DEF WorkerStops, WorkerStarts
  <2> QED
    BY <2>1 DEF RestoreInv, ToRebuild, Restorable, Truth, Leaving
<1> QED
  BY <1>1, <1>2, <1>3, <1>4

\* What dies with its process is excused; a lost row is remembered.
LEMMA MisfortunesRestorable ==
    ASSUME DescInv, RestoreInv, Die(Requests) \/ Die({Timer}) \/ Lose
    PROVE  RestoreInv'
<1>1. ASSUME NEW tasks \in SUBSET Tasks, Die(tasks) PROVE RestoreInv'
  <2>1. task' = [t \in Tasks |-> IF t \in tasks THEN NoTask ELSE task[t]] /\ rebuild.at = "idle"
        /\ UNCHANGED <<db, disk, worker, rebuild, lost>>
    BY <1>1 DEF Die
  <2>2. plan' \in [changes : Nat, misfortunes : Nat, rebuilds : 0 .. 1] /\ plan'.rebuilds = plan.rebuilds
    BY <1>1 DEF Die, Spend, RestoreInv
  <2>3. ~excused' => ~excused /\ \A u \in tasks : Idle(u)
    BY <1>1 DEF Die
  <2>4. Truth' = Truth /\ (ToRebuild' <=> ToRebuild) /\ disk.media \subseteq Items
    BY <2>1, <2>2 DEF Truth, ToRebuild, DescInv
  <2>5. ~excused' => \A i \in Items : Leaving(i) => Leaving(i)'
    BY <2>1, <2>3 DEF Leaving, Idle
  <2>6. Truth.there /\ Restorable => Describes(NoFeed, Truth)
    BY TruthIsARow, NoFeedDescribes DEF Restorable
  <2>7. \A u \in Tasks : task'[u].desc \in {task[u].desc, NoFeed}
    BY <2>1 DEF NoTask
  <2>8. Truth.there /\ Restorable /\ ToRebuild' => /\ Describes(disk'.desc, Truth) /\ Describes(rebuild'.desc, Truth)
                                                   /\ \A u \in Tasks : Describes(task'[u].desc, Truth)
    BY <2>1, <2>6, <2>7 DEF Restorable
  <2>9. Truth.there /\ Restorable /\ ToRebuild' /\ ~excused' =>
          ~excused /\ \A i \in disk'.media : Truth.items[i] \in {"wanted", "archived"} \/ Leaving(i)'
    BY <2>1, <2>3, <2>4, <2>5 DEF Restorable
  <2>10. lost' \in FeedRows /\ (ToRebuild' => (lost'.there => db' = NoFeed) /\ Truth' = Truth)
    BY <2>1, <2>4 DEF RestoreInv
  <2> QED
    BY <2>1, <2>2, <2>4, <2>8, <2>9, <2>10, TruthStays
<1>2. CASE Lose
  <2>1. db.there /\ db' = NoFeed /\ lost' = db /\ rebuild.at = "idle" /\ UNCHANGED <<disk, task, worker, rebuild, excused>>
    BY <1>2 DEF Lose
  <2>2. plan' \in [changes : Nat, misfortunes : Nat, rebuilds : 0 .. 1] /\ plan'.rebuilds = plan.rebuilds
    BY <1>2 DEF Lose, Spend, RestoreInv
  <2>3. ToRebuild' <=> ToRebuild
    BY <2>1, <2>2 DEF ToRebuild
  <2>4. lost' \in FeedRows /\ (ToRebuild' => (lost'.there => db' = NoFeed) /\ Truth' = Truth)
    BY <2>1, <2>3, TruthIsARow DEF Truth, DescInv
  <2>5. \A i \in disk.media : Leaving(i)' <=> Leaving(i)
    BY <2>1 DEF Leaving
  <2>6. Truth.there /\ Restorable /\ ToRebuild' => /\ Describes(disk'.desc, Truth) /\ Describes(rebuild'.desc, Truth)
                                                   /\ \A u \in Tasks : Describes(task'[u].desc, Truth)
    BY <2>1 DEF Restorable
  <2>7. Truth.there /\ Restorable /\ ToRebuild' /\ ~excused' =>
          ~excused /\ \A i \in disk'.media : Truth.items[i] \in {"wanted", "archived"} \/ Leaving(i)'
    BY <2>1, <2>5 DEF Restorable
  <2> QED
    BY <2>1, <2>2, <2>3, <2>4, <2>6, <2>7, TruthStays
<1> QED
  BY <1>1, <1>2 DEF Tasks

\* The rebuild begins when nothing is under way, and is the only one.
LEMMA RebuildRestorable ==
    ASSUME OneRebuild, DescInv, RestoreInv,
           (\E yes \in BOOLEAN : ListObjects(yes)) \/ ReadDescriptor \/ RebuildFeed \/ Finish \/ RebuildEnds
    PROVE  RestoreInv'
<1>n. NoRebuild.at = "idle" /\ NoRebuild.desc = NoFeed
  BY DEF NoRebuild
<1>1. ASSUME NEW yes \in BOOLEAN, ListObjects(yes) PROVE RestoreInv'
  <2>1. plan.rebuilds = 1 /\ plan' \in [changes : Nat, misfortunes : Nat, rebuilds : 0 .. 1] /\ plan'.rebuilds = 0
    <3>1. plan.rebuilds > 0 /\ plan' = [plan EXCEPT !.rebuilds = @ - 1]
      BY <1>1 DEF ListObjects, Spend
    <3>2. plan \in [changes : Nat, misfortunes : Nat, rebuilds : 0 .. 1] /\ plan.rebuilds \in 0 .. 1
      BY DEF RestoreInv
    <3>3. plan.rebuilds = 1
      BY <3>1, <3>2
    <3> QED
      BY <3>1, <3>2, <3>3
  <2>2. ~worker /\ Quiet /\ UNCHANGED <<db, disk, task, worker, excused, lost>>
    BY <1>1 DEF ListObjects, OneRebuild
  <2>3. rebuild'.desc = NoFeed /\ rebuild'.media = disk.media
    BY <1>1, <1>n DEF ListObjects, NoRebuild
  <2>4. ToRebuild /\ Truth' = Truth /\ Quiet' /\ \A i \in disk.media : Leaving(i)' <=> Leaving(i)
    BY <2>1, <2>2 DEF ToRebuild, Truth, Quiet, Idle, Leaving
  <2>5. Truth.there /\ Restorable => Describes(NoFeed, Truth)
    BY TruthIsARow, NoFeedDescribes DEF Restorable
  <2>6. Truth.there /\ Restorable /\ ToRebuild' => /\ Describes(disk'.desc, Truth) /\ Describes(rebuild'.desc, Truth)
                                                   /\ \A u \in Tasks : Describes(task'[u].desc, Truth)
    BY <2>2, <2>3, <2>5 DEF Restorable
  <2>7. Truth.there /\ Restorable /\ ToRebuild' /\ ~excused' =>
          ~excused /\ \A i \in disk'.media : Truth.items[i] \in {"wanted", "archived"} \/ Leaving(i)'
    BY <2>2, <2>4 DEF Restorable
  <2>8. lost' \in FeedRows /\ (ToRebuild' => (lost'.there => db' = NoFeed) /\ Truth' = Truth)
    BY <2>2, <2>4 DEF RestoreInv
  <2> QED
    BY <2>1, <2>2, <2>3, <2>4, <2>6, <2>7, <2>8, TruthStays
<1>2. CASE ReadDescriptor
  <2>1. UNCHANGED <<db, disk, task, worker, plan, excused, lost>> /\ rebuild.at = "listed" /\ rebuild'.desc = disk.desc
        /\ rebuild'.media = rebuild.media
    BY <1>2 DEF ReadDescriptor, DescInv, Rebuilds
  <2>2. plan.rebuilds = 0 /\ ~worker /\ Quiet /\ rebuild.media = disk.media
    BY <2>1 DEF RestoreInv
  <2>3. ToRebuild /\ Truth' = Truth /\ Quiet' /\ \A i \in disk.media : Leaving(i)' <=> Leaving(i)
    BY <2>1, <2>2 DEF ToRebuild, Truth, Quiet, Idle, Leaving
  <2>4. Truth.there /\ Restorable /\ ToRebuild' => /\ Describes(disk'.desc, Truth) /\ Describes(rebuild'.desc, Truth)
                                                   /\ \A u \in Tasks : Describes(task'[u].desc, Truth)
    BY <2>1 DEF Restorable
  <2>5. Truth.there /\ Restorable /\ ToRebuild' /\ ~excused' =>
          ~excused /\ \A i \in disk'.media : Truth.items[i] \in {"wanted", "archived"} \/ Leaving(i)'
    BY <2>1, <2>3 DEF Restorable
  <2>6. lost' \in FeedRows /\ plan' \in [changes : Nat, misfortunes : Nat, rebuilds : 0 .. 1]
        /\ (ToRebuild' => (lost'.there => db' = NoFeed) /\ Truth' = Truth)
    BY <2>1, <2>3 DEF RestoreInv
  <2> QED
    BY <2>1, <2>2, <2>3, <2>4, <2>5, <2>6, TruthStays
<1>3. CASE RebuildFeed \/ Finish \/ RebuildEnds
  <2>1. rebuild.at # "idle" /\ UNCHANGED <<disk, task, worker>> /\ lost' \in {lost, NoFeed}
    BY <1>3 DEF RebuildFeed, Finish, RebuildEnds
  <2>2. plan.rebuilds = 0 /\ ~worker /\ Quiet /\ rebuild.media = disk.media
    BY <2>1 DEF RestoreInv
  <2>3. plan' \in [changes : Nat, misfortunes : Nat, rebuilds : 0 .. 1] /\ plan'.rebuilds = 0
    BY <1>3, <2>2 DEF RebuildFeed, Finish, RebuildEnds, Spend, RestoreInv
  <2>4. rebuild'.at \in {"idle", "rebuilt"} /\ (rebuild'.at = "rebuilt" => rebuild'.media = rebuild.media)
    BY <1>3, <1>n DEF RebuildFeed, Finish, RebuildEnds, DescInv, Rebuilds
  <2>5. ~ToRebuild' /\ Quiet'
    BY <2>1, <2>2, <2>3, <2>4 DEF ToRebuild, Quiet, Idle
  <2>6. lost' \in FeedRows
    BY <2>1, NoFeedIsARow DEF RestoreInv
  <2> QED
    BY <2>1, <2>2, <2>3, <2>4, <2>5, <2>6 DEF RestoreInv
<1> QED
  BY <1>1, <1>2, <1>3

\* Every step keeps the invariant.
LEMMA RestoreKept == ASSUME OneRebuild, DescInv, RestoreInv, [DescNext]_descVars PROVE RestoreInv'
<1>t. db.policy \in Policies /\ db.items \in [Items -> ItemStates]
  BY DEF DescInv, FeedRows
<1>i. \A i \in Items, s \in ItemStates :
         /\ [db.items EXCEPT ![i] = s] \in [Items -> ItemStates]
         /\ \A j \in Items : [db.items EXCEPT ![i] = s][j] = IF j = i THEN s ELSE db.items[j]
  BY <1>t
<1>1. ASSUME NEW t \in Requests, NEW i \in Items, Discover(t, i) PROVE RestoreInv'
  <2>1. [db.items EXCEPT ![i] = "available"] \in [Items -> ItemStates]
    BY <1>i DEF ItemStates
  <2>2. RemovesTheRest([db.items EXCEPT ![i] = "available"], "none")
    BY <1>1, <1>i DEF RemovesTheRest, Discover, ItemStates
  <2> QED
    BY <1>1, <1>t, <2>1, <2>2, ChangesRestorable DEF Discover
<1>2. ASSUME NEW t \in Requests, NEW i \in Items, Want(t, i) PROVE RestoreInv'
  <2>1. [db.items EXCEPT ![i] = "wanted"] \in [Items -> ItemStates]
    BY <1>i DEF ItemStates
  <2>2. RemovesTheRest([db.items EXCEPT ![i] = "wanted"], "none")
    BY <1>2, <1>i DEF RemovesTheRest, Want, ItemStates
  <2> QED
    BY <1>2, <1>t, <2>1, <2>2, ChangesRestorable DEF Want
<1>3. ASSUME NEW t \in Requests, NEW i \in Items, DeleteEpisode(t, i) PROVE RestoreInv'
  <2>1. [db.items EXCEPT ![i] = "deleted"] \in [Items -> ItemStates]
    BY <1>i DEF ItemStates
  <2>2. RemovesTheRest([db.items EXCEPT ![i] = "deleted"], i)
    BY <1>3, <1>i DEF RemovesTheRest, DeleteEpisode, ItemStates
  <2> QED
    BY <1>3, <1>t, <2>1, <2>2, ChangesRestorable DEF DeleteEpisode
<1>4. ASSUME NEW t \in Requests, NEW p \in Policies, SetPolicy(t, p) PROVE RestoreInv'
  BY <1>4, <1>t, ChangesRestorable DEF SetPolicy, RemovesTheRest
<1>5. CASE UNCHANGED descVars
  BY <1>5 DEF descVars, RestoreInv, ToRebuild, Restorable, Truth, Leaving, Quiet, Idle
<1> QED
  BY <1>1, <1>2, <1>3, <1>4, <1>5, DeleteFeedRestorable, ExportRestorable, HooksRestorable, WorkerRestorable,
     MisfortunesRestorable, RebuildRestorable
  DEF DescNext

\* A descriptor as new as the truth is the truth, and nothing lies there that it does not want.
LEMMA RebuiltIsSame ==
    ASSUME DescInv, NEW old \in FeedRows, rebuild.media = disk.media, rebuild.desc = old, RebuildFeed,
           \A i \in disk.media : old.items[i] \in {"wanted", "archived"},
           \A i \in Items : db.items[i] \in {old.items[i], "unknown"}
    PROVE  Same(old)
<1>1. db' = [old EXCEPT !.items = [i \in Items |-> Rebuilt(db.items[i], old.items[i], i \in disk.media, rebuild.yes)]]
  BY DEF RebuildFeed
<1>2. db'.policy = old.policy /\ db'.intent = old.intent
      /\ db'.items = [i \in Items |-> Rebuilt(db.items[i], old.items[i], i \in disk.media, rebuild.yes)]
  BY <1>1 DEF FeedRows
<1>3. ASSUME NEW i \in Items
      PROVE  Rebuilt(db.items[i], old.items[i], i \in disk.media, rebuild.yes)
                = IF old.items[i] \in {"wanted", "archived"}
                  THEN IF i \in disk.media THEN "archived" ELSE "wanted" ELSE old.items[i]
  <2>1. old.items[i] \in ItemStates
    BY DEF FeedRows
  <2>2. CASE i \in disk.media
    BY <2>2 DEF Rebuilt
  <2>3. CASE i \notin disk.media
    BY <2>1, <2>3 DEF Rebuilt, ItemStates
  <2> QED
    BY <2>2, <2>3
<1> QED
  BY <1>2, <1>3 DEF Same

RestoresNow ==
    RebuildFeed /\ ~excused =>
        /\ lost.there /\ rebuild.desc.intent = lost.intent => Same(lost)
        /\ db.there /\ rebuild.desc.intent = db.intent /\ Quiet /\ ~armed => Same(db)

\* The rebuild brings the truth back.
LEMMA RestoreHolds == ASSUME DescInv, RestoreInv PROVE RestoresNow
<1> SUFFICES ASSUME RebuildFeed, ~excused, Truth.there, rebuild.desc.intent = Truth.intent PROVE Same(Truth)
  <2>1. RebuildFeed => ToRebuild
    BY DEF RebuildFeed, ToRebuild
  <2>2. RebuildFeed /\ db.there => Truth = db
    BY <2>1, TruthIsARow
  <2>3. lost.there => Truth = lost
    BY DEF Truth
  <2> QED
    BY <2>2, <2>3 DEF RestoresNow
<1>1. rebuild.at = "read" /\ ToRebuild
  BY DEF RebuildFeed, ToRebuild
<1>2. Quiet /\ rebuild.media = disk.media /\ Restorable /\ (lost.there => db = NoFeed)
  BY <1>1 DEF RestoreInv
<1>3. rebuild.desc = Truth /\ Truth \in FeedRows
  BY <1>2, TruthIsARow DEF Restorable, Describes
<1>4. \A i \in disk.media : Truth.items[i] \in {"wanted", "archived"}
  BY <1>2 DEF Restorable, Leaving, Quiet, Idle
<1>5. \A i \in Items : db.items[i] \in {Truth.items[i], "unknown"}
  BY <1>2 DEF Truth, NoFeed, NoItems
<1> QED
  BY <1>2, <1>3, <1>4, <1>5, RebuiltIsSame

-----------------------------------------------------------------------------
(* Cookies: a change of the files loses nothing of the others.              *)

\* A finite set of numbers has a greatest one, which is what Max chooses.
LEMMA GreatestExists ==
    ASSUME NEW U \in SUBSET Nat, IsFiniteSet(U)
    PROVE  \A S \in SUBSET U : S # {} => \E m \in S : \A x \in S : x <= m
<1> DEFINE Greatest(S) == \E m \in S : \A x \in S : x <= m
           Bad == {n \in Nat : \E S \in SUBSET U : S # {} /\ Cardinality(S) = n /\ ~Greatest(S)}
<1>f. \A S \in SUBSET U : IsFiniteSet(S) /\ Cardinality(S) \in Nat
  BY FS_Subset, FS_CardinalityType
<1>1. SUFFICES ASSUME Bad # {} PROVE FALSE
  <2>1. \A S \in SUBSET U : S # {} /\ ~Greatest(S) => Cardinality(S) \in Bad
    BY <1>f
  <2> QED
    BY <2>1
<1>0. \A x, y \in Nat : <<x, y>> \in OpToRel(<, Nat) <=> x < y
  BY DEF OpToRel
<1>2. PICK n \in Bad : \A y \in Bad : ~ (<<y, n>> \in OpToRel(<, Nat))
  BY <1>1, NatLessThanWellFounded, WFMin
<1>3. PICK S \in SUBSET U : S # {} /\ Cardinality(S) = n /\ ~Greatest(S)
  OBVIOUS
<1>4. PICK x \in S : TRUE
  BY <1>3
<1> DEFINE rest == S \ {x}
<1>5. rest \in SUBSET U /\ Cardinality(rest) = n - 1 /\ Cardinality(rest) \in Nat
  BY <1>3, <1>4, <1>f, FS_RemoveElement
<1>6. Greatest(rest) \/ rest = {}
  <2> DEFINE k == Cardinality(rest)
  <2>a. k \in Nat /\ n \in Nat /\ k < n
    BY <1>5
  <2>b. k \in Bad => ~ (<<k, n>> \in OpToRel(<, Nat))
    BY <1>2
  <2> HIDE DEF k
  <2>c. <<k, n>> \in OpToRel(<, Nat)
    BY <1>0, <2>a
  <2>1. k \notin Bad
    BY <2>b, <2>c
  <2> QED
    BY <1>5, <2>1 DEF k
<1>7. CASE rest = {}
  <2>1. S = {x}
    BY <1>4, <1>7
  <2> QED
    BY <1>3, <2>1
<1>8. CASE Greatest(rest)
  <2>1. PICK m \in rest : \A y \in rest : y <= m
    BY <1>8
  <2>2. m \in Nat /\ x \in Nat /\ \A y \in S : y \in Nat /\ (y = x \/ y <= m)
    BY <1>4, <2>1
  <2>3. CASE x <= m
    BY <1>3, <2>1, <2>2, <2>3
  <2>4. CASE m < x
    <3>1. \A y \in S : y <= x
      BY <2>2, <2>4
    <3> QED
      BY <1>3, <1>4, <3>1
  <2> QED
    BY <2>2, <2>3, <2>4
<1> QED
  BY <1>6, <1>7, <1>8

\* So Max chooses the greatest number of a finite set.
LEMMA MaxIsGreatest ==
    ASSUME NEW U \in SUBSET Nat, IsFiniteSet(U), NEW S \in SUBSET U, S # {}
    PROVE  Max(S) \in S /\ \A x \in S : x <= Max(S)
<1>1. PICK m \in S : \A x \in S : x <= m
  BY GreatestExists
<1>2. \A x \in S : m >= x
  BY <1>1
<1>3. Max(S) \in S /\ \A x \in S : Max(S) >= x
  BY <1>2 DEF Max
<1> QED
  BY <1>3

CookieRows == [Keys -> Nat]
FileSets == UNION {[D -> CookieRows] : D \in SUBSET Names}
Stores == UNION {[D -> CookieRows] : D \in SUBSET (Names \cup {Jar})}
Changers == [at : {"idle", "lock", "sync", "save", "merge"}, op : {"none", "set", "delete"}, name : Names,
             text : CookieRows, base : Stores, files : FileSets]
Fetchers == [at : {"idle", "running", "put"}, base : CookieRows, copy : CookieRows]

\* The files an upload stores: those the jar was carried back into, and its own.
WithText(store, n, text) ==
    [m \in DOMAIN Synced(store) \cup {n} |-> IF m = n THEN text ELSE Synced(store)[m]]

\* A change past its sync, or waiting for it.
Changing(k) == k.at \in {"sync", "save", "merge"}
Holding(c) == call[c].op = "set" /\ Changing(call[c])

\* What an upload has read is still so when nobody but uploads write.
Sound(c) ==
    /\ call[c].at # "idle" => call[c].op = "set"
    /\ call[c].at = "save" => objects = call[c].base
    /\ call[c].at = "merge" => /\ JarOf(objects) = JarOf(call[c].base)
                               /\ [n \in Files(objects) |-> objects[n]] = call[c].files

\* The inductive invariant.
CookieInv ==
    /\ objects \in Stores /\ Cardinality(Files(objects)) <= Room
    /\ version \in Nat /\ alone \in BOOLEAN /\ raced \in BOOLEAN
    /\ call \in [Calls -> Changers] /\ fetch \in [Fetches -> Fetchers]
    /\ \A c \in Calls : call[c].at \in {"lock", "sync"} => call[c].op = "set"
    /\ \A c \in Calls : Holding(c) => lock = {c}
    /\ \A c \in lock : c \in Calls /\ Holding(c)
    /\ \A c \in Calls : call[c].at \in {"save", "merge"} => Cardinality(DOMAIN call[c].files) <= Room
    /\ \A c \in Calls : call[c].at \in {"save", "merge"} /\ call[c].op = "set" =>
           call[c].files = WithText(call[c].base, call[c].name, call[c].text)
    /\ alone => ~raced /\ \A c \in Calls : Sound(c)

\* The jar's key is no name of a file.
LEMMA JarIsNoName == Jar \notin Names /\ Names \subseteq Nat
  BY CookiesAssumption DEF Jar

\* What the functions of Stores are.
LEMMA StoreForm ==
    \A s : s \in Stores <=> DOMAIN s \subseteq Names \cup {Jar} /\ s \in [DOMAIN s -> CookieRows]
  BY DEF Stores

\* What the functions of FileSets are.
LEMMA FilesForm ==
    \A s : s \in FileSets <=> DOMAIN s \subseteq Names /\ s \in [DOMAIN s -> CookieRows]
  BY DEF FileSets

\* An empty store, which is an empty set of files.
LEMMA EmptyStore == <<>> \in Stores /\ <<>> \in FileSets /\ DOMAIN <<>> = {}
<1>1. <<>> \in [{} -> CookieRows] /\ DOMAIN <<>> = {}
  OBVIOUS
<1> QED
  BY <1>1, StoreForm, FilesForm

\* An empty file.
LEMMA NoCookiesAreRows == NoCookies \in CookieRows
  BY DEF NoCookies, CookieRows

\* An idle call.
LEMMA NoCallIsOne == NoCall \in Changers /\ NoCall.at = "idle" /\ NoCall.op = "none"
  BY EmptyStore, NoCookiesAreRows, CookiesAssumption DEF NoCall, Changers

\* An idle fetch.
LEMMA NoFetchIsOne == NoFetch \in Fetchers
  BY NoCookiesAreRows DEF NoFetch, Fetchers

\* A User's files are finitely many.
LEMMA FiniteNames ==
    /\ \A S \in SUBSET Names : IsFiniteSet(S) /\ Cardinality(S) \in Nat
    /\ \A s \in Stores : Files(s) \subseteq Names
    /\ \A s \in FileSets : DOMAIN s \subseteq Names
  BY CookiesAssumption, FS_Subset, FS_CardinalityType, StoreForm, FilesForm DEF Files

\* Loading reads the files there are, or the jar as the one file of before there were several.
LEMMA LoadForm == \A s \in Stores : Load(s) \in FileSets /\ (Files(s) # {} => DOMAIN Load(s) = Files(s))
                                    /\ (Files(s) = {} => DOMAIN Load(s) \subseteq {Legacy})
                                    /\ \A n \in Files(s) : Load(s)[n] = s[n]
<1> TAKE s \in Stores
<1>1. DOMAIN s \subseteq Names \cup {Jar} /\ s \in [DOMAIN s -> CookieRows] /\ Files(s) \subseteq Names
  BY StoreForm, FiniteNames
<1>2. CASE Files(s) # {}
  <2>1. Load(s) = [n \in Files(s) |-> s[n]]
    BY <1>2 DEF Load
  <2>2. Load(s) \in [Files(s) -> CookieRows] /\ DOMAIN Load(s) = Files(s)
    BY <1>1, <2>1 DEF Files
  <2> QED
    BY <1>1, <1>2, <2>1, <2>2, FilesForm
<1>3. CASE Files(s) = {}
  <2> DEFINE D == {m \in {Legacy} : Jar \in DOMAIN s}
  <2>1. Load(s) = [n \in D |-> s[Jar]]
    BY <1>3 DEF Load
  <2>2. Load(s) \in [D -> CookieRows] /\ DOMAIN Load(s) = D /\ D \subseteq {Legacy}
    BY <1>1, <2>1
  <2>3. D \subseteq Names
    BY <2>2, CookiesAssumption
  <2> QED
    BY <1>3, <2>2, <2>3, FilesForm
<1> QED
  BY <1>2, <1>3

\* Carried back, a file holds of each key the line of the jar, or none.
LEMMA SplitForm ==
    ASSUME NEW jar \in CookieRows, NEW files \in FileSets
    PROVE  /\ SplitJar(jar, files) \in FileSets /\ DOMAIN SplitJar(jar, files) = DOMAIN files
           /\ \A n \in DOMAIN files, k \in Keys :
                /\ SplitJar(jar, files)[n][k] \in {jar[k], 0}
                /\ files[n][k] # 0 => SplitJar(jar, files)[n][k] = jar[k]
<1> DEFINE Kin(k) == {n \in DOMAIN files : \E j \in Holds(files, n) : Domain[j] = Domain[k]}
           InFile(n, k) == files[n][k] # 0 \/ ((\A m \in DOMAIN files : files[m][k] = 0) /\ Kin(k) # {} /\ n = Min(Kin(k)))
           split == [n \in DOMAIN files |-> [k \in Keys |-> IF InFile(n, k) THEN jar[k] ELSE 0]]
<1>1. SplitJar(jar, files) = split
  BY DEF SplitJar
<1> HIDE DEF Kin
<1>2. DOMAIN split = DOMAIN files
  OBVIOUS
<1>3. \A n \in DOMAIN files, k \in Keys : split[n][k] = IF InFile(n, k) THEN jar[k] ELSE 0
  OBVIOUS
<1>4. \A k \in Keys : jar[k] \in Nat /\ 0 \in Nat
  BY DEF CookieRows
<1>5. split \in [DOMAIN files -> CookieRows]
  BY <1>4 DEF CookieRows
<1>6. split \in FileSets
  BY <1>2, <1>5, FilesForm
<1> QED
  BY <1>1, <1>2, <1>3, <1>6

\* Splitting the jar over the files adds and drops none.
LEMMA SyncedForm == \A s \in Stores : Synced(s) \in FileSets /\ DOMAIN Synced(s) = DOMAIN Load(s)
<1> TAKE s \in Stores
<1>1. CASE Jar \in DOMAIN s
  <2>1. s[Jar] \in CookieRows /\ Load(s) \in FileSets
    BY <1>1, StoreForm, LoadForm
  <2> QED
    BY <1>1, <2>1, SplitForm DEF Synced
<1>2. CASE Jar \notin DOMAIN s
  BY <1>2, LoadForm DEF Synced
<1> QED
  BY <1>1, <1>2

\* The merged jar has of each key a line of a file, if any has it.
LEMMA MergeForm ==
    ASSUME NEW files \in FileSets
    PROVE  /\ Merge(files) \in CookieRows
           /\ \A k \in Keys : \/ (\A n \in DOMAIN files : files[n][k] = 0) /\ Merge(files)[k] = 0
                              \/ \E n \in DOMAIN files : files[n][k] # 0 /\ Merge(files)[k] = files[n][k]
<1> DEFINE With(k) == {n \in DOMAIN files : files[n][k] # 0}
<1>1. Merge(files) = [k \in Keys |-> IF With(k) = {} THEN 0 ELSE files[Max(With(k))][k]]
  BY DEF Merge
<1>2. \A k \in Keys : With(k) # {} => Max(With(k)) \in With(k)
  <2> TAKE k \in Keys
  <2>1. With(k) \in SUBSET Names
    BY FilesForm
  <2> QED
    BY <2>1, MaxIsGreatest, CookiesAssumption
<1>3. \A k \in Keys, n \in DOMAIN files : files[n][k] \in Nat
  BY FilesForm DEF CookieRows
<1>4. \A k \in Keys : Merge(files)[k] = IF With(k) = {} THEN 0 ELSE files[Max(With(k))][k]
  BY <1>1
<1>5. Merge(files) \in CookieRows
  BY <1>1, <1>2, <1>3 DEF CookieRows
<1>6. ASSUME NEW k \in Keys
      PROVE  \/ (\A n \in DOMAIN files : files[n][k] = 0) /\ Merge(files)[k] = 0
             \/ \E n \in DOMAIN files : files[n][k] # 0 /\ Merge(files)[k] = files[n][k]
  <2>1. CASE With(k) = {}
    BY <1>4, <2>1
  <2>2. CASE With(k) # {}
    BY <1>2, <1>4, <2>2
  <2> QED
    BY <2>1, <2>2
<1> QED
  BY <1>5, <1>6

\* No call and no fetch at first.
LEMMA CookiesBegin == CookieInit => CookieInv
<1> SUFFICES ASSUME CookieInit PROVE CookieInv
  OBVIOUS
<1>1. objects \in Stores /\ Files(objects) = {} /\ Cardinality(Files(objects)) = 0
  BY EmptyStore, FS_EmptySet DEF CookieInit, Files
<1>2. call \in [Calls -> Changers] /\ fetch \in [Fetches -> Fetchers] /\ \A c \in Calls : call[c].at = "idle"
  BY NoCallIsOne, NoFetchIsOne DEF CookieInit
<1>3. \A c \in Calls : ~Holding(c) /\ Sound(c)
  BY <1>2 DEF Holding, Changing, Sound
<1>4. 0 <= Room
  BY CookiesAssumption
<1> QED
  BY <1>1, <1>2, <1>3, <1>4 DEF CookieInit, CookieInv

\* What one call's step leaves alone.
LEMMA OneCallMoves ==
    ASSUME CookieInv, NEW c \in Calls, NEW e \in Changers, call' = [call EXCEPT ![c] = e]
    PROVE  call' \in [Calls -> Changers] /\ \A d \in Calls : call'[d] = IF d = c THEN e ELSE call[d]
  BY DEF CookieInv

\* An upload that waits for the lock has read nothing yet.
LEMMA UploadKept ==
    ASSUME CookieInv, NEW c \in Calls, NEW n \in Names, NEW keys \in Contents, Upload(c, n, keys) PROVE CookieInv'
<1> DEFINE txt == [k \in Keys |-> IF k \in keys THEN version + 1 ELSE 0]
           e == [NoCall EXCEPT !.at = "lock", !.op = "set", !.name = n, !.text = txt]
<1>1. txt \in CookieRows
  BY DEF CookieRows, CookieInv
<1>2. call' = [call EXCEPT ![c] = e]
  BY DEF Upload
<1> HIDE DEF txt
<1>3. e \in Changers /\ e.at = "lock" /\ e.op = "set"
  BY <1>1, NoCallIsOne DEF Changers
<1> HIDE DEF e
<1>4. call' \in [Calls -> Changers] /\ \A d \in Calls : call'[d] = IF d = c THEN e ELSE call[d]
  BY <1>2, <1>3, OneCallMoves
<1>5. ~Holding(c) /\ \A d \in Calls : Holding(d)' <=> Holding(d)
  BY <1>3, <1>4 DEF Upload, Holding, Changing
<1>6. \A d \in Calls : Sound(d) => Sound(d)'
  BY <1>3, <1>4 DEF Upload, Sound
<1>7. version' \in Nat
  BY DEF Upload, CookieInv
<1> QED
  BY <1>3, <1>4, <1>5, <1>6, <1>7 DEF Upload, CookieInv

\* The lock is taken by one upload of the User.
LEMMA LockKept == ASSUME CookieInv, NEW c \in Calls, Lock(c) PROVE CookieInv'
<1> DEFINE e == [call[c] EXCEPT !.at = "sync"]
<1>1. e \in Changers /\ e.at = "sync" /\ e.op = "set"
  BY DEF Lock, CookieInv, Changers
<1>2. call' = [call EXCEPT ![c] = e]
  BY DEF Lock, CookieInv
<1> HIDE DEF e
<1>3. call' \in [Calls -> Changers] /\ \A d \in Calls : call'[d] = IF d = c THEN e ELSE call[d]
  BY <1>1, <1>2, OneCallMoves
<1>4. \A d \in Calls : ~Holding(d)
  BY DEF Lock, CookieInv
<1>5. \A d \in Calls : Holding(d)' <=> d = c
  BY <1>1, <1>3, <1>4 DEF Holding, Changing
<1>6. \A d \in Calls : Sound(d) => Sound(d)'
  BY <1>1, <1>3 DEF Lock, Sound
<1> QED
  BY <1>1, <1>3, <1>5, <1>6 DEF Lock, CookieInv

\* One more file, when there is room for it.
LEMMA RoomForOne ==
    ASSUME NEW s \in Stores, Cardinality(Files(s)) <= Room, NEW n \in Names
    PROVE  /\ Cardinality(DOMAIN Synced(s)) <= Room
           /\ HasRoom(s, n) => Cardinality(DOMAIN Synced(s) \cup {n}) <= Room
<1>1. IsFiniteSet(Files(s)) /\ Cardinality(Files(s)) \in Nat /\ DOMAIN Synced(s) = DOMAIN Load(s)
  BY FiniteNames, SyncedForm
<1>2. CASE Files(s) # {}
  <2>1. DOMAIN Synced(s) = Files(s)
    BY <1>1, <1>2, LoadForm
  <2>2. Cardinality(Files(s) \cup {n}) = IF n \in Files(s) THEN Cardinality(Files(s)) ELSE Cardinality(Files(s)) + 1
    BY <1>1, FS_AddElement
  <2> QED
    BY <1>1, <2>1, <2>2, CookiesAssumption DEF HasRoom
<1>3. CASE Files(s) = {}
  <2>1. DOMAIN Synced(s) \subseteq {Legacy}
    BY <1>1, <1>3, LoadForm
  <2>2. IsFiniteSet({Legacy}) /\ Cardinality({Legacy}) = 1
    BY FS_Singleton
  <2>3. IsFiniteSet({Legacy} \cup {n}) /\ Cardinality({Legacy} \cup {n}) <= 2 /\ Cardinality({Legacy} \cup {n}) \in Nat
    <3>1. Cardinality({Legacy} \cup {n}) = (IF n \in {Legacy} THEN 1 ELSE 1 + 1) /\ IsFiniteSet({Legacy} \cup {n})
      BY <2>2, FS_AddElement
    <3> QED
      BY <3>1
  <2>4. Cardinality(DOMAIN Synced(s)) <= 1 /\ Cardinality(DOMAIN Synced(s)) \in Nat
    BY <2>1, <2>2, FS_Subset, FS_CardinalityType
  <2>5. Cardinality(DOMAIN Synced(s) \cup {n}) <= Cardinality({Legacy} \cup {n})
        /\ Cardinality(DOMAIN Synced(s) \cup {n}) \in Nat
    <3>1. DOMAIN Synced(s) \cup {n} \in SUBSET ({Legacy} \cup {n})
      BY <2>1
    <3> QED
      BY <3>1, <2>3, FS_Subset, FS_CardinalityType
  <2>6. 2 <= Room /\ Room \in Nat
    BY CookiesAssumption
  <2> QED
    BY <2>3, <2>4, <2>5, <2>6
<1> QED
  BY <1>2, <1>3

\* An upload replaces its own file and no other.
LEMMA WithTextForm ==
    ASSUME NEW s \in Stores, NEW n \in Names, NEW text \in CookieRows
    PROVE  /\ WithText(s, n, text) \in FileSets /\ DOMAIN WithText(s, n, text) = DOMAIN Synced(s) \cup {n}
           /\ WithText(s, n, text)[n] = text
           /\ \A m \in DOMAIN Synced(s) : m # n => WithText(s, n, text)[m] = Synced(s)[m]
<1>1. Synced(s) \in [DOMAIN Synced(s) -> CookieRows] /\ DOMAIN Synced(s) \subseteq Names
  BY SyncedForm, FilesForm
<1> DEFINE D == DOMAIN Synced(s) \cup {n}
<1>2. WithText(s, n, text) \in [D -> CookieRows] /\ DOMAIN WithText(s, n, text) = D
  BY <1>1 DEF WithText
<1>3. WithText(s, n, text) \in FileSets
  BY <1>1, <1>2, FilesForm
<1> QED
  BY <1>2, <1>3 DEF WithText

\* Under the lock it reads the files and checks that there is room for one more.
LEMMA SyncKept == ASSUME CookieInv, NEW c \in Calls, Sync(c) PROVE CookieInv'
<1> DEFINE n == call[c].name
<1>0. objects \in Stores /\ n \in Names /\ call[c].text \in CookieRows /\ call[c] \in Changers
      /\ Cardinality(Files(objects)) <= Room
  BY DEF CookieInv, Changers
<1>h. Holding(c) /\ lock = {c}
  BY DEF Sync, CookieInv, Holding, Changing
<1>1. CASE HasRoom(objects, n)
  <2> DEFINE txt == WithText(objects, n, call[c].text)
             e == [call[c] EXCEPT !.at = "save", !.base = objects, !.files = txt]
  <2>1. call' = [call EXCEPT ![c] = e] /\ lock' = lock
    BY <1>1 DEF Sync, CookieInv, WithText
  <2>2. txt \in FileSets /\ Cardinality(DOMAIN txt) <= Room
    <3> DEFINE text == call[c].text
    <3>0. text \in CookieRows /\ n \in Names /\ objects \in Stores /\ txt = WithText(objects, n, text)
      BY <1>0
    <3> HIDE DEF text, n, txt
    <3>1. txt \in FileSets /\ DOMAIN txt = DOMAIN Synced(objects) \cup {n}
      BY <3>0, WithTextForm
    <3> USE DEF n
    <3>2. Cardinality(DOMAIN Synced(objects) \cup {n}) <= Room
      BY <1>0, <1>1, RoomForOne
    <3> QED
      BY <3>1, <3>2
  <2>3. txt = WithText(objects, n, call[c].text)
    OBVIOUS
  <2> HIDE DEF txt
  <2>4. e \in Changers /\ e.at = "save" /\ e.op = "set" /\ e.base = objects /\ e.files = txt
        /\ e.name = n /\ e.text = call[c].text
    BY <1>0, <2>2 DEF Sync, Changers
  <2> HIDE DEF e
  <2>5. call' \in [Calls -> Changers] /\ \A d \in Calls : call'[d] = IF d = c THEN e ELSE call[d]
    BY <2>1, <2>4, OneCallMoves
  <2>6. \A d \in Calls : Holding(d)' <=> Holding(d)
    BY <1>h, <2>4, <2>5 DEF Holding, Changing
  <2>7. \A d \in Calls : Sound(d) => Sound(d)'
    BY <2>4, <2>5 DEF Sync, Sound
  <2> QED
    BY <1>h, <2>1, <2>2, <2>3, <2>4, <2>5, <2>6, <2>7 DEF Sync, CookieInv
<1>2. CASE ~HasRoom(objects, n)
  <2>1. call' = [call EXCEPT ![c] = NoCall] /\ lock' = {}
    BY <1>h, <1>2 DEF Sync
  <2>2. call' \in [Calls -> Changers] /\ \A d \in Calls : call'[d] = IF d = c THEN NoCall ELSE call[d]
    BY <2>1, NoCallIsOne, OneCallMoves
  <2>3. \A d \in Calls : ~Holding(d)'
    BY <1>h, <2>2, NoCallIsOne DEF CookieInv, Holding, Changing
  <2>4. \A d \in Calls : Sound(d) => Sound(d)'
    BY <2>2, NoCallIsOne DEF Sync, Sound
  <2> QED
    BY <2>1, <2>2, <2>3, <2>4, NoCallIsOne DEF Sync, CookieInv
<1> QED
  BY <1>1, <1>2

\* A removal reads the files without the lock, and makes them fewer.
LEMMA RemoveKept ==
    ASSUME CookieInv, NEW c \in Calls, NEW names \in SUBSET Names, Remove(c, names) PROVE CookieInv'
<1> DEFINE left == [m \in DOMAIN Synced(objects) \ names |-> Synced(objects)[m]]
           e == [NoCall EXCEPT !.at = "save", !.op = "delete", !.base = objects, !.files = left]
<1>0. objects \in Stores /\ Cardinality(Files(objects)) <= Room
  BY DEF CookieInv
<1>1. Synced(objects) \in [DOMAIN Synced(objects) -> CookieRows] /\ DOMAIN Synced(objects) \subseteq Names
  BY <1>0, SyncedForm, FilesForm
<1>2. left \in FileSets /\ DOMAIN left = DOMAIN Synced(objects) \ names
  <2>1. left \in [DOMAIN Synced(objects) \ names -> CookieRows]
    BY <1>1
  <2> QED
    BY <1>1, <2>1, FilesForm
<1>3. Cardinality(DOMAIN left) <= Room
  <2>1. Cardinality(DOMAIN Synced(objects)) <= Room
    BY <1>0, RoomForOne, CookiesAssumption
  <2>2. /\ Cardinality(DOMAIN Synced(objects)) \in Nat /\ Cardinality(DOMAIN left) \in Nat
        /\ Cardinality(DOMAIN left) <= Cardinality(DOMAIN Synced(objects))
    <3>1. IsFiniteSet(DOMAIN Synced(objects)) /\ DOMAIN left \in SUBSET DOMAIN Synced(objects)
      BY <1>1, <1>2, FiniteNames
    <3> QED
      BY <3>1, FS_Subset, FS_CardinalityType
  <2> QED
    BY <2>1, <2>2, CookiesAssumption
<1>4. call' = [call EXCEPT ![c] = e] /\ UNCHANGED <<objects, lock, fetch, version, raced>> /\ alone' = FALSE
  BY DEF Remove
<1> HIDE DEF left
<1>5. e \in Changers /\ e.at = "save" /\ e.op = "delete" /\ e.files = left
  BY <1>0, <1>2, NoCallIsOne DEF Changers
<1> HIDE DEF e
<1>6. call' \in [Calls -> Changers] /\ \A d \in Calls : call'[d] = IF d = c THEN e ELSE call[d]
  BY <1>4, <1>5, OneCallMoves
<1>7. \A d \in Calls : Holding(d)' <=> Holding(d)
  BY <1>5, <1>6 DEF Remove, Holding, Changing
<1> QED
  BY <1>3, <1>4, <1>5, <1>6, <1>7 DEF CookieInv

\* The files are replaced by those of the call.
LEMMA SaveFilesKept == ASSUME CookieInv, NEW c \in Calls, SaveFiles(c) PROVE CookieInv'
<1> DEFINE files == call[c].files
           kept == DOMAIN files \cup (DOMAIN objects \cap {Jar})
           new == [n \in kept |-> IF n = Jar THEN objects[n] ELSE files[n]]
           e == [call[c] EXCEPT !.at = "merge"]
<1>0. /\ files \in FileSets /\ Cardinality(DOMAIN files) <= Room
      /\ objects \in Stores /\ call[c].at = "save"
  BY DEF SaveFiles, CookieInv, Changers
<1>1. /\ DOMAIN files \subseteq Names /\ files \in [DOMAIN files -> CookieRows]
      /\ objects \in [DOMAIN objects -> CookieRows]
  BY <1>0, StoreForm, FilesForm
<1>2. DOMAIN new = kept /\ new \in Stores /\ Files(new) = DOMAIN files
  <2>1. new \in [kept -> CookieRows] /\ DOMAIN new = kept
    BY <1>1, JarIsNoName
  <2>2. kept \subseteq Names \cup {Jar} /\ kept \ {Jar} = DOMAIN files
    BY <1>1, JarIsNoName
  <2> QED
    BY <2>1, <2>2, StoreForm DEF Files
<1>3. JarOf(new) = JarOf(objects) /\ [n \in Files(new) |-> new[n]] = files
  <2>1. Jar \in kept <=> Jar \in DOMAIN objects
    BY <1>1, JarIsNoName
  <2>2. JarOf(new) = JarOf(objects)
    BY <1>2, <2>1 DEF JarOf
  <2>3. \A n \in Files(new) : new[n] = files[n]
    BY <1>1, <1>2, JarIsNoName
  <2>4. [n \in Files(new) |-> new[n]] = [n \in DOMAIN files |-> files[n]]
    BY <1>2, <2>3
  <2> QED
    BY <1>1, <2>2, <2>4
<1>4. objects' = new /\ call' = [call EXCEPT ![c] = e] /\ UNCHANGED <<lock, fetch, version, alone>>
      /\ raced' = (raced \/ objects # call[c].base)
  BY DEF SaveFiles, CookieInv
<1> HIDE DEF new, kept
<1>5. e \in Changers /\ e.at = "merge" /\ e.op = call[c].op /\ e.files = files /\ e.base = call[c].base
      /\ e.name = call[c].name /\ e.text = call[c].text
  BY DEF CookieInv, Changers
<1> HIDE DEF e
<1>6. call' \in [Calls -> Changers] /\ \A d \in Calls : call'[d] = IF d = c THEN e ELSE call[d]
  BY <1>4, <1>5, OneCallMoves
<1>7. \A d \in Calls : Holding(d)' <=> Holding(d)
  BY <1>0, <1>5, <1>6 DEF Holding, Changing
<1>8. alone => ~raced' /\ \A d \in Calls : Sound(d)'
  <2> SUFFICES ASSUME alone PROVE ~raced' /\ \A d \in Calls : Sound(d)'
    OBVIOUS
  <2>1. ~raced /\ \A d \in Calls : Sound(d)
    BY DEF CookieInv
  <2>2. objects = call[c].base /\ call[c].op = "set"
    BY <1>0, <2>1 DEF Sound
  <2>3. lock = {c}
    BY <1>0, <2>2 DEF CookieInv, Holding, Changing
  <2>4. Sound(c)'
    BY <1>3, <1>4, <1>5, <1>6, <2>2 DEF Sound
  <2>5. ASSUME NEW d \in Calls, d # c PROVE Sound(d)'
    <3>1. call[d].at \notin {"save", "merge"}
      BY <2>1, <2>3, <2>5 DEF CookieInv, Holding, Changing, Sound
    <3> QED
      BY <1>6, <2>1, <2>5, <3>1 DEF Sound
  <2> QED
    BY <1>4, <2>1, <2>2, <2>4, <2>5
<1>9. \A d \in Calls : call'[d].at \in {"save", "merge"} => Cardinality(DOMAIN call'[d].files) <= Room
  BY <1>0, <1>5, <1>6 DEF CookieInv
<1>10. \A d \in Calls : call'[d].at \in {"save", "merge"} /\ call'[d].op = "set" =>
           call'[d].files = WithText(call'[d].base, call'[d].name, call'[d].text)
  BY <1>0, <1>5, <1>6 DEF CookieInv
<1>11. raced' \in BOOLEAN
  BY <1>4 DEF CookieInv
<1> QED
  BY <1>0, <1>2, <1>4, <1>5, <1>6, <1>7, <1>8, <1>9, <1>10, <1>11 DEF CookieInv

\* The jar is merged from them, and the lock released.
LEMMA SaveJarKept == ASSUME CookieInv, NEW c \in Calls, SaveJar(c) PROVE CookieInv'
<1> DEFINE files == call[c].files
           listed == Files(objects) \cup (IF DOMAIN files # {} THEN {Jar} ELSE {})
           new == [n \in listed |-> IF n = Jar THEN Merge(files) ELSE objects[n]]
<1>0. files \in FileSets /\ objects \in Stores /\ call[c].at = "merge" /\ Cardinality(Files(objects)) <= Room
  BY DEF SaveJar, CookieInv, Changers
<1>1. objects \in [DOMAIN objects -> CookieRows] /\ Merge(files) \in CookieRows /\ Files(objects) \subseteq Names
      /\ Files(objects) \subseteq DOMAIN objects
  BY <1>0, StoreForm, MergeForm, FiniteNames DEF Files
<1>2. new \in Stores /\ Files(new) = Files(objects)
  <2>1. new \in [listed -> CookieRows] /\ DOMAIN new = listed
    BY <1>1, JarIsNoName
  <2>2. listed \subseteq Names \cup {Jar} /\ listed \ {Jar} = Files(objects)
    BY <1>1, JarIsNoName
  <2> QED
    BY <2>1, <2>2, StoreForm DEF Files
<1>4. objects' = new /\ call' = [call EXCEPT ![c] = NoCall] /\ lock' = lock \ {c} /\ UNCHANGED <<fetch, version, alone>>
      /\ raced' = \/ raced \/ JarOf(objects) # JarOf(call[c].base)
                  \/ [n \in Files(objects) |-> objects[n]] # call[c].files
  BY DEF SaveJar
<1> HIDE DEF new, listed
<1>6. call' \in [Calls -> Changers] /\ \A d \in Calls : call'[d] = IF d = c THEN NoCall ELSE call[d]
  BY <1>4, NoCallIsOne, OneCallMoves
<1>7. \A d \in Calls : Holding(d)' => Holding(d) /\ d # c
  BY <1>6, NoCallIsOne DEF Holding, Changing
<1>8. \A d \in Calls : Holding(d) /\ d # c => Holding(d)'
  BY <1>6 DEF Holding, Changing
<1>9. alone => ~raced' /\ \A d \in Calls : Sound(d)'
  <2> SUFFICES ASSUME alone PROVE ~raced' /\ \A d \in Calls : Sound(d)'
    OBVIOUS
  <2>1. ~raced /\ \A d \in Calls : Sound(d)
    BY DEF CookieInv
  <2>2. ~raced' /\ call[c].op = "set"
    BY <1>0, <1>4, <2>1 DEF Sound
  <2>3. lock = {c}
    BY <1>0, <2>2 DEF CookieInv, Holding, Changing
  <2>4. Sound(c)'
    BY <1>6, NoCallIsOne DEF Sound
  <2>5. ASSUME NEW d \in Calls, d # c PROVE Sound(d)'
    <3>1. call[d].at \notin {"save", "merge"}
      BY <2>1, <2>3, <2>5 DEF CookieInv, Holding, Changing, Sound
    <3> QED
      BY <1>6, <2>1, <2>5, <3>1 DEF Sound
  <2> QED
    BY <2>2, <2>4, <2>5
<1>10. \A d \in Calls : Holding(d)' => lock' = {d}
  BY <1>4, <1>7 DEF CookieInv
<1>11. \A d \in lock' : d \in Calls /\ Holding(d)'
  BY <1>4, <1>8 DEF CookieInv
<1>12. raced' \in BOOLEAN
  BY <1>4 DEF CookieInv
<1>13. \A d \in Calls : /\ call'[d].at \in {"lock", "sync"} => call'[d].op = "set"
                        /\ call'[d].at \in {"save", "merge"} => Cardinality(DOMAIN call'[d].files) <= Room
                        /\ call'[d].at \in {"save", "merge"} /\ call'[d].op = "set" =>
                             call'[d].files = WithText(call'[d].base, call'[d].name, call'[d].text)
  BY <1>6, NoCallIsOne DEF CookieInv
<1> QED
  BY <1>0, <1>2, <1>4, <1>6, <1>9, <1>10, <1>11, <1>12, <1>13 DEF CookieInv

\* Fetches write nothing but the jar.
LEMMA FetchesKept ==
    ASSUME CookieInv, NEW f \in Fetches, Take(f) \/ Leave(f) \/ PutJar(f) \/ \E k \in Keys : Rotate(f, k)
    PROVE  CookieInv'
<1>c. UNCHANGED call => \A d \in Calls : Holding(d)' <=> Holding(d)
  BY DEF Holding, Changing
<1>s. UNCHANGED <<call, objects>> => \A d \in Calls : Sound(d)' <=> Sound(d)
  BY DEF Sound
<1>0. fetch[f] \in Fetchers /\ objects \in Stores /\ (Jar \in DOMAIN objects => objects[Jar] \in CookieRows)
  BY StoreForm DEF CookieInv
<1>1. CASE Take(f)
  <2>1. [at |-> "running", base |-> objects[Jar], copy |-> objects[Jar]] \in Fetchers
    BY <1>0, <1>1 DEF Take, Fetchers
  <2>2. fetch' \in [Fetches -> Fetchers]
    BY <1>1, <2>1 DEF Take, CookieInv
  <2> QED
    BY <1>1, <1>c, <1>s, <2>2 DEF Take, CookieInv
<1>2. CASE Leave(f)
  <2>1. [fetch[f] EXCEPT !.at = "put"] \in Fetchers
    BY <1>0 DEF Fetchers
  <2>2. fetch' = [fetch EXCEPT ![f] = [fetch[f] EXCEPT !.at = "put"]] \/ fetch' = [fetch EXCEPT ![f] = NoFetch]
    BY <1>2 DEF Leave
  <2>3. fetch' \in [Fetches -> Fetchers]
    BY <2>1, <2>2, NoFetchIsOne DEF CookieInv
  <2> QED
    BY <1>2, <1>c, <1>s, <2>3 DEF Leave, CookieInv
<1>3. CASE PutJar(f)
  <2> DEFINE D == DOMAIN objects \cup {Jar}
             new == [n \in D |-> IF n = Jar THEN fetch[f].copy ELSE objects[n]]
  <2>1. fetch[f].copy \in CookieRows /\ objects \in [DOMAIN objects -> CookieRows] /\ DOMAIN objects \subseteq Names \cup {Jar}
    BY <1>0, StoreForm DEF Fetchers
  <2>2. new \in [D -> CookieRows] /\ DOMAIN new = D /\ D \subseteq Names \cup {Jar} /\ D \ {Jar} = DOMAIN objects \ {Jar}
    BY <2>1
  <2>3. new \in Stores /\ Files(new) = Files(objects)
    BY <2>2, StoreForm DEF Files
  <2>4. objects' = new /\ alone' = FALSE /\ fetch' \in [Fetches -> Fetchers] /\ raced' \in BOOLEAN
        /\ UNCHANGED <<call, lock, version>>
    BY <1>3, NoFetchIsOne DEF PutJar, CookieInv
  <2> HIDE DEF new
  <2> QED
    BY <1>c, <2>3, <2>4 DEF CookieInv
<1>4. ASSUME NEW k \in Keys, Rotate(f, k) PROVE CookieInv'
  <2>1. version \in Nat /\ version' = version + 1
    BY <1>4 DEF Rotate, CookieInv
  <2>2. PICK v \in {0, version + 1} : fetch' = [fetch EXCEPT ![f].copy[k] = v]
    BY <1>4 DEF Rotate
  <2> DEFINE row == [fetch[f].copy EXCEPT ![k] = v]
             e == [fetch[f] EXCEPT !.copy = row]
  <2>3. row \in CookieRows
    BY <1>0, <2>1 DEF Fetchers, CookieRows
  <2>4. fetch' = [fetch EXCEPT ![f] = e]
    BY <2>2 DEF CookieInv
  <2> HIDE DEF row
  <2>5. e \in Fetchers
    BY <1>0, <2>3 DEF Fetchers
  <2> HIDE DEF e
  <2>6. fetch' \in [Fetches -> Fetchers]
    BY <2>4, <2>5 DEF CookieInv
  <2> QED
    BY <1>4, <1>c, <1>s, <2>1, <2>6 DEF Rotate, CookieInv
<1> QED
  BY <1>1, <1>2, <1>3, <1>4

\* Every step keeps the invariant.
LEMMA CookiesKept == CookieInv /\ [CookieNext]_cookieVars => CookieInv'
<1> SUFFICES ASSUME CookieInv, [CookieNext]_cookieVars PROVE CookieInv'
  OBVIOUS
<1>1. CASE UNCHANGED cookieVars
  BY <1>1 DEF cookieVars, CookieInv, Holding, Changing, Sound
<1> QED
  BY <1>1, UploadKept, RemoveKept, LockKept, SyncKept, SaveFilesKept, SaveJarKept, FetchesKept DEF CookieNext

\* Of a key another file holds the jar keeps its line; what only the upload has is the upload's.
LEMMA OthersAreCarriedOn == ASSUME CookieInv, NEW c \in Calls PROVE OthersCarriedOn(c)
<1> SUFFICES ASSUME SaveJar(c), call[c].op = "set", Jar \in DOMAIN call[c].base, NEW k \in Keys
             PROVE  LET others == Files(call[c].base) \ {call[c].name}
                    IN  /\ (\E n \in others : call[c].base[n][k] # 0) /\ call[c].text[k] = 0
                             => objects'[Jar][k] = call[c].base[Jar][k]
                        /\ call[c].text[k] # 0
                             /\ (\A n \in DOMAIN call[c].files \ {call[c].name} : call[c].files[n][k] = 0)
                             => objects'[Jar][k] = call[c].text[k]
  BY DEF OthersCarriedOn
<1> DEFINE base == call[c].base
           files == call[c].files
           n0 == call[c].name
           text == call[c].text
           jar == base[Jar]
<1>1. base \in Stores /\ files \in FileSets /\ n0 \in Names /\ text \in CookieRows /\ jar \in CookieRows
      /\ files = WithText(base, n0, text)
  BY StoreForm DEF SaveJar, CookieInv, Changers
<1>2. Synced(base) = SplitJar(jar, Load(base)) /\ Load(base) \in FileSets
  BY <1>1, LoadForm DEF Synced
<1>3. /\ DOMAIN files = DOMAIN Synced(base) \cup {n0} /\ files[n0] = text
      /\ \A m \in DOMAIN Synced(base) : m # n0 => files[m] = Synced(base)[m]
  BY <1>1, WithTextForm
<1>4. objects'[Jar] = Merge(files)
  <2>1. DOMAIN files # {}
    BY <1>3
  <2> QED
    BY <2>1 DEF SaveJar
<1>5. \/ (\A n \in DOMAIN files : files[n][k] = 0) /\ Merge(files)[k] = 0
      \/ \E n \in DOMAIN files : files[n][k] # 0 /\ Merge(files)[k] = files[n][k]
  BY <1>1, MergeForm
<1> HIDE DEF base, files, n0, text, jar
<1>6. ASSUME NEW n \in Files(base) \ {n0}, base[n][k] # 0, text[k] = 0 PROVE objects'[Jar][k] = jar[k]
  <2>1. n \in DOMAIN Load(base) /\ Load(base)[n][k] # 0
    BY <1>1, <1>6, LoadForm
  <2>2. DOMAIN Synced(base) = DOMAIN Load(base) /\ \A m \in DOMAIN Load(base) : Synced(base)[m][k] \in {jar[k], 0}
    BY <1>1, <1>2, SplitForm
  <2>3. Synced(base)[n][k] = jar[k]
    BY <1>1, <1>2, <2>1, SplitForm
  <2>4. n \in DOMAIN files /\ files[n][k] = jar[k] /\ \A m \in DOMAIN files : files[m][k] \in {jar[k], 0}
    BY <1>3, <1>6, <2>1, <2>2, <2>3
  <2> QED
    BY <1>4, <1>5, <2>4
<1>7. ASSUME text[k] # 0, \A n \in DOMAIN files \ {n0} : files[n][k] = 0 PROVE objects'[Jar][k] = text[k]
  BY <1>3, <1>4, <1>5, <1>7
<1> QED
  BY <1>6, <1>7 DEF base, files, n0, text, jar

\* What JarKept says of a step.
LEMMA JarSteps ==
    ASSUME CookieInv, CookieInv', [CookieNext]_cookieVars
    PROVE  [UploadsDoNotRace' /\ \A c \in Calls : OthersCarriedOn(c)]_cookieVars
  BY OthersAreCarriedOn DEF UploadsDoNotRace, CookieInv

-----------------------------------------------------------------------------
(* Assets: rows and objects follow each other.                              *)

AssetKinds == {"artwork", "chapters", "transcript", "attachment"}
WorkPlaces == {"idle", "media", "engine", "source", "notes", "record"}
RowStates == {"wanted", "archiving", "archived", "failed", "deleted"}

\* What one attempt has written so far.
Mine == work.uploaded \cup Local

\* The offers of one supplier that were placed: one of each identity, under a name of its kind.
PlacedOnce(placed) ==
    /\ \A p \in placed : p.id = <<p.kind, p.lang>> /\ p.name[1] = p.kind
                         /\ p.kind \in AssetKinds /\ p.failed \in BOOLEAN
    /\ \A p, q \in placed : p.id = q.id => p = q

\* Suppliers do not meet in an identity, but where the Engine's failed.
Suppliers ==
    /\ PlacedOnce(work.engine) /\ PlacedOnce(work.source) /\ PlacedOnce(work.notes)
    /\ \A p \in work.engine \cup work.source : p.kind # "attachment"
    /\ \A p \in work.notes : p.kind = "attachment"
    /\ \A p \in work.source, q \in work.engine : p.id = q.id => q.failed

\* What the job has in hand at each place.
InHand ==
    /\ work.at \in WorkPlaces /\ work.brings \in Brings \cup {{}}
    /\ work.at \in {"idle", "media", "engine"} => work.engine = {}
    /\ work.at \in {"idle", "media", "engine", "source"} => work.source = {}
    /\ work.at \in {"idle", "media", "engine", "source", "notes"} => work.notes = {}
    /\ work.at \in {"idle", "media"} => work.uploaded = {}
    /\ work.at \notin {"idle", "media"} => Media \subseteq work.uploaded
    /\ \A n \in work.uploaded : n[1] # "feed" /\ (n \in Media \/ n = Sidecar \/ n \in NamesOf(work.engine))

AssetTypes ==
    /\ item = [state |-> item.state, att |-> item.att, got |-> item.got] /\ item.state \in RowStates
    /\ count = [attempts |-> count.attempts, faults |-> count.faults, broken |-> count.broken,
                late |-> count.late]
    /\ count.attempts \in Nat /\ count.late \in BOOLEAN
    /\ work = [at |-> work.at, brings |-> work.brings, uploaded |-> work.uploaded,
               engine |-> work.engine, source |-> work.source, notes |-> work.notes]
    /\ \A n \in DOMAIN stored : stored[n] \in Nat /\ stored[n] <= count.attempts
    /\ \A r \in removals : /\ r.att \in Nat /\ r.att <= count.attempts
                           /\ \A n \in r.names : n[1] # "feed"

\* The row, the job and the removals under way: an attempt that can still be
\* registered is later than every deletion.
InTurn ==
    /\ work.at # "idle" => item.state # "archived"
    /\ item.state # "archived" => DOMAIN rows = {}
    /\ item.state \in {"archiving", "archived"} => \A r \in removals : r.att < count.attempts
    /\ item.state = "archived" => item.att = count.attempts

\* What is there: what a registrable attempt wrote, and what rows name.
There ==
    /\ (item.state = "archiving" /\ work.at # "idle" /\ ~count.late) =>
          \A n \in Mine : n \in DOMAIN stored /\ stored[n] = count.attempts
    /\ \A i \in DOMAIN rows : rows[i].state = "archived" => rows[i].name[1] \in AssetKinds
    /\ item.state = "archived" =>
          \A i \in item.got : i \in DOMAIN rows /\ rows[i].state = "archived"
    /\ (item.state = "archived" /\ ~count.late) =>
          /\ \A i \in DOMAIN rows : rows[i].state = "archived" =>
                rows[i].name \in DOMAIN stored /\ stored[rows[i].name] = item.att
          /\ \A n \in Media : n \in DOMAIN stored /\ stored[n] = item.att

\* What is stored has an owner.
Owned(n) ==
    \/ n[1] \in {"feed", "xml"} \/ by_basename(n) # {}
    \/ item.state = "archived" /\ n \in Media
    \/ work.at # "idle" /\ stored[n] = count.attempts
    \/ stored[n] \in count.broken
    \/ \E r \in removals : n \in r.names
AllOwned ==
    /\ \A n \in DOMAIN stored : Owned(n)
    /\ work.at # "idle" => \A n \in DOMAIN stored :
          stored[n] = count.attempts => n \in Mine \/ n[1] \in {"feed", "xml"}

\* The Feed's Artwork: while none is recorded, only what a Refresh has in hand is stored.
ArtKept ==
    /\ art = [state |-> art.state, name |-> art.name, at |-> art.at, fetched |-> art.fetched,
              broken |-> art.broken]
    /\ art.at \in {"idle", "fetch", "record"} /\ art.broken \in BOOLEAN
    /\ art.at # "idle" => art.state # "archived"
    /\ art.at # "record" => art.fetched = <<>>
    /\ art.at = "record" => art.fetched \in {<<>>, ArtKey("jpg"), ArtKey("png")}
    /\ art.fetched # <<>> => art.fetched \in DOMAIN stored
    /\ art.state # "archived" => art.name = <<>>
    /\ art.state = "archived" => /\ art.name \in {ArtKey("jpg"), ArtKey("png")}
                                 /\ art.name \in DOMAIN stored
    /\ \A ext \in {"jpg", "png"} : ArtKey(ext) \in DOMAIN stored =>
          art.broken \/ ArtKey(ext) \in {art.name, art.fetched}

AssetInv == AssetTypes /\ InHand /\ Suppliers /\ InTurn /\ There /\ AllOwned /\ ArtKept

\* A dictionary over another.
LEMMA OverForm ==
    ASSUME NEW f, NEW g
    PROVE  /\ DOMAIN Over(f, g) = DOMAIN f \cup DOMAIN g
           /\ \A x \in DOMAIN f : Over(f, g)[x] = f[x]
           /\ \A x \in DOMAIN g : x \notin DOMAIN f => Over(f, g)[x] = g[x]
BY DEF Over

\* A name tells its kind.
LEMMA NameForms ==
    /\ \A n \in Media : n[1] \in {"media", "info"}
    /\ Sidecar[1] = "xml"
    /\ \A ext : ArtKey(ext)[1] = "feed" /\ ArtKey(ext) # <<>>
    /\ ArtKey("jpg") # ArtKey("png")
BY DEF Media, Sidecar, ArtKey

\* Placing the offers of one supplier.
LEMMA PlacedForm ==
    ASSUME NEW offers, \A o \in offers : o \in UNION Brings, NEW by,
           \A o \in offers : o.by = by, NEW ext, NEW bad
    PROVE  /\ PlacedOnce(mirror_asset(offers, ext, bad))
           /\ \A p \in mirror_asset(offers, ext, bad) :
                 \E o \in offers : p.kind = o.kind /\ p.lang = o.lang
           /\ \A n \in NamesOf(mirror_asset(offers, ext, bad)) : n[1] \in AssetKinds
<1> DEFINE placed == mirror_asset(offers, ext, bad)
           pl(o)  == Placed(o, ext, o \in bad)
<1>1. ASSUME NEW o \in offers
      PROVE  /\ pl(o).id = <<o.kind, o.lang>> /\ pl(o).kind = o.kind /\ pl(o).lang = o.lang
             /\ pl(o).name[1] = o.kind /\ pl(o).failed \in BOOLEAN /\ o.kind \in AssetKinds
             /\ o = [kind |-> o.kind, lang |-> o.lang, by |-> by]
  <2>1. o = [kind |-> o.kind, lang |-> o.lang, by |-> by] /\ o.kind \in AssetKinds
    BY AssetsAssumption DEF AssetKinds
  <2>2. asset_basename(o, ext)[1] = o.kind
    BY DEF asset_basename
  <2> QED
    BY <2>1, <2>2 DEF Placed, Identity
<1>2. \A p \in placed : \E o \in offers : p = pl(o)
  BY DEF mirror_asset
<1>3. \A p \in placed : /\ p.id = <<p.kind, p.lang>> /\ p.name[1] = p.kind
                        /\ p.kind \in AssetKinds /\ p.failed \in BOOLEAN
                        /\ \E o \in offers : p.kind = o.kind /\ p.lang = o.lang
  <2> SUFFICES ASSUME NEW p \in placed
               PROVE  /\ p.id = <<p.kind, p.lang>> /\ p.name[1] = p.kind
                      /\ p.kind \in AssetKinds /\ p.failed \in BOOLEAN
                      /\ \E o \in offers : p.kind = o.kind /\ p.lang = o.lang
    OBVIOUS
  <2>1. PICK o \in offers : p = pl(o)
    BY <1>2
  <2> HIDE DEF placed, pl
  <2> QED
    BY <1>1, <2>1
<1>4. ASSUME NEW p \in placed, NEW q \in placed, p.id = q.id PROVE p = q
  <2>1. PICK o \in offers : p = pl(o)
    BY <1>2
  <2>2. PICK u \in offers : q = pl(u)
    BY <1>2
  <2>3. o.kind = u.kind /\ o.lang = u.lang
    BY <1>1, <1>4, <2>1, <2>2
  <2>4. o = u
    BY <1>1, <2>3
  <2> QED
    BY <2>1, <2>2, <2>4
<1>5. \A n \in NamesOf(placed) : n[1] \in AssetKinds
  BY <1>3 DEF NamesOf
<1> QED
  BY <1>3, <1>4, <1>5 DEF PlacedOnce

\* Nothing is written at first.
LEMMA AssetsBegin == AssetInit => AssetInv
<1> SUFFICES ASSUME AssetInit PROVE AssetInv
  OBVIOUS
<1>1. AssetTypes /\ InHand /\ Suppliers
  BY DEF AssetInit, AssetTypes, InHand, Suppliers, PlacedOnce, NoWork, RowStates, WorkPlaces
<1>2. InTurn /\ There /\ AllOwned
  BY DEF AssetInit, InTurn, There, AllOwned, NoWork
<1>3. ArtKept
  BY DEF AssetInit, ArtKept, NoArt
<1> QED
  BY <1>1, <1>2, <1>3 DEF AssetInv

\* What a step of the job writes beside what is stored.
LEMMA WrittenKept ==
    ASSUME AssetInv, UNCHANGED <<item, rows, removals, art, count>>,
           NEW names, stored' = Over(Written(names), stored),
           work.at # "idle", work'.at # "idle",
           \A n \in names : n[1] # "feed",
           names \cup Mine \subseteq Mine', \A n \in Mine' : n \in Mine \/ n \in names
    PROVE  /\ \A n \in DOMAIN stored' : stored'[n] \in Nat /\ stored'[n] <= count'.attempts
           /\ InTurn' /\ There' /\ AllOwned' /\ ArtKept'
<1>0. AssetTypes /\ InTurn /\ There /\ AllOwned /\ ArtKept
  BY DEF AssetInv
<1>1. /\ DOMAIN stored' = names \cup DOMAIN stored
      /\ \A n \in names : stored'[n] = count.attempts
      /\ \A n \in DOMAIN stored : n \notin names => stored'[n] = stored[n]
  <2>1. DOMAIN Written(names) = names /\ \A n \in names : Written(names)[n] = count.attempts
    BY DEF Written
  <2> DEFINE w == Written(names)
  <2>2. /\ DOMAIN Over(w, stored) = DOMAIN w \cup DOMAIN stored
        /\ \A x \in DOMAIN w : Over(w, stored)[x] = w[x]
        /\ \A x \in DOMAIN stored : x \notin DOMAIN w => Over(w, stored)[x] = stored[x]
    BY OverForm
  <2>3. stored' = Over(w, stored)
    OBVIOUS
  <2>4. DOMAIN w = names /\ \A n \in names : w[n] = count.attempts
    BY <2>1
  <2> HIDE DEF w
  <2> QED
    BY <2>2, <2>3, <2>4
<1>2. item.state # "archived" /\ DOMAIN rows = {}
  BY <1>0 DEF InTurn
<1>3. \A n \in DOMAIN stored' : stored'[n] \in Nat /\ stored'[n] <= count'.attempts
  BY <1>0, <1>1 DEF AssetTypes
<1>4. InTurn'
  BY <1>0 DEF InTurn
<1>5. There'
  BY <1>0, <1>1, <1>2 DEF There
<1>6. AllOwned'
  <2>1. ASSUME NEW n \in DOMAIN stored' PROVE Owned(n)'
    <3>1. CASE n \in names
      BY <1>1, <3>1 DEF Owned
    <3>2. CASE n \notin names
      <4>1. Owned(n) /\ stored'[n] = stored[n]
        BY <1>0, <1>1, <3>2 DEF AllOwned
      <4>2. by_basename(n)' = by_basename(n)
        BY DEF by_basename
      <4> QED
        BY <4>1, <4>2 DEF Owned
    <3> QED
      BY <3>1, <3>2
  <2>2. ASSUME NEW n \in DOMAIN stored', stored'[n] = count'.attempts
        PROVE  n \in Mine' \/ n[1] \in {"feed", "xml"}
    BY <1>0, <1>1, <2>2 DEF AllOwned
  <2> QED
    BY <2>1, <2>2 DEF AllOwned
<1>7. ArtKept'
  <2>1. \A n \in DOMAIN stored' : n[1] = "feed" => n \in DOMAIN stored
    BY <1>1
  <2>2. DOMAIN stored \subseteq DOMAIN stored'
    BY <1>1
  <2> QED
    BY <1>0, <2>1, <2>2, NameForms DEF ArtKept
<1> QED
  BY <1>3, <1>4, <1>5, <1>6, <1>7

\* The media, what the Engine left, what the Source lists and what the notes embed.
LEMMA ProducedKept ==
    ASSUME AssetInv, upload_media \/ place_engine_outputs \/ mirror_item_assets \/ mirror_description_attachments
    PROVE  AssetInv'
<1>0. AssetTypes /\ InHand /\ Suppliers /\ ArtKept
  BY DEF AssetInv
<1>1. UNCHANGED <<item, rows, removals, art, count>>
  BY DEF upload_media, place_engine_outputs, mirror_item_assets, mirror_description_attachments
<1>3. ASSUME work' = [at |-> work'.at, brings |-> work'.brings, uploaded |-> work'.uploaded,
                      engine |-> work'.engine, source |-> work'.source, notes |-> work'.notes],
             \A n \in DOMAIN stored' : stored'[n] \in Nat /\ stored'[n] <= count'.attempts
      PROVE  AssetTypes'
  BY <1>0, <1>1, <1>3 DEF AssetTypes
<1>4. \A b \in Brings \cup {{}} : \A o \in b : o \in UNION Brings
  OBVIOUS
<1>5. ASSUME NEW names, stored' = Over(Written(names), stored),
             work.at # "idle", work'.at # "idle",
             \A n \in names : n[1] # "feed",
             names \cup Mine \subseteq Mine', \A n \in Mine' : n \in Mine \/ n \in names,
             work' = [at |-> work'.at, brings |-> work'.brings, uploaded |-> work'.uploaded,
                      engine |-> work'.engine, source |-> work'.source, notes |-> work'.notes],
             InHand', Suppliers'
      PROVE  AssetInv'
  BY <1>1, <1>3, <1>5, WrittenKept DEF AssetInv
<1>6. CASE upload_media
  <2>1. /\ work.at = "media" /\ stored' = Over(Written(Media), stored)
        /\ work' = [work EXCEPT !.at = "engine", !.uploaded = @ \cup Media]
    BY <1>6 DEF upload_media
  <2>2. /\ work' = [at |-> "engine", brings |-> work.brings, uploaded |-> work.uploaded \cup Media,
                    engine |-> work.engine, source |-> work.source, notes |-> work.notes]
    BY <1>0, <2>1 DEF AssetTypes
  <2>3. InHand'
    BY <1>0, <2>1, <2>2, NameForms DEF InHand, WorkPlaces
  <2>4. Suppliers'
    BY <1>0, <2>2 DEF Suppliers
  <2>5. Mine' = Mine \cup Media
    BY <2>2 DEF Mine, Local
  <2> QED
    BY <1>5, <2>1, <2>2, <2>3, <2>4, <2>5, NameForms
<1>7. CASE place_engine_outputs
  <2>1. PICK ext \in {"jpg", "png"}, bad \in SUBSET {o \in Produced : o.kind = "transcript"} :
         LET placed == {Placed(o, ext, o \in bad) : o \in Produced}
         IN  /\ stored' = Over(Written(NamesOf(placed)), stored)
             /\ work' = [work EXCEPT !.at = "source", !.engine = placed,
                                     !.uploaded = @ \cup NamesOf(placed)]
    BY <1>7 DEF place_engine_outputs
  <2> DEFINE placed == mirror_asset(Produced, ext, bad)
  <2>2. /\ PlacedOnce(placed)
        /\ \A p \in placed : \E o \in Produced : p.kind = o.kind /\ p.lang = o.lang
        /\ \A n \in NamesOf(placed) : n[1] \in AssetKinds
    <3>1. \A o \in Produced : o \in UNION Brings /\ o.by = "engine"
      BY <1>0, <1>4 DEF Produced, InHand
    <3> QED
      BY <3>1, PlacedForm
  <2>3. stored' = Over(Written(NamesOf(placed)), stored)
        /\ work' = [work EXCEPT !.at = "source", !.engine = placed, !.uploaded = @ \cup NamesOf(placed)]
    BY <2>1 DEF mirror_asset
  <2>4. \A o \in Produced : o.kind # "attachment"
    BY <1>0, <1>4, AssetsAssumption DEF Produced, InHand
  <2> HIDE DEF placed
  <2>5. work.at = "engine"
    BY <1>7 DEF place_engine_outputs
  <2>6. work' = [at |-> "source", brings |-> work.brings, uploaded |-> work.uploaded \cup NamesOf(placed),
                 engine |-> placed, source |-> work.source, notes |-> work.notes]
    BY <1>0, <2>3 DEF AssetTypes
  <2>7. \A n \in NamesOf(placed) : n[1] # "feed"
    BY <2>2 DEF AssetKinds
  <2>9. /\ work.source = {} /\ work.notes = {} /\ work.engine = {}
        /\ \A n \in work.uploaded : n \in Media \/ n = Sidecar
    BY <1>0, <2>5 DEF InHand, NamesOf
  <2>8. InHand'
    BY <1>0, <2>5, <2>6, <2>7, <2>9 DEF InHand, WorkPlaces
  <2>10. Suppliers'
    BY <1>0, <2>2, <2>4, <2>6, <2>9 DEF Suppliers
  <2>11. Mine' = work.uploaded \cup NamesOf(placed) /\ Mine = work.uploaded
    BY <2>6, <2>9 DEF Mine, Local, NamesOf
  <2> QED
    BY <1>5, <2>3, <2>5, <2>6, <2>7, <2>8, <2>10, <2>11
<1>8. CASE mirror_item_assets
  <2>1. PICK ext \in {"jpg", "png"}, bad \in SUBSET Remotes :
         LET placed == mirror_asset(Remotes, ext, bad)
         IN  /\ stored' = Over(Written(NamesOf(placed) \cup {Sidecar}), stored)
             /\ work' = [work EXCEPT !.at = "notes", !.source = placed,
                                     !.uploaded = @ \cup {Sidecar}]
    BY <1>8 DEF mirror_item_assets
  <2> DEFINE placed == mirror_asset(Remotes, ext, bad)
  <2>2. /\ PlacedOnce(placed)
        /\ \A p \in placed : \E o \in Remotes : p.kind = o.kind /\ p.lang = o.lang
        /\ \A n \in NamesOf(placed) : n[1] \in AssetKinds
    <3>1. \A o \in Remotes : o \in UNION Brings /\ o.by = "source"
      BY <1>0, <1>4 DEF Remotes, InHand
    <3> QED
      BY <3>1, PlacedForm
  <2>3. stored' = Over(Written(NamesOf(placed) \cup {Sidecar}), stored)
        /\ work' = [work EXCEPT !.at = "notes", !.source = placed, !.uploaded = @ \cup {Sidecar}]
    BY <2>1
  <2>4. \A o \in Remotes : o.kind # "attachment" /\ ~Has(work.engine, o)
    BY <1>0, <1>4, AssetsAssumption DEF Remotes, InHand
  <2> HIDE DEF placed
  <2>5. work.at = "source"
    BY <1>8 DEF mirror_item_assets
  <2>6. work' = [at |-> "notes", brings |-> work.brings, uploaded |-> work.uploaded \cup {Sidecar},
                 engine |-> work.engine, source |-> placed, notes |-> work.notes]
    BY <1>0, <2>3 DEF AssetTypes
  <2>7. \A n \in NamesOf(placed) \cup {Sidecar} : n[1] # "feed"
    BY <2>2, NameForms DEF AssetKinds
  <2>8. InHand'
    BY <1>0, <2>5, <2>6, <2>7 DEF InHand, WorkPlaces
  <2>9. work.source = {} /\ work.notes = {}
    BY <1>0, <2>5 DEF InHand
  <2>10. ASSUME NEW p \in placed, NEW q \in work.engine, p.id = q.id PROVE q.failed
    <3>1. PICK o \in Remotes : p.kind = o.kind /\ p.lang = o.lang
      BY <2>2
    <3>2. p.id = <<p.kind, p.lang>> /\ q.id = <<q.kind, q.lang>>
      BY <1>0, <2>2 DEF Suppliers, PlacedOnce
    <3>3. q.kind = o.kind /\ q.lang = o.lang
      <4>1. <<p.kind, p.lang>> = <<q.kind, q.lang>>
        BY <2>10, <3>2
      <4> QED
        BY <3>1, <4>1
    <3> QED
      BY <2>4, <3>3 DEF Has
  <2>11. Suppliers'
    BY <1>0, <2>2, <2>4, <2>6, <2>9, <2>10 DEF Suppliers
  <2>12. Mine' = (work.uploaded \cup {Sidecar}) \cup (NamesOf(work.engine) \cup NamesOf(placed))
         /\ Mine = work.uploaded \cup NamesOf(work.engine)
    BY <2>6, <2>9 DEF Mine, Local, NamesOf
  <2> DEFINE names == NamesOf(placed) \cup {Sidecar}
  <2>13. stored' = Over(Written(names), stored)
    BY <2>3
  <2>14. \A n \in names : n[1] # "feed"
    BY <2>7
  <2>15. names \cup Mine \subseteq Mine' /\ \A n \in Mine' : n \in Mine \/ n \in names
    BY <2>12
  <2>16. /\ work.at # "idle" /\ work'.at # "idle"
         /\ work' = [at |-> work'.at, brings |-> work'.brings, uploaded |-> work'.uploaded,
                     engine |-> work'.engine, source |-> work'.source, notes |-> work'.notes]
    BY <2>5, <2>6
  <2> HIDE DEF names
  <2> QED
    BY <1>5, <2>8, <2>11, <2>13, <2>14, <2>15, <2>16
<1>9. CASE mirror_description_attachments
  <2>1. PICK bad \in SUBSET Embedded :
         LET placed == mirror_asset(Embedded, "jpg", bad)
         IN  /\ stored' = Over(Written(NamesOf(placed)), stored)
             /\ work' = [work EXCEPT !.at = "record", !.notes = placed]
    BY <1>9 DEF mirror_description_attachments
  <2> DEFINE placed == mirror_asset(Embedded, "jpg", bad)
  <2>2. /\ PlacedOnce(placed)
        /\ \A p \in placed : \E o \in Embedded : p.kind = o.kind /\ p.lang = o.lang
        /\ \A n \in NamesOf(placed) : n[1] \in AssetKinds
    <3>1. \A o \in Embedded : o \in UNION Brings /\ o.by = "notes"
      BY <1>0, <1>4 DEF Embedded, InHand
    <3> QED
      BY <3>1, PlacedForm
  <2>3. stored' = Over(Written(NamesOf(placed)), stored)
        /\ work' = [work EXCEPT !.at = "record", !.notes = placed]
    BY <2>1
  <2>4. \A o \in Embedded : o.kind = "attachment"
    BY <1>0, <1>4, AssetsAssumption DEF Embedded, InHand
  <2> HIDE DEF placed
  <2>5. work.at = "notes"
    BY <1>9 DEF mirror_description_attachments
  <2>6. work' = [at |-> "record", brings |-> work.brings, uploaded |-> work.uploaded,
                 engine |-> work.engine, source |-> work.source, notes |-> placed]
    BY <1>0, <2>3 DEF AssetTypes
  <2>7. \A n \in NamesOf(placed) : n[1] # "feed"
    BY <2>2 DEF AssetKinds
  <2>8. InHand'
    BY <1>0, <2>5, <2>6 DEF InHand, WorkPlaces
  <2>9. work.notes = {}
    BY <1>0, <2>5 DEF InHand
  <2>10. Suppliers'
    BY <1>0, <2>2, <2>4, <2>6, <2>9 DEF Suppliers
  <2>11. Mine' = Mine \cup NamesOf(placed)
    BY <2>6, <2>9 DEF Mine, Local, NamesOf
  <2> QED
    BY <1>5, <2>3, <2>5, <2>6, <2>7, <2>8, <2>10, <2>11
<1> QED
  BY <1>6, <1>7, <1>8, <1>9

\* An attempt begins: what is stored is older.
LEMMA BeginKept == ASSUME AssetInv, StartArchive PROVE AssetInv'
<1>0. AssetTypes /\ InTurn /\ There /\ AllOwned /\ ArtKept
  BY DEF AssetInv
<1>1. /\ work.at = "idle" /\ item.state = "wanted"
      /\ item' = [item EXCEPT !.state = "archiving"]
      /\ count' = [count EXCEPT !.attempts = @ + 1]
      /\ UNCHANGED <<rows, stored, removals, art>>
  BY DEF StartArchive
<1>2. PICK b \in Brings : work' = [NoWork EXCEPT !.at = "media", !.brings = b]
  BY DEF StartArchive
<1>3. work' = [at |-> "media", brings |-> b, uploaded |-> {}, engine |-> {}, source |-> {}, notes |-> {}]
  BY <1>2 DEF NoWork
<1>4. /\ item' = [state |-> "archiving", att |-> item.att, got |-> item.got]
      /\ count' = [attempts |-> count.attempts + 1, faults |-> count.faults,
                   broken |-> count.broken, late |-> count.late]
  BY <1>0, <1>1 DEF AssetTypes
<1>5. AssetTypes'
  BY <1>0, <1>1, <1>3, <1>4 DEF AssetTypes, RowStates
<1>6. InHand' /\ Suppliers'
  BY <1>3 DEF InHand, Suppliers, PlacedOnce, WorkPlaces
<1>7. InTurn'
  BY <1>0, <1>1, <1>3, <1>4 DEF InTurn, AssetTypes
<1>8. Mine' = {}
  BY <1>3 DEF Mine, Local, NamesOf
<1>9. There'
  BY <1>0, <1>1, <1>4, <1>8 DEF There
<1>10. \A n \in DOMAIN stored' : stored'[n] # count'.attempts
  BY <1>0, <1>1, <1>4 DEF AssetTypes
<1>11. AllOwned'
  <2>1. ASSUME NEW n \in DOMAIN stored' PROVE Owned(n)'
    <3>1. Owned(n)
      BY <1>0, <1>1 DEF AllOwned
    <3>2. by_basename(n)' = by_basename(n)
      BY <1>1 DEF by_basename
    <3> QED
      BY <1>1, <1>4, <3>1, <3>2 DEF Owned
  <2> QED
    BY <1>10, <2>1 DEF AllOwned
<1>12. ArtKept'
  BY <1>0, <1>1 DEF ArtKept
<1> QED
  BY <1>5, <1>6, <1>7, <1>9, <1>11, <1>12 DEF AssetInv

\* Nobody's hand is on the names of the Artwork.
LEMMA NotOurs == ASSUME AssetInv PROVE \A n \in Mine : n[1] # "feed"
<1>1. InHand /\ Suppliers
  BY DEF AssetInv
<1>2. \A n \in Local : n[1] \in AssetKinds
  BY <1>1 DEF Suppliers, PlacedOnce, Local, NamesOf
<1> QED
  BY <1>1, <1>2 DEF InHand, Mine, AssetKinds

\* The rows of one supplier.
LEMMA UpsertForm ==
    ASSUME NEW placed, PlacedOnce(placed)
    PROVE  /\ DOMAIN Upserted(placed) = {p.id : p \in placed}
           /\ \A p \in placed : Upserted(placed)[p.id] =
                 IF p.failed THEN [state |-> "failed", name |-> <<>>]
                             ELSE [state |-> "archived", name |-> p.name]
<1>1. DOMAIN Upserted(placed) = {p.id : p \in placed}
  BY DEF Upserted
<1>2. ASSUME NEW p \in placed
      PROVE  Upserted(placed)[p.id] = IF p.failed THEN [state |-> "failed", name |-> <<>>]
                                                  ELSE [state |-> "archived", name |-> p.name]
  <2>1. (CHOOSE q \in placed : q.id = p.id) = p
    BY DEF PlacedOnce
  <2> QED
    BY <2>1 DEF Upserted
<1> QED
  BY <1>1, <1>2

\* The rows of the three: what each supplier delivered has its row, and every row of
\* a copy is one of theirs.
LEMMA RecordForm ==
    ASSUME AssetInv, DOMAIN rows = {}
    PROVE  LET all == work.engine \cup work.source \cup work.notes
           IN  /\ \A p \in all : ~p.failed =>
                     p.id \in DOMAIN _record_assets
                     /\ _record_assets[p.id] = [state |-> "archived", name |-> p.name]
               /\ \A i \in DOMAIN _record_assets : _record_assets[i].state = "archived" =>
                     \E p \in all : ~p.failed /\ p.id = i /\ _record_assets[i].name = p.name
<1> DEFINE ne == Upserted(work.engine)
           ns == Upserted(work.source)
           nn == Upserted(work.notes)
           re == Over(ne, rows)
           rs == Over(ns, re)
           rn == Over(nn, rs)
           Row(p) == IF p.failed THEN [state |-> "failed", name |-> <<>>]
                                 ELSE [state |-> "archived", name |-> p.name]
<1>1. _record_assets = rn
  BY DEF _record_assets
<1>2. Suppliers
  BY DEF AssetInv
<1>3. /\ DOMAIN ne = {p.id : p \in work.engine} /\ \A p \in work.engine : ne[p.id] = Row(p)
      /\ DOMAIN ns = {p.id : p \in work.source} /\ \A p \in work.source : ns[p.id] = Row(p)
      /\ DOMAIN nn = {p.id : p \in work.notes} /\ \A p \in work.notes : nn[p.id] = Row(p)
  BY <1>2, UpsertForm DEF Suppliers
<1>4. /\ DOMAIN re = DOMAIN ne /\ \A i \in DOMAIN ne : re[i] = ne[i]
      /\ DOMAIN rs = DOMAIN ns \cup DOMAIN re /\ \A i \in DOMAIN ns : rs[i] = ns[i]
      /\ \A i \in DOMAIN re : i \notin DOMAIN ns => rs[i] = re[i]
      /\ DOMAIN rn = DOMAIN nn \cup DOMAIN rs /\ \A i \in DOMAIN nn : rn[i] = nn[i]
      /\ \A i \in DOMAIN rs : i \notin DOMAIN nn => rn[i] = rs[i]
  <2> HIDE DEF ne, ns, nn
  <2>1. /\ DOMAIN re = DOMAIN ne \cup DOMAIN rows
        /\ \A x \in DOMAIN ne : re[x] = ne[x]
        /\ \A x \in DOMAIN rows : x \notin DOMAIN ne => re[x] = rows[x]
    BY OverForm
  <2> HIDE DEF re
  <2>2. /\ DOMAIN rs = DOMAIN ns \cup DOMAIN re
        /\ \A x \in DOMAIN ns : rs[x] = ns[x]
        /\ \A x \in DOMAIN re : x \notin DOMAIN ns => rs[x] = re[x]
    BY OverForm
  <2> HIDE DEF rs
  <2>3. /\ DOMAIN rn = DOMAIN nn \cup DOMAIN rs
        /\ \A x \in DOMAIN nn : rn[x] = nn[x]
        /\ \A x \in DOMAIN rs : x \notin DOMAIN nn => rn[x] = rs[x]
    BY OverForm
  <2> HIDE DEF rn
  <2>4. DOMAIN re = DOMAIN ne
    BY <2>1
  <2> QED
    BY <2>1, <2>2, <2>3, <2>4
<1> HIDE DEF ne, ns, nn, re, rs, rn
<1>5. /\ \A p \in work.notes : p.id \in DOMAIN nn
      /\ \A p \in work.source : p.id \in DOMAIN ns /\ p.id \notin DOMAIN nn
      /\ \A p \in work.engine : p.id \in DOMAIN ne /\ p.id \notin DOMAIN nn
  <2>1. ASSUME NEW p \in work.engine \cup work.source, NEW q \in work.notes PROVE p.id # q.id
    <3>1. p.id = <<p.kind, p.lang>> /\ q.id = <<q.kind, q.lang>> /\ p.kind # q.kind
      BY <1>2 DEF Suppliers, PlacedOnce
    <3> QED
      BY <3>1
  <2> QED
    BY <1>3, <2>1
<1>6. \A p \in work.engine : ~p.failed => p.id \notin DOMAIN ns
  BY <1>2, <1>3 DEF Suppliers, PlacedOnce
<1>7. ASSUME NEW p \in work.engine \cup work.source \cup work.notes, ~p.failed
      PROVE  p.id \in DOMAIN rn /\ rn[p.id] = [state |-> "archived", name |-> p.name]
  <2>1. Row(p) = [state |-> "archived", name |-> p.name]
    BY <1>7
  <2> HIDE DEF Row
  <2>2. CASE p \in work.notes
    BY <1>3, <1>4, <1>5, <2>1, <2>2
  <2>3. CASE p \in work.source
    BY <1>3, <1>4, <1>5, <2>1, <2>3
  <2>4. CASE p \in work.engine
    BY <1>3, <1>4, <1>5, <1>6, <1>7, <2>1, <2>4
  <2> QED
    BY <1>7, <2>2, <2>3, <2>4
<1>8. ASSUME NEW i \in DOMAIN rn
      PROVE  \E p \in work.engine \cup work.source \cup work.notes : p.id = i /\ rn[i] = Row(p)
  <2> HIDE DEF Row
  <2>1. CASE i \in DOMAIN nn
    BY <1>3, <1>4, <2>1
  <2>2. CASE i \notin DOMAIN nn /\ i \in DOMAIN ns
    BY <1>3, <1>4, <2>2
  <2>3. CASE i \notin DOMAIN nn /\ i \notin DOMAIN ns
    BY <1>3, <1>4, <1>8, <2>3
  <2> QED
    BY <2>1, <2>2, <2>3
<1>9. ASSUME NEW i \in DOMAIN rn, rn[i].state = "archived"
      PROVE  \E p \in work.engine \cup work.source \cup work.notes :
                ~p.failed /\ p.id = i /\ rn[i].name = p.name
  <2>1. PICK p \in work.engine \cup work.source \cup work.notes : p.id = i /\ rn[i] = Row(p)
    BY <1>8
  <2>2. ~p.failed /\ rn[i].name = p.name
    <3>1. CASE p.failed
      BY <1>9, <2>1, <3>1
    <3>2. CASE ~p.failed
      BY <2>1, <3>2
    <3> QED
      BY <3>1, <3>2
  <2> QED
    BY <2>1, <2>2
<1> QED
  BY <1>1, <1>7, <1>9

\* The last transaction: its rows name what this attempt wrote, or what it wrote is taken away.
LEMMA RecordKept == ASSUME AssetInv, Record PROVE AssetInv'
<1>0. AssetTypes /\ InHand /\ Suppliers /\ InTurn /\ There /\ AllOwned /\ ArtKept
  BY DEF AssetInv
<1>1. work.at = "record" /\ work' = NoWork /\ UNCHANGED <<stored, art, count>>
  BY DEF Record
<1>2. DOMAIN rows = {} /\ item.state # "archived"
  BY <1>0, <1>1 DEF InTurn
<1>3. InHand' /\ Suppliers'
  BY <1>1 DEF InHand, Suppliers, PlacedOnce, NoWork, WorkPlaces
<1>4. ArtKept'
  BY <1>0, <1>1 DEF ArtKept
<1>5. work'.at = "idle"
  BY <1>1 DEF NoWork
<1>6. Media \subseteq Mine /\ \A n \in Mine : n[1] # "feed"
  BY <1>0, <1>1, NotOurs DEF InHand, Mine
<1>7. ASSUME NEW n \in DOMAIN stored
      PROVE  \/ n \in Mine \/ n[1] \in {"feed", "xml"} \/ stored[n] \in count.broken
             \/ \E r \in removals : n \in r.names
  BY <1>0, <1>1, <1>2 DEF AllOwned, Owned, by_basename
<1>8. CASE item.state = "archiving"
  <2>1. /\ item' = [state |-> "archived", att |-> count.attempts, got |-> Got]
        /\ rows' = _record_assets /\ UNCHANGED removals
    BY <1>8 DEF Record
  <2> DEFINE all == work.engine \cup work.source \cup work.notes
             new == _record_assets
  <2>2. /\ \A p \in all : ~p.failed => p.id \in DOMAIN new
                                       /\ new[p.id] = [state |-> "archived", name |-> p.name]
        /\ \A i \in DOMAIN new : new[i].state = "archived" =>
              \E p \in all : ~p.failed /\ p.id = i /\ new[i].name = p.name
    BY <1>2, RecordForm
  <2>3. /\ Local = {p.name : p \in {q \in all : ~q.failed}}
        /\ Got = {p.id : p \in {q \in all : ~q.failed}}
        /\ \A p \in all : p.name[1] \in AssetKinds
    BY <1>0 DEF Local, NamesOf, Got, Suppliers, PlacedOnce
  <2>4. rows' = new /\ item'.state = "archived" /\ item'.att = count.attempts /\ item'.got = Got
    BY <2>1
  <2> HIDE DEF all, new
  <2>5. /\ \A i \in DOMAIN new : new[i].state = "archived" =>
              new[i].name \in Local /\ new[i].name[1] \in AssetKinds
        /\ \A i \in Got : i \in DOMAIN new /\ new[i].state = "archived"
        /\ \A n \in Local : \E i \in DOMAIN new : new[i].state = "archived" /\ new[i].name = n
    <3>1. ASSUME NEW p \in all, ~p.failed
          PROVE  p.id \in DOMAIN new /\ new[p.id].state = "archived" /\ new[p.id].name = p.name
      <4>1. p.id \in DOMAIN new /\ new[p.id] = [state |-> "archived", name |-> p.name]
        BY <2>2, <3>1
      <4> QED
        BY <4>1
    <3>2. \A i \in DOMAIN new : new[i].state = "archived" =>
             new[i].name \in Local /\ new[i].name[1] \in AssetKinds
      BY <2>2, <2>3
    <3> QED
      BY <2>3, <3>1, <3>2
  <2>6. AssetTypes'
    BY <1>0, <1>1, <2>1 DEF AssetTypes, RowStates, NoWork
  <2>7. InTurn'
    BY <1>0, <1>1, <1>5, <1>8, <2>1, <2>4 DEF InTurn
  <2>8. There'
    <3>1. ~count.late => \A n \in Mine : n \in DOMAIN stored /\ stored[n] = count.attempts
      BY <1>0, <1>1, <1>8 DEF There
    <3>2. Local \subseteq Mine
      BY DEF Mine
    <3> QED
      BY <1>1, <1>5, <1>6, <2>4, <2>5, <3>1, <3>2 DEF There
  <2>9. ASSUME NEW n \in DOMAIN stored' PROVE Owned(n)'
    <3>1. n \in Mine => n \in Local \/ n \in Media \/ n[1] = "xml"
      BY <1>0, NameForms DEF Mine, InHand, Local
    <3>2. n \in Local => by_basename(n)' # {}
      BY <2>4, <2>5 DEF by_basename
    <3> QED
      BY <1>1, <1>7, <2>1, <2>4, <3>1, <3>2 DEF Owned
  <2>10. AllOwned'
    BY <1>5, <2>9 DEF AllOwned
  <2> QED
    BY <1>3, <1>4, <2>6, <2>7, <2>8, <2>10 DEF AssetInv
<1>9. CASE item.state # "archiving"
  <2> DEFINE new == [names |-> Mine, att |-> count.attempts]
  <2>1. removals' = removals \cup {new} /\ UNCHANGED <<item, rows>>
    BY <1>9 DEF Record, Mine
  <2>2. new.names = Mine /\ new.att = count.attempts
    OBVIOUS
  <2> HIDE DEF new
  <2>3. AssetTypes'
    BY <1>0, <1>1, <1>6, <2>1, <2>2 DEF AssetTypes, NoWork
  <2>4. InTurn'
    BY <1>0, <1>2, <1>5, <1>9, <2>1 DEF InTurn
  <2>5. There'
    BY <1>0, <1>2, <1>9, <2>1 DEF There
  <2>6. ASSUME NEW n \in DOMAIN stored' PROVE Owned(n)'
    BY <1>1, <1>7, <2>1, <2>2 DEF Owned
  <2>7. AllOwned'
    BY <1>5, <2>6 DEF AllOwned
  <2> QED
    BY <1>3, <1>4, <2>3, <2>4, <2>5, <2>7 DEF AssetInv
<1> QED
  BY <1>8, <1>9

\* An upload that failed, a worker that died.
LEMMA BreaksKept == ASSUME AssetInv, UploadFails \/ JobDies PROVE AssetInv'
<1>0. AssetTypes /\ InHand /\ Suppliers /\ InTurn /\ There /\ AllOwned /\ ArtKept
  BY DEF AssetInv
<1>1. /\ work.at # "idle" /\ work' = NoWork /\ UNCHANGED <<rows, removals, art>>
      /\ count' = [count EXCEPT !.faults = @ + 1, !.broken = @ \cup {count.attempts}]
  BY DEF UploadFails, JobDies, Faulty
<1>2. count' = [attempts |-> count.attempts, faults |-> count.faults + 1,
                broken |-> count.broken \cup {count.attempts}, late |-> count.late]
  BY <1>0, <1>1 DEF AssetTypes
<1>4. /\ \A n \in DOMAIN stored' : n \in DOMAIN stored /\ stored'[n] = stored[n]
      /\ \A n \in DOMAIN stored : n[1] = "feed" => n \in DOMAIN stored'
  <2>1. CASE UploadFails
    <3>1. \A n \in work.uploaded : n[1] # "feed"
      BY <1>0 DEF InHand
    <3>2. PICK gone \in {work.uploaded, {}} : stored' = [n \in DOMAIN stored \ gone |-> stored[n]]
      BY <2>1 DEF UploadFails, Restrict
    <3> QED
      BY <3>1, <3>2
  <2>2. CASE JobDies
    BY <2>2 DEF JobDies
  <2> QED
    BY <2>1, <2>2
<1>5. /\ item' = [state |-> item'.state, att |-> item.att, got |-> item.got]
      /\ item'.state = item.state \/ item'.state \in {"wanted", "failed"}
  <2>1. CASE UploadFails
    <3>1. PICK s \in {"wanted", "failed"} :
             item' = IF item.state = "archiving" THEN [item EXCEPT !.state = s] ELSE item
      BY <2>1 DEF UploadFails
    <3>2. CASE item.state = "archiving"
      <4>1. item' = [state |-> s, att |-> item.att, got |-> item.got]
        BY <1>0, <3>1, <3>2 DEF AssetTypes
      <4> QED
        BY <4>1
    <3>3. CASE item.state # "archiving"
      BY <1>0, <3>1, <3>3 DEF AssetTypes
    <3> QED
      BY <3>2, <3>3
  <2>2. CASE JobDies
    BY <1>0, <2>2 DEF JobDies, AssetTypes
  <2> QED
    BY <2>1, <2>2
<1>6. AssetTypes'
  BY <1>0, <1>1, <1>2, <1>4, <1>5 DEF AssetTypes, RowStates, NoWork
<1>7. InHand' /\ Suppliers' /\ work'.at = "idle"
  BY <1>1 DEF InHand, Suppliers, PlacedOnce, NoWork, WorkPlaces
<1>8. item.state # "archived" /\ item'.state # "archived" /\ DOMAIN rows = {}
  BY <1>0, <1>1, <1>5 DEF InTurn
<1>9. InTurn'
  BY <1>0, <1>1, <1>2, <1>5, <1>7, <1>8 DEF InTurn
<1>10. There'
  BY <1>1, <1>7, <1>8 DEF There
<1>11. ASSUME NEW n \in DOMAIN stored' PROVE Owned(n)'
  BY <1>0, <1>1, <1>2, <1>4, <1>8 DEF AllOwned, Owned, by_basename
<1>12. AllOwned'
  BY <1>7, <1>11 DEF AllOwned
<1>13. ArtKept'
  <2>1. \A ext \in {"jpg", "png"} : ArtKey(ext) \in DOMAIN stored' <=> ArtKey(ext) \in DOMAIN stored
    BY <1>4, NameForms
  <2> QED
    BY <1>0, <1>1, <1>4, <2>1, NameForms DEF ArtKept
<1> QED
  BY <1>6, <1>7, <1>9, <1>10, <1>12, <1>13 DEF AssetInv

\* The user: an item asked for again, an Episode deleted.
LEMMA UserKept == ASSUME AssetInv, WantAgain \/ delete_episode PROVE AssetInv'
<1>0. AssetTypes /\ InHand /\ Suppliers /\ InTurn /\ There /\ AllOwned /\ ArtKept
  BY DEF AssetInv
<1>1. UNCHANGED <<stored, work, art, count>>
  BY DEF WantAgain, delete_episode
<1>2. InHand' /\ Suppliers' /\ ArtKept' /\ Mine' = Mine
  BY <1>0, <1>1 DEF InHand, Suppliers, ArtKept, Mine, Local
<1>3. CASE WantAgain
  <2>1. /\ item.state \in {"failed", "deleted"} /\ UNCHANGED <<rows, removals>>
        /\ item' = [state |-> "wanted", att |-> item.att, got |-> item.got]
    BY <1>0, <1>3 DEF WantAgain, AssetTypes
  <2>2. AssetTypes' /\ InTurn' /\ There'
    BY <1>0, <1>1, <2>1 DEF AssetTypes, InTurn, There, RowStates
  <2>3. ASSUME NEW n \in DOMAIN stored' PROVE Owned(n)'
    <3>1. by_basename(n)' = by_basename(n)
      BY <2>1 DEF by_basename
    <3> QED
      BY <1>0, <1>1, <2>1, <3>1 DEF AllOwned, Owned
  <2>4. AllOwned'
    BY <1>0, <1>1, <1>2, <2>3 DEF AllOwned
  <2> QED
    BY <1>2, <2>2, <2>4 DEF AssetInv
<1>4. CASE delete_episode
  <2> DEFINE media == IF item.state = "archived" THEN Media ELSE {<<"info", "">>}
             files == {rows[i].name : i \in {j \in DOMAIN rows : rows[j].state = "archived"}}
             new   == [names |-> media \cup files, att |-> count.attempts]
  <2>1. /\ removals' = removals \cup {new} /\ rows' = <<>>
        /\ item' = [state |-> "deleted", att |-> 0, got |-> {}]
    BY <1>4 DEF delete_episode
  <2>2. new.names = media \cup files /\ new.att = count.attempts
    OBVIOUS
  <2>3. \A n \in media \cup files : n[1] # "feed"
    BY <1>0, NameForms DEF There, AssetKinds, Media
  <2>4. \A n : (by_basename(n) # {} => n \in files)
    BY DEF by_basename
  <2>5. item.state = "archived" => media = Media
    OBVIOUS
  <2> HIDE DEF new, media, files
  <2>6. DOMAIN rows' = {}
    BY <2>1
  <2>7. AssetTypes'
    BY <1>0, <1>1, <2>1, <2>2, <2>3 DEF AssetTypes, RowStates
  <2>8. InTurn' /\ There'
    BY <2>1, <2>6 DEF InTurn, There
  <2>9. ASSUME NEW n \in DOMAIN stored' PROVE Owned(n)'
    BY <1>0, <1>1, <2>1, <2>2, <2>4, <2>5 DEF AllOwned, Owned
  <2>10. AllOwned'
    BY <1>0, <1>1, <1>2, <2>9 DEF AllOwned
  <2> QED
    BY <1>2, <2>7, <2>8, <2>10 DEF AssetInv
<1> QED
  BY <1>3, <1>4

\* What runs after a commit, or is lost with its process.
LEMMA RemovalsKept ==
    ASSUME AssetInv, NEW r \in removals, RunRemoval(r) \/ RemovalLost(r)
    PROVE  AssetInv'
<1>0. AssetTypes /\ InHand /\ Suppliers /\ InTurn /\ There /\ AllOwned /\ ArtKept
  BY DEF AssetInv
<1>1. removals' = removals \ {r} /\ UNCHANGED <<item, rows, work, art>>
  BY DEF RunRemoval, RemovalLost
<1>2. InHand' /\ Suppliers' /\ Mine' = Mine
  BY <1>0, <1>1 DEF InHand, Suppliers, Mine, Local
<1>3. \A n : by_basename(n)' = by_basename(n)
  BY <1>1 DEF by_basename
<1>4. CASE RunRemoval(r)
  <2>1. stored' = [n \in DOMAIN stored \ (DOMAIN stored \cap r.names) |-> stored[n]]
    <3>1. DOMAIN stored \ r.names = DOMAIN stored \ (DOMAIN stored \cap r.names)
      OBVIOUS
    <3> QED
      BY <1>4, <3>1 DEF RunRemoval, Restrict
  <2>2. \A n : n \in DOMAIN stored' <=> n \in DOMAIN stored /\ n \notin r.names
    BY <2>1
  <2>3. \A n \in DOMAIN stored' : stored'[n] = stored[n]
    BY <2>1
  <2> DEFINE late == count.late \/ \E n \in r.names \cap DOMAIN stored : stored[n] > r.att
  <2>4. count' = [attempts |-> count.attempts, faults |-> count.faults, broken |-> count.broken, late |-> late]
    BY <1>0, <1>4 DEF RunRemoval, AssetTypes
  <2>5. late \in BOOLEAN /\ (~late => ~count.late /\ \A n \in r.names : n \in DOMAIN stored => ~(stored[n] > r.att))
    BY <1>0 DEF AssetTypes
  <2> HIDE DEF late
  <2>6. AssetTypes'
    BY <1>0, <1>1, <2>2, <2>3, <2>4, <2>5 DEF AssetTypes
  <2>7. InTurn'
    BY <1>0, <1>1, <2>4 DEF InTurn
  <2>8. ASSUME item.state \in {"archiving", "archived"}, ~late,
               NEW n \in DOMAIN stored, stored[n] = count.attempts
        PROVE  n \in DOMAIN stored' /\ stored'[n] = count.attempts
    <3>1. r.att \in Nat /\ count.attempts \in Nat /\ r.att < count.attempts
      BY <1>0, <2>8 DEF InTurn, AssetTypes
    <3>2. n \notin r.names
      BY <2>5, <2>8, <3>1
    <3> QED
      BY <2>2, <2>3, <2>8, <3>2
  <2>9. There'
    <3>1. item.state = "archived" => item.att = count.attempts
      BY <1>0 DEF InTurn
    <3>2. count'.late = late /\ count'.attempts = count.attempts
      BY <2>4
    <3>3. (item.state = "archiving" /\ work.at # "idle" /\ ~late) =>
             \A n \in Mine : n \in DOMAIN stored' /\ stored'[n] = count.attempts
      BY <1>0, <2>5, <2>8 DEF There
    <3>4. (item.state = "archived" /\ ~late) =>
             /\ \A i \in DOMAIN rows : rows[i].state = "archived" =>
                   rows[i].name \in DOMAIN stored' /\ stored'[rows[i].name] = item.att
             /\ \A n \in Media : n \in DOMAIN stored' /\ stored'[n] = item.att
      BY <1>0, <2>5, <2>8, <3>1 DEF There
    <3> QED
      BY <1>0, <1>1, <1>2, <3>2, <3>3, <3>4 DEF There
  <2>10. ASSUME NEW n \in DOMAIN stored' PROVE Owned(n)'
    BY <1>0, <1>1, <1>3, <2>2, <2>3, <2>4 DEF AllOwned, Owned
  <2>11. AllOwned'
    BY <1>0, <1>1, <1>2, <2>2, <2>3, <2>4, <2>10 DEF AllOwned
  <2>12. ArtKept'
    <3>1. \A ext \in {"jpg", "png"} : ArtKey(ext) \in DOMAIN stored' <=> ArtKey(ext) \in DOMAIN stored
      BY <1>0, <2>2, NameForms DEF AssetTypes
    <3> QED
      BY <1>0, <1>1, <3>1 DEF ArtKept
  <2> QED
    BY <1>2, <2>6, <2>7, <2>9, <2>11, <2>12 DEF AssetInv
<1>5. CASE RemovalLost(r)
  <2>1. /\ stored' = stored
        /\ count' = [attempts |-> count.attempts, faults |-> count.faults + 1,
                     broken |-> count.broken \cup {stored[n] : n \in r.names \cap DOMAIN stored},
                     late |-> count.late]
    BY <1>0, <1>5 DEF RemovalLost, Faulty, AssetTypes
  <2>2. AssetTypes'
    BY <1>0, <1>1, <2>1 DEF AssetTypes
  <2>3. InTurn' /\ There' /\ ArtKept'
    BY <1>0, <1>1, <1>2, <2>1 DEF InTurn, There, ArtKept
  <2>4. ASSUME NEW n \in DOMAIN stored' PROVE Owned(n)'
    BY <1>0, <1>1, <1>3, <2>1 DEF AllOwned, Owned
  <2>5. AllOwned'
    BY <1>0, <1>1, <1>2, <2>1, <2>4 DEF AllOwned
  <2> QED
    BY <1>2, <2>2, <2>3, <2>5 DEF AssetInv
<1> QED
  BY <1>4, <1>5

\* The Refresh and the Feed's Artwork: its names are nobody else's.
LEMMA ArtworkKept == ASSUME AssetInv, ArtworkNext PROVE AssetInv'
<1>0. AssetTypes /\ InHand /\ Suppliers /\ InTurn /\ There /\ AllOwned /\ ArtKept
  BY DEF AssetInv
<1>1. UNCHANGED <<item, rows, work, removals>>
  BY DEF ArtworkNext, LookForArtwork, _mirror_feed_artwork, _record_artwork, RefreshDies
<1>2. InHand' /\ Suppliers' /\ Mine' = Mine
  BY <1>0, <1>1 DEF InHand, Suppliers, Mine, Local
<1>3. \A n : by_basename(n)' = by_basename(n)
  BY <1>1 DEF by_basename
<1>4. ASSUME stored' = stored,
             count' = count \/ count' = [count EXCEPT !.faults = @ + 1, !.broken = @ \cup {}],
             ArtKept'
      PROVE  AssetInv'
  <2>1. /\ count' = [attempts |-> count.attempts, faults |-> count'.faults, broken |-> count'.broken,
                     late |-> count.late]
        /\ \A a : a \in count'.broken <=> a \in count.broken
    BY <1>0, <1>4 DEF AssetTypes
  <2>2. AssetTypes' /\ InTurn' /\ There'
    BY <1>0, <1>1, <1>2, <1>4, <2>1 DEF AssetTypes, InTurn, There
  <2>3. ASSUME NEW n \in DOMAIN stored' PROVE Owned(n)'
    BY <1>0, <1>1, <1>3, <1>4, <2>1 DEF AllOwned, Owned
  <2>4. AllOwned'
    BY <1>0, <1>1, <1>2, <1>4, <2>1, <2>3 DEF AllOwned
  <2> QED
    BY <1>2, <1>4, <2>2, <2>4 DEF AssetInv
<1>5. CASE LookForArtwork
  <2>1. /\ art.state # "archived" /\ UNCHANGED <<stored, count>>
        /\ art.at = "idle"
        /\ art' = [state |-> art.state, name |-> art.name, at |-> "fetch", fetched |-> art.fetched,
                   broken |-> art.broken]
    BY <1>0, <1>5 DEF LookForArtwork, ArtKept
  <2>2. ArtKept'
    BY <1>0, <2>1 DEF ArtKept
  <2> QED
    BY <1>4, <2>1, <2>2
<1>6. CASE _mirror_feed_artwork /\ stored' = stored /\ art'.fetched = <<>>
  <2>1. /\ count' = count /\ art.at = "fetch"
        /\ art' = [state |-> art.state, name |-> art.name, at |-> "record", fetched |-> <<>>,
                   broken |-> art.broken]
    <3>1. ASSUME NEW ext, art' = [art EXCEPT !.at = "record", !.fetched = ArtKey(ext)]
          PROVE  FALSE
      <4>1. art' = [state |-> art.state, name |-> art.name, at |-> "record", fetched |-> ArtKey(ext),
                    broken |-> art.broken]
        BY <1>0, <3>1 DEF ArtKept
      <4> QED
        BY <1>6, <4>1, NameForms
    <3>2. art' = [art EXCEPT !.at = "record", !.fetched = <<>>]
      BY <1>6, <3>1 DEF _mirror_feed_artwork
    <3> QED
      BY <1>0, <1>6, <3>2 DEF _mirror_feed_artwork, ArtKept
  <2>2. ArtKept'
    BY <1>0, <1>6, <2>1 DEF ArtKept
  <2> QED
    BY <1>4, <1>6, <2>1, <2>2
<1>7. CASE _mirror_feed_artwork /\ ~(stored' = stored /\ art'.fetched = <<>>)
  <2>1. art.at = "fetch" /\ count' = count
    BY <1>7 DEF _mirror_feed_artwork
  <2>2. PICK ext \in {"jpg", "png"} :
            /\ stored' = Over([n \in {ArtKey(ext)} |-> 0], stored)
            /\ art' = [art EXCEPT !.at = "record", !.fetched = ArtKey(ext)]
    <3>1. ASSUME art' = [art EXCEPT !.at = "record", !.fetched = <<>>] PROVE art'.fetched = <<>>
      BY <1>0, <3>1 DEF ArtKept
    <3> QED
      BY <1>7, <3>1 DEF _mirror_feed_artwork
  <2>3. art' = [state |-> art.state, name |-> art.name, at |-> "record", fetched |-> ArtKey(ext),
                broken |-> art.broken]
    BY <1>0, <2>2 DEF ArtKept
  <2> DEFINE new == [n \in {ArtKey(ext)} |-> 0]
  <2>4. /\ DOMAIN Over(new, stored) = DOMAIN new \cup DOMAIN stored
        /\ \A x \in DOMAIN new : Over(new, stored)[x] = new[x]
        /\ \A x \in DOMAIN stored : x \notin DOMAIN new => Over(new, stored)[x] = stored[x]
    BY OverForm
  <2>5. DOMAIN new = {ArtKey(ext)} /\ new[ArtKey(ext)] = 0 /\ stored' = Over(new, stored)
    BY <2>2
  <2> HIDE DEF new
  <2>6. /\ \A n : n \in DOMAIN stored' <=> n = ArtKey(ext) \/ n \in DOMAIN stored
        /\ stored'[ArtKey(ext)] = 0
        /\ \A n \in DOMAIN stored : n # ArtKey(ext) => stored'[n] = stored[n]
    BY <2>4, <2>5
  <2>7. \A n : n[1] # "feed" => n # ArtKey(ext)
    BY NameForms
  <2>8. AssetTypes' /\ InTurn'
    BY <1>0, <1>1, <2>1, <2>6 DEF AssetTypes, InTurn
  <2>9. There'
    <3>1. /\ \A n \in Mine : n # ArtKey(ext)
          /\ \A i \in DOMAIN rows : rows[i].state = "archived" => rows[i].name # ArtKey(ext)
          /\ \A n \in Media : n # ArtKey(ext)
      BY <1>0, <2>7, NotOurs, NameForms DEF There, AssetKinds
    <3> QED
      BY <1>0, <1>1, <1>2, <2>1, <2>6, <3>1 DEF There
  <2>10. ASSUME NEW n \in DOMAIN stored' PROVE Owned(n)'
    <3>1. CASE n = ArtKey(ext)
      BY <3>1, NameForms DEF Owned
    <3>2. CASE n # ArtKey(ext)
      BY <1>0, <1>1, <1>3, <2>1, <2>6, <3>2 DEF AllOwned, Owned
    <3> QED
      BY <3>1, <3>2
  <2>11. AllOwned'
    BY <1>0, <1>1, <1>2, <2>1, <2>6, <2>10, NameForms DEF AllOwned
  <2>12. ArtKept'
    <3>1. art.fetched = <<>> /\ art.name = <<>> /\ art.state # "archived"
      BY <1>0, <2>1 DEF ArtKept
    <3>2. \A e \in {"jpg", "png"} : ArtKey(e) \in DOMAIN stored => art.broken
      BY <1>0, <3>1, NameForms DEF ArtKept
    <3> QED
      BY <1>0, <2>3, <2>6, <3>1, <3>2 DEF ArtKept
  <2> QED
    BY <1>2, <2>8, <2>9, <2>11, <2>12 DEF AssetInv
<1>8. CASE _record_artwork
  <2>1. /\ UNCHANGED <<stored, count>> /\ art.at = "record"
        /\ art' = [state |-> IF art.fetched = <<>> THEN "failed" ELSE "archived", name |-> art.fetched,
                   at |-> "idle", fetched |-> <<>>, broken |-> art.broken]
    BY <1>0, <1>8 DEF _record_artwork, ArtKept
  <2>2. ArtKept'
    <3>1. art.name = <<>>
      BY <1>0, <2>1 DEF ArtKept
    <3> QED
      BY <1>0, <2>1, <3>1, NameForms DEF ArtKept
  <2> QED
    BY <1>4, <2>1, <2>2
<1>9. CASE RefreshDies
  <2>1. /\ stored' = stored /\ art.at # "idle"
        /\ count' = [count EXCEPT !.faults = @ + 1, !.broken = @ \cup {}]
        /\ art' = [state |-> art.state, name |-> art.name, at |-> "idle", fetched |-> <<>>, broken |-> TRUE]
    BY <1>0, <1>9 DEF RefreshDies, Faulty, ArtKept
  <2>2. ArtKept'
    BY <1>0, <2>1 DEF ArtKept
  <2> QED
    BY <1>4, <2>1, <2>2
<1> QED
  BY <1>5, <1>6, <1>7, <1>8, <1>9 DEF ArtworkNext

\* Every step keeps the invariant.
LEMMA AssetsStep == ASSUME AssetInv, [AssetNext \/ ArtworkNext]_assetVars PROVE AssetInv'
<1>1. CASE UNCHANGED assetVars
  BY <1>1 DEF AssetInv, AssetTypes, InHand, Suppliers, InTurn, There, AllOwned, Owned, by_basename,
              ArtKept, Mine, Local, assetVars
<1>2. CASE AssetNext
  BY <1>2, BeginKept, ProducedKept, RecordKept, BreaksKept, UserKept, RemovalsKept DEF AssetNext
<1>3. CASE ArtworkNext
  BY <1>3, ArtworkKept
<1> QED
  BY <1>1, <1>2, <1>3

\* It says what is asked.
LEMMA AssetsSaid == AssetInv => AssetsKept
<1> SUFFICES ASSUME AssetInv PROVE AssetsKept
  OBVIOUS
<1>0. There /\ AllOwned /\ ArtKept
  BY DEF AssetInv
<1>1. EveryRowServes
  BY <1>0 DEF EveryRowServes, There, by_basename
<1>2. NothingOutlives
  BY <1>0 DEF NothingOutlives, AllOwned, Owned, ArtKept
<1> QED
  BY <1>1, <1>2 DEF AssetsKept

-----------------------------------------------------------------------------
(* The theorems.  A behaviour is about one prefix of the store; a step of   *)
(* one leaves the others alone.                                             *)

\* A step of Storage is one of Startup or leaves its variables alone.
LEMMA StartupAlways == Spec => []StartupInv
<1>1. Init => StartupInv
  BY StartupBegins DEF Init
<1>2. StartupInv /\ [Next]_vars => StartupInv'
  <2> SUFFICES ASSUME StartupInv, [Next]_vars PROVE StartupInv'
    OBVIOUS
  <2>1. [StartupNext]_startupVars
    BY DEF Next, vars, startupVars
  <2> QED
    BY <2>1, StartupKept
<1> QED
  BY <1>1, <1>2, PTL DEF Spec

\* A step of Storage is one of Descriptors or leaves its variables alone.
LEMMA DescAlways == Spec => []DescInv
<1>1. Init => DescInv
  BY DescBegins DEF Init
<1>2. DescInv /\ [Next]_vars => DescInv'
  <2> SUFFICES ASSUME DescInv, [Next]_vars PROVE DescInv'
    OBVIOUS
  <2>1. [DescNext]_descVars
    BY DEF Next, vars, descVars
  <2> QED
    BY <2>1, DescKept
<1> QED
  BY <1>1, <1>2, PTL DEF Spec

\* A step of Storage is one of Cookies or leaves its variables alone.
LEMMA CookiesAlways == Spec => []CookieInv
<1>1. Init => CookieInv
  BY CookiesBegin DEF Init
<1>2. CookieInv /\ [Next]_vars => CookieInv'
  <2> SUFFICES ASSUME CookieInv, [Next]_vars PROVE CookieInv'
    OBVIOUS
  <2>1. [CookieNext]_cookieVars
    BY DEF Next, vars, cookieVars
  <2> QED
    BY <2>1, CookiesKept
<1> QED
  BY <1>1, <1>2, PTL DEF Spec

\* A step of Storage is one of Assets or leaves its variables alone.
LEMMA AssetsAlways == Spec => []AssetInv
<1>1. Init => AssetInv
  BY AssetsBegin DEF Init
<1>2. AssetInv /\ [Next]_vars => AssetInv'
  <2> SUFFICES ASSUME AssetInv, [Next]_vars PROVE AssetInv'
    OBVIOUS
  <2>1. [AssetNext \/ ArtworkNext]_assetVars
    BY DEF Next, vars, assetVars
  <2> QED
    BY <2>1, AssetsStep
<1> QED
  BY <1>1, <1>2, PTL DEF Spec

\* Whatever the processes and their crashes, as long as no lock connection of Postgres is lost one
\* worker or tool runs (worker/main.py, cli/main.py); and a process that serves or works does so on
\* the schema its code knows, which one `alembic upgrade` brought about (app.py prepare_schema).
THEOREM StartsOrdered == Spec => []StartsInOrder
BY StartupAlways, StartupOrdered, PTL

\* Whatever the exports, their retries and a rebuild beside them, a committed change of a Feed is in
\* feed.json or an export that will write it is under way, unless a crash or a failed hook excuses it
\* (descriptor.py, services/context.py after-commit hooks).
THEOREM ChangesExported == Spec => []EveryChangeExported
BY DescAlways, DescExported, PTL

\* While one rebuild runs alone, every step keeps what it is to bring back.
LEMMA RestoreAlways == ASSUME OneRebuild PROVE Spec => []RestoreInv
<1>1. Init => RestoreInv
  BY RestoreBegins DEF Init
<1>2. DescInv /\ RestoreInv /\ [Next]_vars => RestoreInv'
  <2> SUFFICES ASSUME DescInv, RestoreInv, [Next]_vars PROVE RestoreInv'
    OBVIOUS
  <2>1. [DescNext]_descVars
    BY DEF Next, vars, descVars
  <2> QED
    BY <2>1, RestoreKept
<1> QED
  BY <1>1, <1>2, DescAlways, PTL DEF Spec

\* Whatever changes, exports and losses came before, one rebuild that runs alone (the worker
\* stopped, as copycast rebuild asks) brings the Feed back from its newest descriptor: the policy,
\* the intent, and every item as it was, archived exactly when its media is there, for the database
\* that was lost and for the one that is still there (rebuild.py, descriptor.py, docs/adr/0001).
THEOREM RebuildBringsBack == ASSUME OneRebuild PROVE Spec => RebuildRestores
<1>1. DescInv /\ RestoreInv => RestoresNow
  BY RestoreHolds
<1>2. RestoresNow => [RestoresNow]_descVars
  OBVIOUS
<1> QED
  BY <1>1, RestoreAlways, DescAlways, PTL DEF RebuildRestores, RestoresNow

\* Whatever attempts bring, fail or leave half done, whatever is deleted meanwhile: an archived Episode
\* has a row and an object for every asset a supplier delivered, written by the attempt the row is of
\* (unless a removal came late), and an object no row names belongs to a job at work, waits for its
\* removal or was left by what broke off (worker/jobs/archive_item.py, adapters/assets/mirror.py).
THEOREM AssetsStay == Spec => []AssetsKept
BY AssetsAlways, AssetsSaid, PTL

\* Whatever Users upload and delete and whatever fetches write back: as long as a User only
\* uploads no write is missed and no more files are kept than the User may hold, and the change of
\* one file carries on the cookies of the others as the sites last rotated them
\* (services/cookies.py, services/engine.py, domain/cookies.py).
THEOREM JarIsKept == Spec => JarKept
<1>1. CookieInv /\ CookieInv' /\ [Next]_vars
        => [UploadsDoNotRace' /\ \A c \in Calls : OthersCarriedOn(c)]_cookieVars
  <2> SUFFICES ASSUME CookieInv, CookieInv', [Next]_vars
               PROVE  [UploadsDoNotRace' /\ \A c \in Calls : OthersCarriedOn(c)]_cookieVars
    OBVIOUS
  <2>1. [CookieNext]_cookieVars
    BY DEF Next, vars, cookieVars
  <2> QED
    BY <2>1, JarSteps
<1> QED
  BY <1>1, CookiesAlways, PTL DEF Spec, JarKept
=============================================================================
