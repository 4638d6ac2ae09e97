---------------------------- MODULE Descriptors ----------------------------
(***************************************************************************)
(* Postgres is the truth and the Object store is enough to rebuild it      *)
(* (docs/adr/0001): every change of intent is exported to feed.json after  *)
(* its commit (adapters/db/uow.py, adapters/storage/descriptor.py), at     *)
(* once by the api and five seconds later by the jobs of the worker, and   *)
(* copycast rebuild reads it back beside the objects that are there        *)
(* (adapters/storage/rebuild.py).  One Feed, its policy and its items.     *)
(***************************************************************************)
EXTENDS Integers, FiniteSets, FiniteSetsExt

CONSTANTS
    Items, Policies,
    Requests,       \* api requests and jobs that export what they commit at once
    LiveRebuild,    \* the Feed may change while it is rebuilt
    Plans           \* bounds of a behaviour: changes, misfortunes, rebuilds

\* A hook removes an item, the whole Feed, or nothing.
ASSUME DescriptorsAssumption ==
    /\ IsFiniteSet(Items) /\ Policies # {} /\ {"none", "feed"} \cap Items = {}
    /\ Plans \subseteq [changes : Nat, misfortunes : Nat, rebuilds : Nat]

VARIABLES
    db,         \* the Feed in Postgres: its row, its policy, its items
    disk,       \* its objects: the descriptor, the media
    task,       \* each request, and the debounced exporter of the worker, after a commit
    armed,      \* DebouncedExporter._pending has the Feed
    worker,     \* the worker runs
    rebuild,    \* the rebuild, and what it has listed and read
    plan,       \* what is left of the bounds
    excused,    \* history: an export that was due was lost with its process, or failed
    lost        \* history: what a lost database held, until it is rebuilt

descVars == <<db, disk, task, armed, worker, rebuild, plan, excused, lost>>

Timer == "debounced"
Tasks == Requests \cup {Timer}

NoItems == [i \in Items |-> "unknown"]
NoFeed == [there |-> FALSE, intent |-> 0, policy |-> CHOOSE p \in Policies : TRUE, items |-> NoItems]
NoTask == [at |-> "idle", desc |-> NoFeed, hook |-> "none"]
NoRebuild == [at |-> "idle", there |-> FALSE, media |-> {}, desc |-> NoFeed, yes |-> FALSE]

DescInit ==
    /\ db = [NoFeed EXCEPT !.there = TRUE, !.intent = 1]
    /\ disk = [desc |-> db, media |-> {}, newest |-> 1]
    /\ task = [t \in Tasks |-> NoTask]
    /\ armed = FALSE /\ worker = TRUE
    /\ rebuild = NoRebuild
    /\ plan \in Plans
    /\ excused = FALSE /\ lost = NoFeed

Spend(budget) == plan[budget] > 0 /\ plan' = [plan EXCEPT ![budget] = @ - 1]
Idle(t) == task[t].at = "idle"
Quiet == \A t \in Tasks : Idle(t)

-----------------------------------------------------------------------------
(* A transaction, then its export, then its other hooks (UnitOfWork.commit). *)
MayChange == db.there /\ (rebuild.at = "idle" \/ LiveRebuild)

\* Any change of the policy, or of the state of an item, bumps the intent.
Changes(t, policy, items, hook) ==
    /\ t \in Requests /\ Idle(t) /\ MayChange /\ Spend("changes")
    /\ db' = [db EXCEPT !.intent = @ + 1, !.policy = policy, !.items = items]
    /\ task' = [task EXCEPT ![t] = [NoTask EXCEPT !.at = "export", !.hook = hook]]
    /\ UNCHANGED <<disk, armed, worker, rebuild, excused, lost>>

\* A Refresh finds an item.
Discover(t, i) ==
    /\ db.items[i] = "unknown"
    /\ Changes(t, db.policy, [db.items EXCEPT ![i] = "available"], "none")

SetPolicy(t, p) == p # db.policy /\ Changes(t, p, db.items, "none")

Want(t, i) ==
    /\ db.items[i] \in {"available", "deleted"}
    /\ Changes(t, db.policy, [db.items EXCEPT ![i] = "wanted"], "none")

\* The Tombstone is committed and exported, then the file goes.
DeleteEpisode(t, i) ==
    /\ db.items[i] = "archived"
    /\ Changes(t, db.policy, [db.items EXCEPT ![i] = "deleted"], i)

\* Nothing is exported: everything under the prefix goes after the commit.
DeleteFeed(t) ==
    /\ t \in Requests /\ Idle(t) /\ MayChange /\ Spend("changes")
    /\ db' = NoFeed
    /\ task' = [task EXCEPT ![t] = [NoTask EXCEPT !.at = "hooks", !.hook = "feed"]]
    /\ UNCHANGED <<disk, armed, worker, rebuild, excused, lost>>

-----------------------------------------------------------------------------
(* export_descriptor.                                                       *)
\* The rows are read; a Feed that is gone is not exported.
Build(t) ==
    /\ task[t].at = "export"
    /\ task' = [task EXCEPT ![t].at = IF db.there THEN "compare" ELSE "hooks", ![t].desc = db]
    /\ UNCHANGED <<db, disk, armed, worker, rebuild, plan, excused, lost>>

\* An object with a newer intent stays.
Compare(t) ==
    /\ task[t].at = "compare"
    /\ task' = [task EXCEPT ![t].at = IF disk.desc.intent > task[t].desc.intent
                                      THEN "hooks" ELSE "write"]
    /\ UNCHANGED <<db, disk, armed, worker, rebuild, plan, excused, lost>>

Write(t) ==
    /\ task[t].at = "write"
    /\ disk' = [disk EXCEPT !.desc = task[t].desc, !.newest = Max({@, task[t].desc.intent})]
    /\ task' = [task EXCEPT ![t].at = "hooks"]
    /\ UNCHANGED <<db, armed, worker, rebuild, plan, excused, lost>>

\* The Object store answers with an error: it is logged.
ExportFails(t) ==
    /\ task[t].at \in {"compare", "write"} /\ Spend("misfortunes")
    /\ task' = [task EXCEPT ![t].at = "hooks"]
    /\ excused' = TRUE
    /\ UNCHANGED <<db, disk, armed, worker, rebuild, lost>>

\* The hooks run after the exports of the same transaction.
Hooks(t) ==
    /\ task[t].at = "hooks"
    /\ disk' = CASE task[t].hook = "none" -> disk
                 [] task[t].hook = "feed" -> [disk EXCEPT !.desc = NoFeed, !.media = {}]
                 [] OTHER -> [disk EXCEPT !.media = @ \ {task[t].hook}]
    /\ task' = [task EXCEPT ![t] = NoTask]
    /\ UNCHANGED <<db, armed, worker, rebuild, plan, excused, lost>>

-----------------------------------------------------------------------------
(* The worker: its jobs debounce the export.                                *)
Store(i) ==
    /\ worker /\ MayChange /\ db.items[i] = "wanted" /\ i \notin disk.media
    /\ disk' = [disk EXCEPT !.media = @ \cup {i}]
    /\ UNCHANGED <<db, task, armed, worker, rebuild, plan, excused, lost>>

\* A debounce that forgets the Feed only once it is exported.
RegisterCoalesced(i) ==
    /\ worker /\ MayChange /\ db.items[i] = "wanted" /\ i \in disk.media
    /\ db' = [db EXCEPT !.intent = @ + 1, !.items[i] = "archived"]
    /\ armed' = (armed \/ Idle(Timer))
    /\ UNCHANGED <<disk, task, worker, rebuild, plan, excused, lost>>

Register(i) ==
    /\ worker /\ MayChange /\ db.items[i] = "wanted" /\ i \in disk.media
    /\ db' = [db EXCEPT !.intent = @ + 1, !.items[i] = "archived"]
    /\ armed' = TRUE
    /\ UNCHANGED <<disk, task, worker, rebuild, plan, excused, lost>>

\* The timer of the Feed: what is committed from here on arms it again.
Fire ==
    /\ worker /\ armed /\ Idle(Timer)
    /\ armed' = FALSE
    /\ task' = [task EXCEPT ![Timer].at = "export"]
    /\ UNCHANGED <<db, disk, worker, rebuild, plan, excused, lost>>

\* A graceful end has flushed what was pending.
WorkerStops ==
    /\ worker /\ rebuild.at = "idle" /\ ~armed /\ Idle(Timer) /\ plan.rebuilds > 0
    /\ worker' = FALSE
    /\ UNCHANGED <<db, disk, task, armed, rebuild, plan, excused, lost>>

WorkerStarts ==
    /\ ~worker /\ rebuild.at = "idle"
    /\ worker' = TRUE
    /\ UNCHANGED <<db, disk, task, armed, rebuild, plan, excused, lost>>

\* A process dies: with it, every export and hook its commits had left to do.
Die(tasks) ==
    /\ Spend("misfortunes") /\ rebuild.at = "idle"
    /\ task' = [t \in Tasks |-> IF t \in tasks THEN NoTask ELSE task[t]]
    /\ excused' = (excused \/ (\E t \in tasks : ~Idle(t)) \/ (Timer \in tasks /\ armed))
    /\ armed' = (armed /\ Timer \notin tasks)
    /\ UNCHANGED <<db, disk, worker, rebuild, lost>>

\* Postgres is lost while nothing runs.
Lose ==
    /\ Spend("misfortunes") /\ db.there /\ Quiet /\ ~armed /\ ~worker /\ rebuild.at = "idle"
    /\ db' = NoFeed /\ lost' = db
    /\ UNCHANGED <<disk, task, armed, worker, rebuild, excused>>

-----------------------------------------------------------------------------
(* copycast rebuild (the worker stopped), or the rebuild job.               *)
\* The prefix is listed once, the descriptor is read after it.
ListObjects(yes) ==
    /\ rebuild.at = "idle" /\ Spend("rebuilds")
    /\ LiveRebuild \/ (~worker /\ Quiet)
    /\ rebuild' = [NoRebuild EXCEPT !.at = "listed", !.media = disk.media, !.yes = yes,
                                    !.there = disk.desc.there \/ disk.media # {}]
    /\ UNCHANGED <<db, disk, task, armed, worker, excused, lost>>

ReadDescriptor ==
    /\ rebuild.at = "listed"
    /\ rebuild' = [rebuild EXCEPT !.at = IF disk.desc.there THEN "read" ELSE "rebuilt",
                                  !.desc = disk.desc]
    /\ UNCHANGED <<db, disk, task, armed, worker, plan, excused, lost>>

\* An upsert that leaves wanted items to the next archive.
RebuiltFromRow(row, described, media, yes) ==
    LET known == IF described # "unknown" THEN described ELSE row
    IN  IF ~media /\ known = "archived" THEN "wanted"
        ELSE IF ~media /\ yes THEN described ELSE known

\* What the descriptor and the listing say of an item wins over its row.
Rebuilt(row, described, media, yes) ==
    LET known == IF described # "unknown" THEN described ELSE row
    IN  CASE media -> "archived"
          [] ~media /\ known = "archived" -> "wanted"
          [] ~media /\ known # "archived" -> IF yes THEN described ELSE known

RebuildFeed ==
    /\ rebuild.at = "read"
    /\ db' = [rebuild.desc EXCEPT !.items =
                [i \in Items |-> Rebuilt(db.items[i], rebuild.desc.items[i],
                                         i \in rebuild.media, rebuild.yes)]]
    /\ rebuild' = [rebuild EXCEPT !.at = "rebuilt"]
    /\ lost' = NoFeed
    /\ UNCHANGED <<disk, task, armed, worker, plan, excused>>

\* Feeds without a trace go; a Feed without a descriptor is described again.
Finish ==
    /\ rebuild.at = "rebuilt"
    /\ db' = IF rebuild.yes /\ ~rebuild.there THEN NoFeed ELSE db
    /\ rebuild' = NoRebuild
    /\ UNCHANGED <<disk, task, armed, worker, plan, excused, lost>>

\* An error, or its end: the transaction of the Feed is rolled back.
RebuildEnds ==
    /\ rebuild.at \in {"listed", "read"} /\ Spend("misfortunes")
    /\ rebuild' = NoRebuild
    /\ UNCHANGED <<db, disk, task, armed, worker, excused, lost>>

-----------------------------------------------------------------------------
DescNext ==
    \/ \E t \in Requests, i \in Items : Discover(t, i) \/ Want(t, i) \/ DeleteEpisode(t, i)
    \/ \E t \in Requests, p \in Policies : SetPolicy(t, p)
    \/ \E t \in Requests : DeleteFeed(t)
    \/ \E t \in Tasks : Build(t) \/ Compare(t) \/ Write(t) \/ ExportFails(t) \/ Hooks(t)
    \/ \E i \in Items : Store(i) \/ Register(i)
    \/ Fire \/ WorkerStops \/ WorkerStarts
    \/ Die(Requests) \/ Die({Timer}) \/ Lose
    \/ \E yes \in BOOLEAN : ListObjects(yes)
    \/ ReadDescriptor \/ RebuildFeed \/ Finish \/ RebuildEnds

-----------------------------------------------------------------------------
\* What is committed reaches feed.json: while the newest intent has not been
\* written, its export is armed or under way, unless its process died or the
\* Object store refused it.
EveryChangeExported ==
    (db.there /\ ~excused /\ db.intent > disk.newest) =>
        armed \/ \E t \in Tasks : \/ task[t].at = "export"
                                  \/ /\ task[t].at \in {"compare", "write"}
                                     /\ task[t].desc.intent = db.intent

\* A rebuild brings back what the newest descriptor was exported from: the
\* policy, and every item as it was, archived exactly when its media is there.
Same(old) ==
    /\ db'.policy = old.policy /\ db'.intent = old.intent
    /\ \A i \in Items :
         db'.items[i] = IF old.items[i] \in {"wanted", "archived"}
                        THEN IF i \in disk.media THEN "archived" ELSE "wanted"
                        ELSE old.items[i]
RebuildRestores ==
    [][RebuildFeed /\ ~excused =>
         /\ lost.there /\ rebuild.desc.intent = lost.intent => Same(lost)
         /\ db.there /\ rebuild.desc.intent = db.intent /\ Quiet /\ ~armed => Same(db)]_descVars
=============================================================================
