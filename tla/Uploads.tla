------------------------------ MODULE Uploads ------------------------------
(***************************************************************************)
(* The staged uploads of one Owner (application/services/uploads.py): each *)
(* is announced, PUT, and added to a Bucket, given up or swept.  Its truth *)
(* is in the Object store (upload.json and the file); a row per upload     *)
(* accounts for it against the Owner's quota.  Calls of the api run side   *)
(* by side with each other and with the worker's hourly sweep; only the    *)
(* Owner's advisory lock orders them, where they take it.                  *)
(*                                                                         *)
(* A transaction under that lock that awaits nothing outside the database  *)
(* is one action; a batch holds the lock while it copies, step by step.    *)
(* What uses the quota here is what uploads add: archive jobs, which may   *)
(* overshoot, and deletions are Archive.tla's.                             *)
(***************************************************************************)
EXTENDS Integers, FiniteSets, Sums

CONSTANTS
    UploadIds,      \* bound: what create_upload may return
    Size,           \* the bytes of each upload's file
    Quota,          \* the Owner's quota
    MaxStaged,      \* MAX_STAGED_UPLOADS
    Puts, Batches,  \* slots of the PUTs and batches in flight
    Calls,          \* bound: calls in flight at a time
    Buckets,        \* those uploads are added to
    Budget,         \* bound: how many crashes, failures and delete_uploads happen
    NoRow, NoUpload, NoBatch, NoBucket

Ages == {"fresh", "held", "expired"}     \* up to PENDING_HOLD, up to UPLOAD_TTL, older

ASSUME UploadsAssumption ==
    /\ IsFiniteSet(UploadIds) /\ NoUpload \notin UploadIds /\ NoBatch \notin Batches
    /\ Puts \cap Batches = {} /\ NoBucket \notin Buckets
    /\ Size \in [UploadIds -> Nat \ {0}]
    /\ Quota \in Nat /\ MaxStaged \in Nat \ {0} /\ Calls \in Nat \ {0}
    /\ Budget \in Nat

VARIABLES
    meta,       \* the state in upload.json: none without it
    age,        \* of the upload, by upload.json's created_at
    files,      \* the uploads whose file is in the store
    row,        \* staged_uploads
    put,        \* the PUTs in flight
    batch,      \* the batches in flight
    lock,       \* the batch that holds the Owner's lock
    giving,     \* uploads delete_upload has dropped the row of
    sweep,      \* the sweep in flight and the uploads it removed
    episodes,   \* <<Bucket, upload>>: the Episodes committed
    left        \* what remains of Budget

vars == <<meta, age, files, row, put, batch, lock, giving, sweep, episodes, left>>

Rows     == [received : BOOLEAN, bytes : Nat, age : Ages]
NoPut    == [phase |-> "idle", up |-> NoUpload]
Unused   == [phase |-> "idle", bucket |-> NoBucket, named |-> {}, copied |-> {}]
NoSweep  == [on |-> FALSE, ids |-> {}]

Init ==
    /\ meta = [u \in UploadIds |-> "none"]
    /\ age = [u \in UploadIds |-> "unborn"]
    /\ files = {}
    /\ row = [u \in UploadIds |-> NoRow]
    /\ put = [p \in Puts |-> NoPut]
    /\ batch = [b \in Batches |-> Unused]
    /\ lock = NoBatch
    /\ giving = {}
    /\ sweep = NoSweep
    /\ episodes = {}
    /\ left = Budget

InFlight == {p \in Puts : put[p] # NoPut} \cup {b \in Batches : batch[b] # Unused}
Spend == left > 0 /\ left' = left - 1

-----------------------------------------------------------------------------
(* Usage and room.                                                          *)
SizeOf(S) == Sum(Size, S)
Usage     == Sum([e \in episodes |-> Size[e[2]]], episodes)

Counted == {u \in UploadIds : row[u] # NoRow /\ row[u].age # "expired"}
Holding == [u \in Counted |->
               IF row[u].received \/ row[u].age = "fresh" THEN row[u].bytes ELSE 0]
StagedWithout(S) == Sum(Holding, Counted \ S)
Room(S) == LET free == Quota - Usage - StagedWithout(S) IN IF free > 0 THEN free ELSE 0

\* require_room
HasRoom(adding) == Usage < Quota /\ Usage + adding <= Quota

-----------------------------------------------------------------------------
(* create_upload, with the size or without it.                              *)
Create(u, declared) ==
    /\ lock = NoBatch /\ age[u] = "unborn"
    /\ HasRoom(declared)
    /\ Cardinality(Counted) < MaxStaged
    /\ Room({}) > 0 /\ declared <= Room({})
    /\ meta' = [meta EXCEPT ![u] = "pending"]
    /\ age' = [age EXCEPT ![u] = "fresh"]
    /\ row' = [row EXCEPT ![u] = [received |-> FALSE, bytes |-> declared, age |-> "fresh"]]
    /\ UNCHANGED <<files, put, batch, lock, giving, sweep, episodes, left>>

-----------------------------------------------------------------------------
(* put_upload                                                               *)
InPut(p, phase) == put[p].phase = phase
PutTo(p, phase) == put' = [put EXCEPT ![p] = [@ EXCEPT !.phase = phase]]

PutLoad(p, u) ==
    /\ InPut(p, "idle") /\ Cardinality(InFlight) < Calls
    /\ meta[u] = "pending"
    /\ put' = [put EXCEPT ![p] = [phase |-> "loaded", up |-> u]]
    /\ UNCHANGED <<meta, age, files, row, batch, lock, giving, sweep, episodes, left>>

\* The room left, and what it makes of the bytes that follow: discarding is
\* also the stream that stops at the room.
PutRoom(p) ==
    /\ InPut(p, "loaded")
    /\ PutTo(p, IF HasRoom(0) /\ Size[put[p].up] <= Room({put[p].up}) THEN "receiving"
                                                                    ELSE "discarding")
    /\ UNCHANGED <<meta, age, files, row, batch, lock, giving, sweep, episodes, left>>

PutStore(p) ==
    /\ InPut(p, "receiving")
    /\ files' = files \cup {put[p].up}
    /\ PutTo(p, "stored")
    /\ UNCHANGED <<meta, age, row, batch, lock, giving, sweep, episodes, left>>

\* The connection drops, the bytes are no audio, the store or the database fails.
PutFails(p) ==
    /\ \/ InPut(p, "receiving") /\ UNCHANGED left
       \/ put[p].phase \in {"loaded", "stored"} /\ Spend
    /\ PutTo(p, "discarding")
    /\ UNCHANGED <<meta, age, files, row, batch, lock, giving, sweep, episodes>>

PutCommitStale(p) ==        \* mutant: decided with the room read before receiving
    LET u == put[p].up IN
    /\ InPut(p, "stored") /\ lock = NoBatch
    /\ row' = [row EXCEPT ![u] = [received |-> TRUE, bytes |-> Size[u],
                                  age |-> IF @ = NoRow THEN "fresh" ELSE @.age]]
    /\ meta' = [meta EXCEPT ![u] = "received"]
    /\ put' = [put EXCEPT ![p] = NoPut]
    /\ UNCHANGED <<age, files, batch, lock, giving, sweep, episodes, left>>

\* The final check, under the lock; upload.json is saved before the commit,
\* and stands when the commit fails.
PutCommit(p) ==
    LET u == put[p].up IN
    /\ InPut(p, "stored") /\ lock = NoBatch
    /\ \/ /\ Size[u] > Room({u})
          /\ PutTo(p, "discarding") /\ UNCHANGED <<meta, row, left>>
       \/ /\ Size[u] <= Room({u})
          /\ row' = [row EXCEPT ![u] = [received |-> TRUE, bytes |-> Size[u],
                                        age |-> IF @ = NoRow THEN "fresh" ELSE @.age]]
          /\ meta' = [meta EXCEPT ![u] = "received"]
          /\ put' = [put EXCEPT ![p] = NoPut]
          /\ UNCHANGED left
       \/ /\ Size[u] <= Room({u}) /\ Spend
          /\ meta' = [meta EXCEPT ![u] = "received"]
          /\ put' = [put EXCEPT ![p] = NoPut]
          /\ UNCHANGED row
    /\ UNCHANGED <<age, files, batch, lock, giving, sweep, episodes>>

\* The file goes, unless the store fails, which is suppressed.
PutDiscard(p) ==
    /\ InPut(p, "discarding")
    /\ \/ files' = files \ {put[p].up} /\ UNCHANGED left
       \/ Spend /\ UNCHANGED files
    /\ PutTo(p, "releasing")
    /\ UNCHANGED <<meta, age, row, batch, lock, giving, sweep, episodes>>

\* _release; its own failure is only logged.
PutRelease(p) ==
    LET u == put[p].up IN
    /\ InPut(p, "releasing")
    /\ \/ /\ row' = IF row[u] = NoRow \/ row[u].received THEN row
                    ELSE [row EXCEPT ![u] = [@ EXCEPT !.bytes = 0]]
          /\ UNCHANGED left
       \/ Spend /\ UNCHANGED row
    /\ put' = [put EXCEPT ![p] = NoPut]
    /\ UNCHANGED <<meta, age, files, batch, lock, giving, sweep, episodes>>

-----------------------------------------------------------------------------
(* delete_upload takes no lock.                                             *)
GiveUp(u) ==
    /\ meta[u] # "none" /\ Spend
    /\ row' = [row EXCEPT ![u] = NoRow]
    /\ giving' = giving \cup {u}
    /\ UNCHANGED <<meta, age, files, put, batch, lock, sweep, episodes>>

GivenUp(u) ==
    /\ u \in giving
    /\ meta' = [meta EXCEPT ![u] = "none"] /\ files' = files \ {u}
    /\ giving' = giving \ {u}
    /\ UNCHANGED <<age, row, put, batch, lock, sweep, episodes, left>>

-----------------------------------------------------------------------------
(* add_uploads, and create_serial_bucket for a Bucket of its own: what is   *)
(* read of the uploads is read before the lock.  A batch that meets an      *)
(* upload it may not add has changed nothing and is not modelled.           *)
BatchRead(b, k, u) ==
    /\ \/ batch[b].phase = "idle" /\ Cardinality(InFlight) < Calls
       \/ batch[b].phase = "reading" /\ batch[b].bucket = k /\ u \notin batch[b].named
    /\ meta[u] = "received"
    /\ batch' = [batch EXCEPT ![b] = [phase |-> "reading", bucket |-> k,
                                      named |-> @.named \cup {u}, copied |-> {}]]
    /\ UNCHANGED <<meta, age, files, row, put, lock, giving, sweep, episodes, left>>

\* _check_batch: the lock, then the room for the whole batch.
BatchCheck(b) ==
    /\ batch[b].phase = "reading" /\ lock = NoBatch
    /\ IF HasRoom(SizeOf(batch[b].named))
       THEN lock' = b /\ batch' = [batch EXCEPT ![b] = [@ EXCEPT !.phase = "copying"]]
       ELSE batch' = [batch EXCEPT ![b] = Unused] /\ UNCHANGED lock
    /\ UNCHANGED <<meta, age, files, row, put, giving, sweep, episodes, left>>

BatchCopy(b, u) ==
    /\ batch[b].phase = "copying" /\ u \in batch[b].named \ batch[b].copied
    /\ u \in files
    /\ batch' = [batch EXCEPT ![b] = [batch[b] EXCEPT !.copied = @ \cup {u}]]
    /\ UNCHANGED <<meta, age, files, row, put, lock, giving, sweep, episodes, left>>

\* A source is missing, or the store or the database fails: rolled back.
BatchFails(b) ==
    /\ batch[b].phase = "copying"
    /\ \/ ~(batch[b].named \subseteq batch[b].copied \cup files) /\ UNCHANGED left
       \/ Spend
    /\ batch' = [batch EXCEPT ![b] = Unused]
    /\ lock' = NoBatch
    /\ UNCHANGED <<meta, age, files, row, put, giving, sweep, episodes>>

BatchCommitAfterHook(b) ==      \* mutant: the staged objects go before the commit
    /\ batch[b].phase = "copying" /\ batch[b].copied = batch[b].named
    /\ batch' = [batch EXCEPT ![b] = [@ EXCEPT !.phase = "hook"]]
    /\ lock' = NoBatch
    /\ UNCHANGED <<meta, age, files, row, put, giving, sweep, episodes, left>>

BatchCommit(b) ==
    /\ batch[b].phase = "copying" /\ batch[b].copied = batch[b].named
    /\ episodes' = episodes \cup ({batch[b].bucket} \X batch[b].named)
    /\ row' = [u \in UploadIds |-> IF u \in batch[b].named THEN NoRow ELSE row[u]]
    /\ batch' = [batch EXCEPT ![b] = [@ EXCEPT !.phase = "hook"]]
    /\ lock' = NoBatch
    /\ UNCHANGED <<meta, age, files, put, giving, sweep, left>>

\* _remove_all, one upload after the other.
BatchRemove(b, u) ==
    /\ batch[b].phase = "hook" /\ u \in batch[b].named
    /\ meta' = [meta EXCEPT ![u] = "none"] /\ files' = files \ {u}
    /\ batch' = [batch EXCEPT ![b] = IF @.named = {u} THEN Unused
                                     ELSE [batch[b] EXCEPT !.named = @ \ {u}]]
    /\ UNCHANGED <<age, row, put, lock, giving, sweep, episodes, left>>

-----------------------------------------------------------------------------
(* The worker's sweep.  A file without upload.json is judged by the time it *)
(* was written: long enough ago for no PUT of it to be about to commit.     *)
Storing(u) == \E p \in Puts : InPut(p, "stored") /\ put[p].up = u
Abandoned  == {u \in UploadIds : age[u] = "expired" /\
                  (meta[u] # "none" \/ (u \in files /\ ~Storing(u)))}
ExpiredRows == {u \in UploadIds : row[u] # NoRow /\ row[u].age = "expired"}

SweepObjects ==
    /\ ~sweep.on /\ Abandoned \cup ExpiredRows # {}
    /\ sweep' = [on |-> TRUE, ids |-> Abandoned]
    /\ files' = files \ Abandoned
    /\ meta' = [u \in UploadIds |-> IF u \in Abandoned THEN "none" ELSE meta[u]]
    /\ UNCHANGED <<age, row, put, batch, lock, giving, episodes, left>>

SweepRows ==
    /\ sweep.on
    /\ row' = [u \in UploadIds |-> IF u \in sweep.ids \cup ExpiredRows THEN NoRow ELSE row[u]]
    /\ sweep' = NoSweep
    /\ UNCHANGED <<meta, age, files, put, batch, lock, giving, episodes, left>>

-----------------------------------------------------------------------------
Older(a) == IF a = "fresh" THEN "held" ELSE "expired"

Hours(u) ==
    /\ \/ age[u] \in {"fresh", "held"}
       \/ (row[u] # NoRow /\ row[u].age # "expired")
    /\ age' = [age EXCEPT ![u] = Older(@)]
    /\ row' = IF row[u] = NoRow THEN row ELSE [row EXCEPT ![u] = [row[u] EXCEPT !.age = Older(@)]]
    /\ UNCHANGED <<meta, files, put, batch, lock, giving, sweep, episodes, left>>

\* The api process dies: its calls with their transactions and hooks.
Crash ==
    /\ Spend
    /\ put' = [p \in Puts |-> NoPut] /\ batch' = [b \in Batches |-> Unused]
    /\ lock' = NoBatch /\ giving' = {}
    /\ UNCHANGED <<meta, age, files, row, sweep, episodes>>

WorkerCrash ==
    /\ sweep.on /\ Spend
    /\ sweep' = NoSweep
    /\ UNCHANGED <<meta, age, files, row, put, batch, lock, giving, episodes>>

PutStep(p)   == PutRoom(p) \/ PutStore(p) \/ PutFails(p) \/ PutCommit(p) \/ PutDiscard(p)
                    \/ PutRelease(p)
BatchStep(b) == \/ BatchCheck(b) \/ BatchFails(b) \/ BatchCommit(b)
                \/ \E u \in UploadIds : BatchCopy(b, u) \/ BatchRemove(b, u)

Next ==
    \/ \E u \in UploadIds : \/ \E d \in {0, Size[u]} : Create(u, d)
                            \/ GiveUp(u) \/ GivenUp(u) \/ Hours(u)
                            \/ \E p \in Puts : PutLoad(p, u)
                            \/ \E b \in Batches, k \in Buckets : BatchRead(b, k, u)
    \/ \E p \in Puts : PutStep(p)
    \/ \E b \in Batches : BatchStep(b)
    \/ SweepObjects \/ SweepRows \/ Crash \/ WorkerCrash

Spec == Init /\ [][Next]_vars

-----------------------------------------------------------------------------
TypeOK ==
    /\ meta \in [UploadIds -> {"none", "pending", "received"}]
    /\ age \in [UploadIds -> Ages \cup {"unborn"}]
    /\ files \subseteq UploadIds /\ giving \subseteq UploadIds
    /\ row \in [UploadIds -> Rows \cup {NoRow}]
    /\ put \in [Puts -> [phase : {"idle", "loaded", "receiving", "stored", "discarding",
                                  "releasing"}, up : UploadIds \cup {NoUpload}]]
    /\ batch \in [Batches -> [phase : {"idle", "reading", "copying", "hook"},
                              bucket : Buckets \cup {NoBucket},
                              named : SUBSET UploadIds, copied : SUBSET UploadIds]]
    /\ lock \in Batches \cup {NoBatch}
    /\ \A b \in Batches : batch[b].phase = "copying" <=> lock = b
    /\ sweep \in [on : BOOLEAN, ids : SUBSET UploadIds]
    /\ episodes \subseteq Buckets \X UploadIds
    /\ left \in Nat

\* "Uploads are admitted one at a time per Owner and never overshoot" (the
\* operations guide): no interleaving of batches takes more than the quota.
NoOvershoot == Usage <= Quota

\* A step that makes the Owner hold more staged bytes leaves them, together
\* with what is used, within the quota: parallel calls never stage what could
\* not be added, whatever room each had seen before.
StagesWhatFits == StagedWithout({})' > StagedWithout({}) => Usage' + StagedWithout({})' <= Quota

\* Whatever is announced, received and added side by side, the quota holds: for
\* the Episodes, and for what is staged beside them when it is staged.
QuotaKept == [][NoOvershoot' /\ StagesWhatFits]_vars

\* A received file goes only when its upload is given up, is 24 hours old, is
\* an Episode with its own copy, or another PUT of the same upload fails: no
\* refused or failed batch and no crash loses it.
ReceivedNotLost ==
    [][\A u \in files : (meta[u] = "received" /\ u \notin files') =>
          \/ u \in giving \/ age[u] = "expired"
          \/ \E k \in Buckets : <<k, u>> \in episodes
          \/ \E p \in Puts : InPut(p, "discarding") /\ put[p].up = u]_vars
=============================================================================
