--------------------------- MODULE UploadsProofs ---------------------------
(***************************************************************************)
(* What holds of the staged uploads of an Owner for every set of uploads,  *)
(* PUTs, batches and Buckets, every quota and any number of failures.      *)
(***************************************************************************)
EXTENDS Uploads, SumsProofs

PutPhases   == {"idle", "loaded", "receiving", "stored", "discarding", "releasing"}
BatchPhases == {"idle", "reading", "copying", "hook"}
PutRows     == [phase : PutPhases, up : UploadIds \cup {NoUpload}]
BatchRows   == [phase : BatchPhases, bucket : Buckets \cup {NoBucket},
                named : SUBSET UploadIds, copied : SUBSET UploadIds]

\* The parts of TypeOK, by what reads them.
StoreTypes == /\ meta \in [UploadIds -> {"none", "pending", "received"}]
              /\ age \in [UploadIds -> Ages \cup {"unborn"}]
              /\ files \subseteq UploadIds /\ giving \subseteq UploadIds
              /\ row \in [UploadIds -> Rows \cup {NoRow}]
              /\ sweep \in [on : BOOLEAN, ids : SUBSET UploadIds]
              /\ left \in Nat
PutTypes   == put \in [Puts -> PutRows]
BatchTypes == /\ batch \in [Batches -> BatchRows]
              /\ lock \in Batches \cup {NoBatch}
              /\ \A b \in Batches : batch[b].phase = "copying" <=> lock = b
              /\ episodes \subseteq Buckets \X UploadIds

\* They are TypeOK together.
LEMMA TypeParts == TypeOK <=> StoreTypes /\ PutTypes /\ BatchTypes
BY DEF TypeOK, StoreTypes, PutTypes, BatchTypes, PutRows, BatchRows, PutPhases, BatchPhases

\* What TypeOK lacks to be inductive: a call in flight is of some upload, or Bucket.
Named == /\ \A p \in Puts : put[p].phase # "idle" => put[p].up \in UploadIds
         /\ \A b \in Batches : batch[b].phase # "idle" => batch[b].bucket \in Buckets

\* Every step of a PUT keeps the types.
LEMMA PutKeepsTypes ==
    ASSUME StoreTypes, PutTypes, BatchTypes, Named, NEW p \in Puts,
           PutStep(p) \/ \E u \in UploadIds : PutLoad(p, u)
    PROVE  StoreTypes' /\ PutTypes' /\ BatchTypes' /\ Named'
<1> USE UploadsAssumption DEF StoreTypes, PutTypes, BatchTypes, Named, PutRows, PutPhases,
        Rows, Ages, InPut, PutTo, Spend, NoPut
<1>1. ASSUME NEW u \in UploadIds, PutLoad(p, u)
      PROVE  StoreTypes' /\ PutTypes' /\ BatchTypes' /\ Named'
  BY <1>1 DEF PutLoad
<1>2. CASE PutRoom(p)
  BY <1>2 DEF PutRoom
<1>3. CASE PutStore(p)
  BY <1>3 DEF PutStore
<1>4. CASE PutFails(p)
  BY <1>4 DEF PutFails
<1>5. CASE PutCommit(p)
  <2> DEFINE u == put[p].up
             kept == IF row[u] = NoRow THEN "fresh" ELSE row[u].age
             received == [received |-> TRUE, bytes |-> Size[u], age |-> kept]
  <2>1. u \in UploadIds
    BY <1>5 DEF PutCommit
  <2>2. kept \in Ages /\ Size[u] \in Nat
    BY <2>1
  <2>3. received \in Rows
    BY <2>2
  <2>4. row' = row \/ row' = [row EXCEPT ![u] = received]
    BY <1>5 DEF PutCommit
  <2>5. row' \in [UploadIds -> Rows \cup {NoRow}]
    <3> HIDE DEF received, Rows
    <3> QED
      BY <2>1, <2>3, <2>4
  <2>6. meta' \in [UploadIds -> {"none", "pending", "received"}]
    BY <1>5, <2>1 DEF PutCommit
  <2>7. PutTypes' /\ Named'
    BY <1>5 DEF PutCommit
  <2> QED
    BY <1>5, <2>5, <2>6, <2>7 DEF PutCommit
<1>6. CASE PutDiscard(p)
  BY <1>6 DEF PutDiscard
<1>7. CASE PutRelease(p)
  BY <1>7 DEF PutRelease
<1> QED
  BY <1>1, <1>2, <1>3, <1>4, <1>5, <1>6, <1>7 DEF PutStep

\* Every step of a batch keeps the types; whoever copies holds the lock.
LEMMA BatchKeepsTypes ==
    ASSUME StoreTypes, PutTypes, BatchTypes, Named, NEW b \in Batches,
           \/ BatchStep(b)
           \/ \E u \in UploadIds, k \in Buckets : BatchRead(b, k, u)
    PROVE  StoreTypes' /\ PutTypes' /\ BatchTypes' /\ Named'
<1> USE UploadsAssumption DEF StoreTypes, PutTypes, BatchTypes, Named, BatchRows, BatchPhases,
        Spend, Unused
<1>1. ASSUME NEW u \in UploadIds, NEW k \in Buckets, BatchRead(b, k, u)
      PROVE  StoreTypes' /\ PutTypes' /\ BatchTypes' /\ Named'
  BY <1>1 DEF BatchRead
<1>2. CASE BatchCheck(b)
  BY <1>2 DEF BatchCheck
<1>3. ASSUME NEW u \in UploadIds, BatchCopy(b, u)
      PROVE  StoreTypes' /\ PutTypes' /\ BatchTypes' /\ Named'
  <2>1. [batch[b] EXCEPT !.copied = @ \cup {u}] \in BatchRows
    BY DEF BatchRows
  <2>2. batch' = [batch EXCEPT ![b] = [batch[b] EXCEPT !.copied = @ \cup {u}]]
    BY <1>3 DEF BatchCopy
  <2>3. batch' \in [Batches -> BatchRows]
    <3> HIDE DEF BatchRows
    <3> QED
      BY <2>1, <2>2
  <2>4. \A c \in Batches : /\ batch'[c].phase = batch[c].phase
                           /\ batch'[c].bucket = batch[c].bucket
    BY <2>2
  <2> QED
    BY <1>3, <2>3, <2>4 DEF BatchCopy
<1>4. CASE BatchFails(b)
  BY <1>4 DEF BatchFails
<1>5. CASE BatchCommit(b)
  <2>1. batch' \in [Batches -> BatchRows] /\ lock' = NoBatch
    BY <1>5 DEF BatchCommit
  <2>2. \A c \in Batches : batch'[c].phase # "copying"
    BY <1>5 DEF BatchCommit
  <2>3. episodes' \subseteq Buckets \X UploadIds
    <3>1. batch[b].bucket \in Buckets /\ batch[b].named \subseteq UploadIds
      BY <1>5 DEF BatchCommit
    <3> QED
      BY <1>5, <3>1 DEF BatchCommit
  <2>4. StoreTypes'
    BY <1>5 DEF BatchCommit
  <2> QED
    BY <1>5, <2>1, <2>2, <2>3, <2>4 DEF BatchCommit
<1>6. ASSUME NEW u \in UploadIds, BatchRemove(b, u)
      PROVE  StoreTypes' /\ PutTypes' /\ BatchTypes' /\ Named'
  <2>1. [batch[b] EXCEPT !.named = @ \ {u}] \in BatchRows /\ Unused \in BatchRows
    BY DEF BatchRows
  <2>2. \/ batch' = [batch EXCEPT ![b] = Unused]
        \/ batch' = [batch EXCEPT ![b] = [batch[b] EXCEPT !.named = @ \ {u}]]
    BY <1>6 DEF BatchRemove
  <2>3. batch' \in [Batches -> BatchRows]
    <3> HIDE DEF BatchRows, Unused
    <3> QED
      BY <2>1, <2>2
  <2>4. /\ batch[b].phase = "hook"
        /\ \/ batch'[b].phase = "idle"
           \/ batch'[b].phase = "hook" /\ batch'[b].bucket = batch[b].bucket
        /\ \A c \in Batches \ {b} : batch'[c] = batch[c]
    BY <1>6, <2>2 DEF BatchRemove
  <2> QED
    BY <1>6, <2>3, <2>4 DEF BatchRemove
<1> QED
  BY <1>1, <1>2, <1>3, <1>4, <1>5, <1>6 DEF BatchStep

\* Announcing, giving up, ageing, sweeping and crashing keep the types.
LEMMA OthersKeepTypes ==
    ASSUME StoreTypes, PutTypes, BatchTypes, Named,
           \/ \E u \in UploadIds : \/ \E d \in {0, Size[u]} : Create(u, d)
                                   \/ GiveUp(u) \/ GivenUp(u) \/ Hours(u)
           \/ SweepObjects \/ SweepRows \/ Crash \/ WorkerCrash \/ UNCHANGED vars
    PROVE  StoreTypes' /\ PutTypes' /\ BatchTypes' /\ Named'
<1> USE UploadsAssumption DEF StoreTypes, PutTypes, BatchTypes, Named, Rows, Ages, Spend
<1>1. ASSUME NEW u \in UploadIds, NEW d \in {0, Size[u]}, Create(u, d)
      PROVE  StoreTypes' /\ PutTypes' /\ BatchTypes' /\ Named'
  BY <1>1 DEF Create
<1>2. ASSUME NEW u \in UploadIds, GiveUp(u) \/ GivenUp(u)
      PROVE  StoreTypes' /\ PutTypes' /\ BatchTypes' /\ Named'
  BY <1>2 DEF GiveUp, GivenUp
<1>3. ASSUME NEW u \in UploadIds, Hours(u)
      PROVE  StoreTypes' /\ PutTypes' /\ BatchTypes' /\ Named'
  BY <1>3 DEF Hours, Older
<1>4. CASE SweepObjects
  BY <1>4 DEF SweepObjects, Abandoned
<1>5. CASE SweepRows
  BY <1>5 DEF SweepRows, NoSweep
<1>6. CASE Crash
  BY <1>6 DEF Crash, NoPut, Unused, PutRows, PutPhases, BatchRows, BatchPhases
<1>7. CASE WorkerCrash
  BY <1>7 DEF WorkerCrash, NoSweep
<1>8. CASE UNCHANGED vars
  BY <1>8 DEF vars
<1> QED
  BY <1>1, <1>2, <1>3, <1>4, <1>5, <1>6, <1>7, <1>8

Types == StoreTypes /\ PutTypes /\ BatchTypes /\ Named

\* Every step keeps the types: PUTs, batches, and what else happens.
LEMMA NextKeepsTypes ==
    ASSUME Types, [Next]_vars
    PROVE  Types'
<1> USE DEF Types
<1>1. CASE \E p \in Puts : PutStep(p) \/ \E u \in UploadIds : PutLoad(p, u)
  BY <1>1, PutKeepsTypes
<1>2. CASE \E b \in Batches : \/ BatchStep(b)
                            \/ \E u \in UploadIds, k \in Buckets : BatchRead(b, k, u)
  BY <1>2, BatchKeepsTypes
<1>3. CASE \/ \E u \in UploadIds : \/ \E d \in {0, Size[u]} : Create(u, d)
                                   \/ GiveUp(u) \/ GivenUp(u) \/ Hours(u)
           \/ SweepObjects \/ SweepRows \/ Crash \/ WorkerCrash \/ UNCHANGED vars
  BY <1>3, OthersKeepTypes
<1> QED
  BY <1>1, <1>2, <1>3 DEF Next

\* Nothing is staged and no call runs at first.
LEMMA InitTypes == Init => Types
BY UploadsAssumption DEF Init, Types, StoreTypes, PutTypes, BatchTypes, Named, PutRows,
   PutPhases, BatchRows, BatchPhases, Rows, Ages, NoPut, Unused, NoSweep

\* Tables, objects and calls keep their types, and the Owner's lock is held by
\* exactly the batch that copies.
THEOREM UploadTypes == Spec => []TypeOK
<1>1. Types => TypeOK
  BY TypeParts DEF Types
<1> QED
  BY <1>1, InitTypes, NextKeepsTypes, PTL DEF Spec

-----------------------------------------------------------------------------
\* What a batch's hook still has to remove is committed.
HookAdded == \A b \in Batches : batch[b].phase = "hook" =>
                 {batch[b].bucket} \X batch[b].named \subseteq episodes

\* Only a commit starts a hook, its removals shrink it, and Episodes stay.
LEMMA NextKeepsHookAdded ==
    ASSUME Types, HookAdded, [Next]_vars
    PROVE  HookAdded'
<1> USE DEF Types, BatchTypes, BatchRows, BatchPhases, HookAdded
<1>1. ASSUME NEW b \in Batches, NEW k \in Buckets, NEW u \in UploadIds, BatchRead(b, k, u)
      PROVE  HookAdded'
  BY <1>1 DEF BatchRead
<1>2. ASSUME NEW b \in Batches, BatchCheck(b) \/ BatchFails(b)
      PROVE  HookAdded'
  BY <1>2 DEF BatchCheck, BatchFails, Unused
<1>3. ASSUME NEW b \in Batches, NEW u \in UploadIds, BatchCopy(b, u)
      PROVE  HookAdded'
  BY <1>3 DEF BatchCopy
<1>4. ASSUME NEW b \in Batches, BatchCommit(b)
      PROVE  HookAdded'
  BY <1>4 DEF BatchCommit
<1>5. ASSUME NEW b \in Batches, NEW u \in UploadIds, BatchRemove(b, u)
      PROVE  HookAdded'
  <2>1. \A c \in Batches \ {b} : batch'[c] = batch[c]
    BY <1>5 DEF BatchRemove
  <2>2. /\ batch[b].phase = "hook" /\ episodes' = episodes
        /\ \/ batch'[b].phase = "idle"
           \/ /\ batch'[b].bucket = batch[b].bucket
              /\ batch'[b].named = batch[b].named \ {u}
    <3>1. \/ batch' = [batch EXCEPT ![b] = Unused]
          \/ batch' = [batch EXCEPT ![b] = [batch[b] EXCEPT !.named = @ \ {u}]]
      BY <1>5 DEF BatchRemove
    <3> QED
      BY <1>5, <3>1 DEF BatchRemove, Unused
  <2>3. batch'[b].phase = "hook" => {batch'[b].bucket} \X batch'[b].named \subseteq episodes
    BY <2>2
  <2> QED
    BY <2>1, <2>2, <2>3
<1>6. CASE Crash
  BY <1>6 DEF Crash, Unused
<1>7. CASE UNCHANGED <<batch, episodes>>
  BY <1>7
<1>8. ASSUME NEW p \in Puts, PutStep(p) \/ \E u \in UploadIds : PutLoad(p, u)
      PROVE  UNCHANGED <<batch, episodes>>
  BY <1>8 DEF PutStep, PutLoad, PutRoom, PutStore, PutFails, PutCommit, PutDiscard, PutRelease
<1>9. ASSUME NEW u \in UploadIds,
             (\E d \in {0, Size[u]} : Create(u, d)) \/ GiveUp(u) \/ GivenUp(u) \/ Hours(u)
      PROVE  UNCHANGED <<batch, episodes>>
  BY <1>9 DEF Create, GiveUp, GivenUp, Hours
<1>10. ASSUME SweepObjects \/ SweepRows \/ WorkerCrash \/ UNCHANGED vars
       PROVE  UNCHANGED <<batch, episodes>>
  BY <1>10 DEF SweepObjects, SweepRows, WorkerCrash, vars
<1> QED
  BY <1>1, <1>2, <1>3, <1>4, <1>5, <1>6, <1>7, <1>8, <1>9, <1>10 DEF Next, BatchStep

-----------------------------------------------------------------------------
\* No refused or failed batch, no sweep before 24 hours and no crash loses a
\* received file (put_upload's own failure is the exception it names).
THEOREM ReceivedKept == Spec => ReceivedNotLost
<1> DEFINE Kept == \A u \in files : (meta[u] = "received" /\ u \notin files') =>
                      \/ u \in giving \/ age[u] = "expired"
                      \/ \E k \in Buckets : <<k, u>> \in episodes
                      \/ \E p \in Puts : InPut(p, "discarding") /\ put[p].up = u
<1>1. Types /\ HookAdded /\ [Next]_vars => [Kept]_vars
  <2> SUFFICES ASSUME Types, HookAdded, [Next]_vars
               PROVE  Kept
    OBVIOUS
  <2>1. CASE \E p \in Puts : PutDiscard(p)
    BY <2>1 DEF PutDiscard
  <2>2. CASE \E u \in UploadIds : GivenUp(u)
    BY <2>2 DEF GivenUp
  <2>3. ASSUME NEW b \in Batches, NEW u \in UploadIds, BatchRemove(b, u)
        PROVE  Kept
    <3>1. <<batch[b].bucket, u>> \in episodes /\ batch[b].bucket \in Buckets
      BY <2>3 DEF BatchRemove, HookAdded, Types, BatchTypes
    <3>2. files' = files \ {u}
      BY <2>3 DEF BatchRemove
    <3> QED
      BY <3>1, <3>2
  <2>4. CASE SweepObjects
    BY <2>4 DEF SweepObjects, Abandoned
  <2>5. CASE files \subseteq files'
    BY <2>5
  <2>6. ASSUME NEW p \in Puts,
               \/ PutRoom(p) \/ PutStore(p) \/ PutFails(p) \/ PutCommit(p) \/ PutRelease(p)
               \/ \E u \in UploadIds : PutLoad(p, u)
        PROVE  files \subseteq files'
    BY <2>6 DEF PutLoad, PutRoom, PutStore, PutFails, PutCommit, PutRelease
  <2>7. ASSUME NEW b \in Batches,
               \/ BatchCheck(b) \/ BatchFails(b) \/ BatchCommit(b)
               \/ \E u \in UploadIds : BatchCopy(b, u) \/ \E k \in Buckets : BatchRead(b, k, u)
        PROVE  files \subseteq files'
    BY <2>7 DEF BatchRead, BatchCheck, BatchCopy, BatchFails, BatchCommit
  <2>8. ASSUME NEW u \in UploadIds,
               (\E d \in {0, Size[u]} : Create(u, d)) \/ GiveUp(u) \/ Hours(u)
        PROVE  files \subseteq files'
    BY <2>8 DEF Create, GiveUp, Hours
  <2>9. ASSUME SweepRows \/ Crash \/ WorkerCrash \/ UNCHANGED vars
        PROVE  files \subseteq files'
    BY <2>9 DEF SweepRows, Crash, WorkerCrash, vars
  <2> HIDE DEF Kept
  <2> QED
    BY <2>1, <2>2, <2>3, <2>4, <2>5, <2>6, <2>7, <2>8, <2>9 DEF Next, PutStep, BatchStep
<1>2. Init => HookAdded
  BY DEF Init, HookAdded, Unused
<1> QED
  BY <1>1, <1>2, InitTypes, NextKeepsTypes, NextKeepsHookAdded, PTL DEF Spec, ReceivedNotLost

-----------------------------------------------------------------------------
\* What each Episode takes, whichever are committed.
Weight == [e \in Buckets \X UploadIds |-> Size[e[2]]]

\* A summand more adds at most itself.
LEMMA SumAdds ==
    ASSUME NEW f, NEW S, IsFiniteSet(S), NEW a, \A x \in S \cup {a} : f[x] \in Nat
    PROVE  /\ IsFiniteSet(S \cup {a}) /\ Sum(f, S \cup {a}) \in Nat
           /\ Sum(f, S \cup {a}) <= Sum(f, S) + f[a]
<1>1. IsFiniteSet(S \cup {a})
  BY FS_AddElement
<1>2. /\ Sum(f, S \cup {a}) \in Nat
      /\ Sum(f, S \cup {a}) <= Sum(f, S \ {a}) + f[a]
  <2> DEFINE T == S \cup {a}
  <2>1. T \in SUBSET (S \cup {a}) /\ (\A x \in T \ {a} : f[x] \in Nat /\ f[x] <= f[x])
    OBVIOUS
  <2>2. (\A x \in S : f[x] \in Nat) /\ f[a] \in Nat
    OBVIOUS
  <2> HIDE DEF T
  <2>3. Sum(f, T) \in Nat /\ Sum(f, T) <= Sum(f, S \ {a}) + f[a]
    BY <2>1, <2>2, SumGrows
  <2> QED
    BY <2>3 DEF T
<1>3. Sum(f, S \ {a}) \in Nat /\ Sum(f, S \ {a}) <= Sum(f, S)
  <2>1. S \ {a} \in SUBSET S /\ \A x \in S \ {a} : f[x] \in Nat /\ f[x] <= f[x]
    OBVIOUS
  <2> QED
    BY <2>1, SumShrinks
<1>4. Sum(f, S) \in Nat /\ f[a] \in Nat
  BY SumInNat
<1>5. \A i, j, m, n \in Nat : i <= j + n /\ j <= m => i <= m + n
  OBVIOUS
<1> QED
  BY <1>1, <1>2, <1>3, <1>4, <1>5

\* What the Owner uses is what the Episodes weigh.
LEMMA UsageWeighs ==
    ASSUME IsFiniteSet(episodes), episodes \subseteq Buckets \X UploadIds
    PROVE  Usage = Sum(Weight, episodes) /\ Usage \in Nat
<1> DEFINE w == [e \in episodes |-> Size[e[2]]]
<1>1. \A e \in episodes : w[e] = Weight[e] /\ Weight[e] \in Nat
  BY UploadsAssumption DEF Weight
<1>2. Usage = Sum(w, episodes)
  BY DEF Usage
<1> HIDE DEF w
<1> QED
  BY <1>1, <1>2, SumAgrees, SumInNat

\* A batch takes at most what its uploads are large.
LEMMA BatchCosts ==
    ASSUME NEW E \in SUBSET (Buckets \X UploadIds), IsFiniteSet(E),
           NEW k \in Buckets, NEW N \in SUBSET UploadIds
    PROVE  /\ IsFiniteSet(E \cup ({k} \X N))
           /\ Sum(Weight, E \cup ({k} \X N)) <= Sum(Weight, E) + SizeOf(N)
<1> DEFINE Costs(T) == /\ IsFiniteSet(E \cup ({k} \X T))
                       /\ Sum(Weight, E \cup ({k} \X T)) \in Nat
                       /\ Sum(Weight, E \cup ({k} \X T)) <= Sum(Weight, E) + Sum(Size, T)
           G == {T \in SUBSET N : Costs(T)}
<1>f. IsFiniteSet(N) /\ \A T \in SUBSET N : IsFiniteSet(T) /\ Sum(Size, T) \in Nat
  <2>1. IsFiniteSet(N) /\ \A x \in N : Size[x] \in Nat
    BY UploadsAssumption, FS_Subset
  <2> QED
    BY <2>1, SumInNat
<1>w. (\A e \in E : Weight[e] \in Nat) /\ Sum(Weight, E) \in Nat
  <2>1. \A e \in E : Weight[e] \in Nat
    BY UploadsAssumption DEF Weight
  <2> QED
    BY <2>1, SumInNat
<1>1. ASSUME NEW T \in SUBSET N, \A x \in T : T \ {x} \in G PROVE T \in G
  <2>1. CASE T = {}
    <3>1. Sum(Size, T) = 0 /\ E \cup ({k} \X T) = E
      BY <2>1, <1>f, SumSteps
    <3>2. \A i \in Nat : i <= i + 0
      OBVIOUS
    <3> HIDE DEF Weight
    <3>3. Sum(Weight, E) <= Sum(Weight, E) + Sum(Size, T)
      BY <3>1, <3>2, <1>w
    <3> QED
      BY <3>1, <3>3, <1>w
  <2>2. ASSUME NEW x \in T PROVE Costs(T)
    <3> DEFINE R == T \ {x}
               F == E \cup ({k} \X R)
               a == <<k, x>>
    <3>1. Costs(R) /\ R \in SUBSET N
      BY <1>1
    <3>2. E \cup ({k} \X T) = F \cup {a}
      OBVIOUS
    <3>3. (\A e \in F \cup {a} : Weight[e] \in Nat) /\ Weight[a] = Size[x] /\ Size[x] \in Nat
      BY UploadsAssumption DEF Weight
    <3>4. Sum(Size, T) = Size[x] + Sum(Size, R) /\ Sum(Size, R) \in Nat
      <4>1. IsFiniteSet(T) /\ \A y \in T : Size[y] \in Nat
        BY <1>f, UploadsAssumption
      <4> QED
        BY <4>1, <1>f, <3>1, SumSplits
    <3>5. IsFiniteSet(F) /\ Sum(Weight, F) \in Nat /\ Sum(Weight, F) <= Sum(Weight, E) + Sum(Size, R)
      BY <3>1
    <3> HIDE DEF F, a, R
    <3>6. /\ IsFiniteSet(F \cup {a}) /\ Sum(Weight, F \cup {a}) \in Nat
          /\ Sum(Weight, F \cup {a}) <= Sum(Weight, F) + Weight[a]
      BY <3>3, <3>5, SumAdds
    <3>7. \A i, j, m, n, r \in Nat : i <= j + n /\ j <= m + r => i <= m + (n + r)
      OBVIOUS
    <3>8. Sum(Weight, F \cup {a}) <= Sum(Weight, E) + Sum(Size, T)
      BY <3>3, <3>4, <3>5, <3>6, <3>7, <1>w
    <3> QED
      BY <3>2, <3>6, <3>8
  <2> HIDE DEF Costs
  <2> QED
    BY <2>1, <2>2
<1> HIDE DEF G
<1>2. N \in G
  BY <1>1, <1>f, ByOneLess
<1> QED
  BY <1>2 DEF G, SizeOf

\* The quota holds, also for whoever copies: its batch was weighed under the lock
\* it still has.
Fits == /\ IsFiniteSet(episodes) /\ Usage <= Quota
        /\ \A b \in Batches : batch[b].phase = "copying" => Usage + SizeOf(batch[b].named) <= Quota

\* Nothing is used at first.
LEMMA InitFits == Init => Fits
<1> SUFFICES ASSUME Init PROVE Fits
  OBVIOUS
<1>1. episodes = {} /\ IsFiniteSet(episodes)
  BY FS_EmptySet DEF Init
<1>2. Usage = 0
  BY <1>1, SumSteps DEF Usage
<1>3. \A b \in Batches : batch[b].phase # "copying"
  BY DEF Init, Unused
<1> QED
  BY <1>1, <1>2, <1>3, UploadsAssumption DEF Fits

\* A batch is weighed when it takes the lock, and no other commits until it does.
LEMMA NextKeepsFits ==
    ASSUME Types, Fits, [Next]_vars
    PROVE  Fits'
<1>t. BatchTypes
  BY DEF Types
<1> USE DEF Fits
<1>k. ASSUME episodes' = episodes,
             \A b \in Batches : batch'[b].phase = "copying" =>
                 Usage + SizeOf(batch'[b].named) <= Quota
      PROVE  Fits'
  <2>1. Usage' = Usage
    BY <1>k DEF Usage
  <2>2. \A b \in Batches : SizeOf(batch[b].named)' = SizeOf(batch'[b].named)
    BY DEF SizeOf
  <2> QED
    BY <1>k, <2>1, <2>2
<1>1. ASSUME NEW b \in Batches, NEW k \in Buckets, NEW u \in UploadIds, BatchRead(b, k, u)
      PROVE  Fits'
  <2>1. episodes' = episodes /\ \A c \in Batches : batch'[c].phase = "copying" => batch'[c] = batch[c]
    BY <1>1, <1>t DEF BatchRead, BatchTypes, BatchRows
  <2> QED
    BY <2>1, <1>k
<1>2. ASSUME NEW b \in Batches, BatchCheck(b)
      PROVE  Fits'
  <2>1. episodes' = episodes
    BY <1>2 DEF BatchCheck
  <2>2. \A c \in Batches \ {b} : batch'[c] = batch[c]
    BY <1>2, <1>t DEF BatchCheck, BatchTypes
  <2>3. batch'[b].phase = "copying" => batch'[b].named = batch[b].named /\ HasRoom(SizeOf(batch[b].named))
    BY <1>2, <1>t DEF BatchCheck, BatchTypes, BatchRows, Unused
  <2>4. batch'[b].phase = "copying" => Usage + SizeOf(batch'[b].named) <= Quota
    BY <2>3 DEF HasRoom
  <2> QED
    BY <2>1, <2>2, <2>4, <1>k
<1>3. ASSUME NEW b \in Batches, NEW u \in UploadIds, BatchCopy(b, u)
      PROVE  Fits'
  <2>1. batch' = [batch EXCEPT ![b] = [batch[b] EXCEPT !.copied = @ \cup {u}]] /\ episodes' = episodes
    BY <1>3 DEF BatchCopy
  <2>2. \A c \in Batches : batch'[c].phase = batch[c].phase /\ batch'[c].named = batch[c].named
    BY <2>1, <1>t DEF BatchTypes, BatchRows
  <2> QED
    BY <2>1, <2>2, <1>k
<1>4. ASSUME NEW b \in Batches, BatchFails(b)
      PROVE  Fits'
  <2>1. episodes' = episodes /\ \A c \in Batches : batch'[c].phase = "copying" => batch'[c] = batch[c]
    BY <1>4, <1>t DEF BatchFails, BatchTypes, BatchRows, Unused
  <2> QED
    BY <2>1, <1>k
<1>5. ASSUME NEW b \in Batches, BatchCommit(b)
      PROVE  Fits'
  <2> DEFINE k == batch[b].bucket
             N == batch[b].named
  <2>1. k \in Buckets /\ N \in SUBSET UploadIds /\ Usage + SizeOf(N) <= Quota
    BY <1>5, <1>t DEF BatchCommit, Types, Named, BatchTypes, BatchRows
  <2>2. episodes' = episodes \cup ({k} \X N) /\ episodes \in SUBSET (Buckets \X UploadIds)
    BY <1>5, <1>t DEF BatchCommit, BatchTypes
  <2>3. \A c \in Batches : batch'[c].phase # "copying"
    BY <1>5, <1>t DEF BatchCommit, BatchTypes, BatchRows
  <2>4. SizeOf(N) \in Nat
    <3>1. IsFiniteSet(N) /\ \A x \in N : Size[x] \in Nat
      BY <2>1, UploadsAssumption, FS_Subset
    <3> QED
      BY <3>1, SumInNat DEF SizeOf
  <2> HIDE DEF k, N
  <2>5. IsFiniteSet(episodes') /\ Sum(Weight, episodes') <= Sum(Weight, episodes) + SizeOf(N)
    BY <2>1, <2>2, BatchCosts
  <2>6. episodes' \subseteq Buckets \X UploadIds
    BY <2>1, <2>2
  <2>7. Usage' = Sum(Weight, episodes') /\ Usage' \in Nat
    <3> DEFINE w == [e \in episodes' |-> Size[e[2]]]
    <3>1. \A e \in episodes' : w[e] = Weight[e] /\ Weight[e] \in Nat
      BY <2>6, UploadsAssumption DEF Weight
    <3>2. Usage' = Sum(w, episodes')
      BY DEF Usage
    <3> HIDE DEF w
    <3> QED
      BY <2>5, <3>1, <3>2, SumAgrees, SumInNat
  <2>8. Usage = Sum(Weight, episodes) /\ Usage \in Nat
    BY <2>2, UsageWeighs
  <2>9. \A i, j, m, q \in Nat : i <= j + m /\ j + m <= q => i <= q
    OBVIOUS
  <2>10. Usage' <= Quota
    BY <2>1, <2>4, <2>5, <2>7, <2>8, <2>9, UploadsAssumption
  <2> QED
    BY <2>3, <2>5, <2>10
<1>6. ASSUME NEW b \in Batches, NEW u \in UploadIds, BatchRemove(b, u)
      PROVE  Fits'
  <2>1. \/ batch' = [batch EXCEPT ![b] = Unused]
        \/ batch' = [batch EXCEPT ![b] = [batch[b] EXCEPT !.named = @ \ {u}]]
    BY <1>6 DEF BatchRemove
  <2>2. batch[b].phase = "hook" /\ episodes' = episodes
    BY <1>6 DEF BatchRemove
  <2>3. \A c \in Batches : batch'[c].phase = "copying" => batch'[c] = batch[c]
    BY <2>1, <2>2, <1>t DEF BatchTypes, BatchRows, Unused
  <2> QED
    BY <2>2, <2>3, <1>k
<1>7. CASE Crash
  <2>1. episodes' = episodes /\ \A c \in Batches : batch'[c].phase # "copying"
    BY <1>7 DEF Crash, Unused
  <2> QED
    BY <2>1, <1>k
<1>8. CASE UNCHANGED <<batch, episodes>>
  BY <1>8, <1>k
<1>9. ASSUME NEW p \in Puts, PutStep(p) \/ \E u \in UploadIds : PutLoad(p, u)
      PROVE  UNCHANGED <<batch, episodes>>
  BY <1>9 DEF PutStep, PutLoad, PutRoom, PutStore, PutFails, PutCommit, PutDiscard, PutRelease
<1>10. ASSUME NEW u \in UploadIds,
              (\E d \in {0, Size[u]} : Create(u, d)) \/ GiveUp(u) \/ GivenUp(u) \/ Hours(u)
       PROVE  UNCHANGED <<batch, episodes>>
  BY <1>10 DEF Create, GiveUp, GivenUp, Hours
<1>11. ASSUME SweepObjects \/ SweepRows \/ WorkerCrash \/ UNCHANGED vars
       PROVE  UNCHANGED <<batch, episodes>>
  BY <1>11 DEF SweepObjects, SweepRows, WorkerCrash, vars
<1> HIDE DEF Fits
<1> QED
  BY <1>1, <1>2, <1>3, <1>4, <1>5, <1>6, <1>7, <1>8, <1>9, <1>10, <1>11 DEF Next, BatchStep

-----------------------------------------------------------------------------
\* What is staged is counted in numbers.
LEMMA StagedCounts ==
    ASSUME Types
    PROVE  /\ IsFiniteSet(Counted) /\ \A u \in Counted : Holding[u] \in Nat
           /\ \A S : /\ StagedWithout(S) \in Nat
                     /\ StagedWithout(S) <= StagedWithout({})
<1>1. IsFiniteSet(Counted)
  BY UploadsAssumption, FS_Subset DEF Counted
<1>2. \A u \in Counted : Holding[u] \in Nat
  BY DEF Counted, Holding, Types, StoreTypes, Rows
<1>3. ASSUME NEW S PROVE StagedWithout(S) \in Nat /\ StagedWithout(S) <= StagedWithout({})
  <2>1. Counted \ S \in SUBSET Counted /\ Counted \ {} = Counted
    OBVIOUS
  <2>2. \A u \in Counted \ S : Holding[u] \in Nat /\ Holding[u] <= Holding[u]
    BY <1>2
  <2>3. Sum(Holding, Counted \ S) \in Nat /\ Sum(Holding, Counted \ S) <= Sum(Holding, Counted)
    <3> DEFINE C == Counted
               H == Holding
               T == C \ S
    <3>1. IsFiniteSet(C) /\ T \in SUBSET C /\ (\A x \in C : H[x] \in Nat)
          /\ \A x \in T : H[x] \in Nat /\ H[x] <= H[x]
      BY <1>1, <1>2, <2>1, <2>2
    <3> HIDE DEF C, H, T
    <3>2. Sum(H, T) \in Nat /\ Sum(H, T) <= Sum(H, C)
      BY <3>1, SumShrinks
    <3> QED
      BY <3>2 DEF C, H, T
  <2> QED
    BY <2>1, <2>3 DEF StagedWithout
<1> QED
  BY <1>1, <1>2, <1>3

\* No row holds more than it did.
NoneHoldsMore == \A u \in Counted' : u \in Counted /\ Holding'[u] <= Holding[u]

\* Then no more is staged.
LEMMA StagedShrinks ==
    ASSUME Types, Types', NoneHoldsMore
    PROVE  StagedWithout({})' \in Nat /\ StagedWithout({})' <= StagedWithout({})
<1> DEFINE C == Counted
           H == Holding
           D == Counted'
           J == Holding'
<1>1. /\ IsFiniteSet(C) /\ D \in SUBSET C /\ \A x \in C : H[x] \in Nat
      /\ \A x \in D : J[x] \in Nat /\ J[x] <= H[x]
  <2>1. \A u \in Counted' : Holding'[u] \in Nat
    BY DEF Counted, Holding, Types, StoreTypes, Rows
  <2> QED
    BY <2>1, StagedCounts DEF NoneHoldsMore
<1>2. D \ {} = D /\ C \ {} = C
  OBVIOUS
<1>3. StagedWithout({})' = Sum(J, D \ {}) /\ StagedWithout({}) = Sum(H, C \ {})
  BY DEF StagedWithout
<1> HIDE DEF C, H, D, J
<1>4. Sum(J, D) \in Nat /\ Sum(J, D) <= Sum(H, C)
  BY <1>1, SumShrinks
<1> QED
  BY <1>2, <1>3, <1>4

\* Where one upload's row is written, at most its bytes come in its place.
LEMMA StagedGrows ==
    ASSUME Types, NEW u \in UploadIds, NEW bytes \in Nat, u \in Counted', Holding'[u] = bytes,
           \A v \in Counted' \ {u} : v \in Counted /\ Holding'[v] = Holding[v]
    PROVE  StagedWithout({})' \in Nat /\ StagedWithout({})' <= StagedWithout({u}) + bytes
<1> DEFINE C == Counted
           H == Holding
           D == Counted'
           J == Holding'
<1>1. /\ IsFiniteSet(C) /\ D \in SUBSET (C \cup {u}) /\ J[u] = bytes
      /\ \A x \in C : H[x] \in Nat
      /\ \A x \in D \ {u} : J[x] \in Nat /\ J[x] <= H[x]
  <2>1. \A v \in Counted' \ {u} : Holding'[v] \in Nat /\ Holding'[v] <= Holding[v]
    BY StagedCounts
  <2> QED
    BY <2>1, StagedCounts
<1>2. D \ {} = D
  OBVIOUS
<1>3. StagedWithout({})' = Sum(J, D \ {}) /\ StagedWithout({u}) = Sum(H, C \ {u})
  BY DEF StagedWithout
<1> HIDE DEF C, H, D, J
<1>4. Sum(J, D) \in Nat /\ Sum(J, D) <= Sum(H, C \ {u}) + J[u]
  BY <1>1, SumGrows
<1> QED
  BY <1>1, <1>2, <1>3, <1>4

\* A row written with no more bytes than there is room for beside the others
\* stages what fits.
LEMMA WriteFits ==
    ASSUME Types, Types', Fits, NEW u \in UploadIds, NEW bytes \in Nat, episodes' = episodes,
           bytes <= Quota - Usage - StagedWithout({u}),
           u \in Counted' => Holding'[u] = bytes,
           \A v \in UploadIds \ {u} : row'[v] = row[v]
    PROVE  StagesWhatFits
<1>1. Quota \in Nat
  BY UploadsAssumption
<1>2. Usage \in Nat /\ Usage' = Usage
  <2>1. IsFiniteSet(episodes) /\ episodes \subseteq Buckets \X UploadIds
    BY DEF Types, BatchTypes, Fits
  <2> QED
    BY <2>1, UsageWeighs DEF Usage
<1>3. StagedWithout({}) \in Nat /\ StagedWithout({u}) \in Nat
  BY StagedCounts
<1>4. \A v \in Counted' \ {u} : v \in Counted /\ Holding'[v] = Holding[v]
  BY DEF Counted, Holding
<1>5. CASE u \in Counted'
  <2>1. StagedWithout({})' \in Nat /\ StagedWithout({})' <= StagedWithout({u}) + bytes
    BY <1>4, <1>5, StagedGrows
  <2>2. \A d, i, w, q, n \in Nat : d <= q - i - w /\ n <= w + d => i + n <= q
    OBVIOUS
  <2>3. Usage + StagedWithout({})' <= Quota
    BY <1>1, <1>2, <1>3, <2>1, <2>2
  <2> QED
    BY <1>2, <2>3 DEF StagesWhatFits
<1>6. CASE u \notin Counted'
  <2>1. NoneHoldsMore
    <3>1. \A v \in Counted' : v \in Counted /\ Holding'[v] = Holding[v] /\ Holding[v] \in Nat
      BY <1>4, <1>6, StagedCounts
    <3> QED
      BY <3>1 DEF NoneHoldsMore
  <2>2. StagedWithout({})' \in Nat /\ StagedWithout({})' <= StagedWithout({})
    BY <2>1, StagedShrinks
  <2> QED
    BY <1>3, <2>2 DEF StagesWhatFits
<1> QED
  BY <1>5, <1>6

\* What is announced fits: the room is read and taken under the lock.
LEMMA CreateFits ==
    ASSUME Types, Types', Fits, NEW u \in UploadIds, NEW d \in {0, Size[u]}, Create(u, d)
    PROVE  StagesWhatFits
<1>1. d \in Nat
  BY UploadsAssumption
<1>2. d <= Quota - Usage - StagedWithout({u})
  <2>1. IsFiniteSet(episodes) /\ episodes \subseteq Buckets \X UploadIds
    BY DEF Types, BatchTypes, Fits
  <2>2. Usage \in Nat /\ Quota \in Nat
    BY <2>1, UsageWeighs, UploadsAssumption
  <2>3. /\ StagedWithout({}) \in Nat /\ StagedWithout({u}) \in Nat
        /\ StagedWithout({u}) <= StagedWithout({})
    BY StagedCounts
  <2>4. d <= Room({}) /\ Room({}) > 0
    BY DEF Create
  <2>5. d <= Quota - Usage - StagedWithout({})
    BY <2>2, <2>3, <2>4, <1>1 DEF Room
  <2>6. \A n, i, w, x, q \in Nat : n <= q - i - x /\ w <= x => n <= q - i - w
    OBVIOUS
  <2> QED
    BY <1>1, <2>2, <2>3, <2>5, <2>6
<1>3. row' = [row EXCEPT ![u] = [received |-> FALSE, bytes |-> d, age |-> "fresh"]] /\ episodes' = episodes
  BY DEF Create
<1>4. (u \in Counted' => Holding'[u] = d) /\ \A v \in UploadIds \ {u} : row'[v] = row[v]
  BY <1>3 DEF Counted, Holding, Types, StoreTypes
<1> QED
  BY <1>1, <1>2, <1>3, <1>4, WriteFits

\* What was received fits: the room is read again under the lock.
LEMMA PutCommitFits ==
    ASSUME Types, Types', Fits, NEW p \in Puts, PutCommit(p)
    PROVE  StagesWhatFits
<1> DEFINE u == put[p].up
           kept == IF row[u] = NoRow THEN "fresh" ELSE row[u].age
           received == [received |-> TRUE, bytes |-> Size[u], age |-> kept]
<1>1. u \in UploadIds /\ Size[u] \in Nat \ {0} /\ episodes' = episodes
  <2>1. u \in UploadIds /\ episodes' = episodes
    BY DEF PutCommit, InPut, Types, Named
  <2> QED
    BY <2>1, UploadsAssumption
<1>2. row' = row \/ (row' = [row EXCEPT ![u] = received] /\ Size[u] <= Room({u}))
  BY DEF PutCommit
<1>3. CASE row' = row
  <2>1. Counted' = Counted /\ Holding' = Holding
    BY <1>3 DEF Counted, Holding
  <2>2. StagedWithout({})' = StagedWithout({}) /\ StagedWithout({}) \in Nat
    BY <2>1, StagedCounts DEF StagedWithout
  <2> QED
    BY <2>2 DEF StagesWhatFits
<1>4. CASE row' = [row EXCEPT ![u] = received] /\ Size[u] <= Room({u})
  <2>1. (u \in Counted' => Holding'[u] = Size[u]) /\ \A v \in UploadIds \ {u} : row'[v] = row[v]
    BY <1>1, <1>4 DEF Counted, Holding, Types, StoreTypes
  <2>2. Size[u] <= Quota - Usage - StagedWithout({u})
    <3>1. IsFiniteSet(episodes) /\ episodes \subseteq Buckets \X UploadIds
      BY DEF Types, BatchTypes, Fits
    <3>2. Usage \in Nat /\ Quota \in Nat /\ StagedWithout({u}) \in Nat
      BY <3>1, UsageWeighs, UploadsAssumption, StagedCounts
    <3> QED
      BY <1>1, <1>4, <3>2 DEF Room
  <2> HIDE DEF u
  <2> QED
    BY <1>1, <2>1, <2>2, WriteFits
<1> QED
  BY <1>2, <1>3, <1>4

\* No other step stages more.
LEMMA OthersStageLess ==
    ASSUME Types, Types', [Next]_vars
    PROVE  \/ NoneHoldsMore
           \/ \E u \in UploadIds : \E d \in {0, Size[u]} : Create(u, d)
           \/ \E p \in Puts : PutCommit(p)
<1>n. \A u \in Counted : Holding[u] \in Nat
  BY StagedCounts
<1>a. ASSUME \A u \in UploadIds : row'[u] \in {NoRow, row[u]}
      PROVE  NoneHoldsMore
  <2>1. \A u \in Counted' : u \in Counted /\ Holding'[u] = Holding[u]
    BY <1>a DEF Counted, Holding
  <2> QED
    BY <1>n, <2>1 DEF NoneHoldsMore
<1>1. ASSUME NEW u \in UploadIds, GiveUp(u)
      PROVE  \A v \in UploadIds : row'[v] \in {NoRow, row[v]}
  BY <1>1 DEF GiveUp, Types, StoreTypes
<1>2. ASSUME NEW u \in UploadIds, Hours(u)
      PROVE  NoneHoldsMore
  <2>1. CASE row[u] = NoRow
    BY <1>2, <2>1, <1>a DEF Hours
  <2>2. CASE row[u] # NoRow
    <3>1. row' = [row EXCEPT ![u] = [row[u] EXCEPT !.age = Older(@)]] /\ row[u] \in Rows
      BY <1>2, <2>2 DEF Hours, Types, StoreTypes
    <3>2. /\ \A v \in UploadIds \ {u} : row'[v] = row[v]
          /\ row'[u].received = row[u].received /\ row'[u].bytes = row[u].bytes
          /\ row'[u].age = Older(row[u].age) /\ row[u].age \in Ages /\ row[u].bytes \in Nat
      BY <3>1 DEF Types, StoreTypes, Rows
    <3>3. \A v \in Counted' \ {u} : v \in Counted /\ Holding'[v] = Holding[v]
      BY <3>2 DEF Counted, Holding
    <3>4. u \in Counted' => row[u].age = "fresh" /\ row'[u].age = "held"
      BY <3>2 DEF Counted, Older, Ages
    <3>5. u \in Counted' => u \in Counted /\ Holding'[u] <= Holding[u]
      <4> SUFFICES ASSUME u \in Counted' PROVE u \in Counted /\ Holding'[u] <= Holding[u]
        OBVIOUS
      <4>1. u \in Counted /\ Holding[u] = row[u].bytes
        BY <2>2, <3>4 DEF Counted, Holding
      <4>2. Holding'[u] = IF row[u].received THEN row[u].bytes ELSE 0
        BY <3>2, <3>4 DEF Holding
      <4> QED
        BY <3>2, <4>1, <4>2
    <3> QED
      BY <1>n, <3>3, <3>5 DEF NoneHoldsMore
  <2> QED
    BY <2>1, <2>2
<1>3. ASSUME NEW p \in Puts, PutRelease(p)
      PROVE  NoneHoldsMore
  <2> DEFINE u == put[p].up
  <2>1. u \in UploadIds
    BY <1>3 DEF PutRelease, InPut, Types, Named
  <2>2. CASE row' = row
    BY <2>2, <1>a
  <2>3. CASE row[u] # NoRow /\ row' = [row EXCEPT ![u] = [row[u] EXCEPT !.bytes = 0]]
    <3>1. row[u] \in Rows
      BY <2>1, <2>3 DEF Types, StoreTypes
    <3>2. /\ \A v \in UploadIds \ {u} : row'[v] = row[v]
          /\ row'[u].bytes = 0 /\ row'[u].age = row[u].age
      BY <2>1, <2>3, <3>1 DEF Types, StoreTypes, Rows
    <3>3. \A v \in Counted' \ {u} : v \in Counted /\ Holding'[v] = Holding[v]
      BY <3>2 DEF Counted, Holding
    <3>4. u \in Counted' => u \in Counted /\ Holding'[u] = 0
      BY <2>1, <2>3, <3>2 DEF Counted, Holding
    <3> QED
      BY <1>n, <3>3, <3>4 DEF NoneHoldsMore
  <2>4. row' = row \/ (row[u] # NoRow /\ row' = [row EXCEPT ![u] = [row[u] EXCEPT !.bytes = 0]])
    BY <1>3 DEF PutRelease
  <2> QED
    BY <2>2, <2>3, <2>4
<1>4. ASSUME NEW b \in Batches, BatchCommit(b)
      PROVE  \A v \in UploadIds : row'[v] \in {NoRow, row[v]}
  BY <1>4 DEF BatchCommit
<1>5. CASE SweepRows
  BY <1>5, <1>a DEF SweepRows
<1>6. ASSUME NEW p \in Puts,
             \/ PutRoom(p) \/ PutStore(p) \/ PutFails(p) \/ PutDiscard(p)
             \/ \E u \in UploadIds : PutLoad(p, u)
      PROVE  row' = row
  BY <1>6 DEF PutLoad, PutRoom, PutStore, PutFails, PutDiscard
<1>7. ASSUME NEW b \in Batches,
             \/ BatchCheck(b) \/ BatchFails(b)
             \/ \E u \in UploadIds : BatchCopy(b, u) \/ BatchRemove(b, u)
                                     \/ \E k \in Buckets : BatchRead(b, k, u)
      PROVE  row' = row
  BY <1>7 DEF BatchRead, BatchCheck, BatchCopy, BatchFails, BatchRemove
<1>8. ASSUME (\E u \in UploadIds : GivenUp(u)) \/ SweepObjects \/ Crash \/ WorkerCrash \/ UNCHANGED vars
      PROVE  row' = row
  BY <1>8 DEF GivenUp, SweepObjects, Crash, WorkerCrash, vars
<1> QED
  BY <1>a, <1>1, <1>2, <1>3, <1>4, <1>5, <1>6, <1>7, <1>8 DEF Next, PutStep, BatchStep

-----------------------------------------------------------------------------
\* Whatever is announced, received, given up and added side by side, with whatever
\* failures, the Episodes stay within the quota, and whatever makes the staged
\* bytes grow leaves them within it beside the Episodes (require_room,
\* room_for_uploads).
THEOREM QuotaStands == Spec => QuotaKept
<1>1. Types /\ Fits /\ Types' /\ Fits' /\ [Next]_vars => [NoOvershoot' /\ StagesWhatFits]_vars
  <2> SUFFICES ASSUME Types, Fits, Types', Fits', [Next]_vars
               PROVE  NoOvershoot' /\ StagesWhatFits
    OBVIOUS
  <2>1. NoOvershoot'
    BY DEF Fits, NoOvershoot
  <2>2. CASE NoneHoldsMore
    <3>1. StagedWithout({})' \in Nat /\ StagedWithout({})' <= StagedWithout({})
      BY <2>2, StagedShrinks
    <3>2. StagedWithout({}) \in Nat
      BY StagedCounts
    <3> QED
      BY <2>1, <3>1, <3>2 DEF StagesWhatFits
  <2>3. CASE \E u \in UploadIds : \E d \in {0, Size[u]} : Create(u, d)
    BY <2>1, <2>3, CreateFits
  <2>4. CASE \E p \in Puts : PutCommit(p)
    BY <2>1, <2>4, PutCommitFits
  <2> QED
    BY <2>2, <2>3, <2>4, OthersStageLess
<1> QED
  BY <1>1, InitTypes, InitFits, NextKeepsTypes, NextKeepsFits, PTL DEF Spec, QuotaKept
=============================================================================
