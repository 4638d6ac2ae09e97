------------------------------ MODULE Registry ------------------------------
(***************************************************************************)
(* Whose Feed is whose: Mirrors are created, retargeted and deleted by     *)
(* requests side by side (application/services/mirrors.py, feeds.py), with *)
(* listings that carry one User's Cookie files and are cached for ten      *)
(* minutes (adapters/sources/probe.py); `copycast users reassign` gives    *)
(* what one User has to another (adapters/db/reassign.py), and then moves  *)
(* the User's Defaults and Cookie files, object by object, and may die.    *)
(*                                                                         *)
(* A User who saves settings between a look of the move and its write      *)
(* loses them: the runs leave that interleaving out.                       *)
(***************************************************************************)
EXTENDS Integers, FiniteSets

CONSTANTS
    Owners,         \* usernames, configured or not
    Sources,        \* normalized Source URLs
    Admins,         \* of Owners
    Kept,           \* the objects of users/{owner}/: Defaults, Cookie files
    Salted,         \* whether new ids depend on the Owner: users mode
    Asks,           \* slots of requests in flight
    TurnsMax        \* bound: requests, saves, deletions, moves and deaths together

ASSUME RegistryAssumption ==
    /\ Salted \in BOOLEAN /\ Admins \subseteq Owners /\ TurnsMax \in Nat
    /\ Sources # {} /\ "none" \notin Owners \cup Sources /\ {"bucket 1", "bucket 2"} \cap Sources = {}

VARIABLES
    registry,      \* the rows, by id
    had,        \* every Owner an id has had
    probed,     \* ProbeCache: for whom, which Source, with whose Cookie files
    ask,        \* the requests in flight
    settings,   \* users/{owner}/: whose content each object holds
    move,       \* the reassign in flight
    turns       \* what happened of TurnsMax

registryVars == <<registry, had, probed, ask, settings, move, turns>>

MirrorIds == (Owners \cup {"anyone"}) \X Sources
BucketIds == Owners \X {"bucket 1", "bucket 2"}
NewId == <<"new", "new">>
NoId == <<"no", "id">>
NoFeed == [owner |-> "none"]
NoAsk == [at |-> "idle"]
NoMove == [at |-> "idle"]

Mirror(o, s, jar) == [owner |-> o, key |-> s, jar |-> jar, default |-> FALSE]
Bucket(o) == [owner |-> o, key |-> "none", jar |-> o, default |-> TRUE]

Exists(i) == registry[i] # NoFeed

\* Everyone has a default Bucket since the start.  A Mirror may be older, even than users
\* mode, and may have been given to somebody else; which Source it has does not matter.
RegistryInit ==
    /\ \E old \in {{}} \cup {{<<o, CHOOSE s \in Sources : TRUE>>} : o \in Owners \cup {"anyone"}}, by \in Owners :
         /\ registry = [i \in MirrorIds \cup BucketIds |->
                       IF i[2] = "bucket 1" THEN Bucket(i[1]) ELSE IF i \in old THEN Mirror(by, i[2], by) ELSE NoFeed]
         /\ had = [i \in DOMAIN registry |-> IF Exists(i) THEN {registry[i].owner} \cup ({i[1]} \cap Owners) ELSE {}]
    /\ probed = {} /\ ask = [a \in Asks |-> NoAsk]
    /\ settings = [o \in Owners |-> [k \in Kept |-> "none"]]
    /\ move = NoMove /\ turns = 0

Turn == turns < TurnsMax /\ turns' = turns + 1

-----------------------------------------------------------------------------
(* Lookups (adapters/db/repositories/feeds.py).                             *)
Sees(by, i) == Exists(i) /\ (by \in Admins \/ registry[i].owner = by)
OwnedBy(o) == {i \in DOMAIN registry : Exists(i) /\ registry[i].owner = o}

\* by_dedup_key
ByDedupKey(o, s) == {i \in OwnedBy(o) : registry[i].key = s}

\* new_mirror_id
NewMirrorId(o, s) == <<IF Salted THEN o ELSE "anyone", s>>

\* The cache serves whoever asks for the Source.
CachedForAll(o, s) == {p \in probed : p.source = s}

\* ProbeCache.get
Cached(o, s) == {p \in probed : p.for = o /\ p.source = s}

-----------------------------------------------------------------------------
\* update_mirror looks the Feed up first; the listing is made for its Owner.
Begin(a, by, target, s) ==
    /\ ask[a] = NoAsk /\ Turn
    /\ target # NewId => Sees(by, target) /\ registry[target].key \in Sources
    /\ ask' = [ask EXCEPT ![a] = [at |-> "resolving", by |-> by, target |-> target, source |-> s,
                                  owner |-> IF target = NewId THEN by ELSE registry[target].owner]]
    /\ UNCHANGED <<registry, had, probed, settings, move>>

\* _resolve_snapshot: the Owner's cached probe, or a fresh one with the Owner's jar.
ResolveSnapshot(a) ==
    LET q == ask[a]
        hits == Cached(q.owner, q.source)
        with(jar) == ask' = [ask EXCEPT ![a] = [by |-> q.by, target |-> q.target, source |-> q.source,
                                                owner |-> q.owner, at |-> "resolved", jar |-> jar]]
    IN
    /\ q.at = "resolving"
    /\ \/ \E p \in hits : with(p.jar) /\ UNCHANGED probed
       \/ hits = {} /\ with(q.owner)
          /\ probed' = probed \cup {[for |-> q.owner, source |-> q.source, jar |-> q.owner]}
    /\ UNCHANGED <<registry, had, settings, move, turns>>

Reply(a, kind, i) == ask' = [ask EXCEPT ![a] = [at |-> "answered", by |-> ask[a].by, kind |-> kind, id |-> i,
                                                owner |-> ask[a].owner, target |-> ask[a].target]]

\* create_mirror, up to the insert.
Look(a) ==
    LET q == ask[a]
        id == NewMirrorId(q.owner, q.source) IN
    /\ q.at = "resolved" /\ q.target = NewId
    /\ \/ \E i \in ByDedupKey(q.owner, q.source) : Reply(a, "feed-exists", i)
       \/ /\ ByDedupKey(q.owner, q.source) = {} /\ Exists(id)
          /\ IF registry[id].owner = q.owner \/ ~Salted
             THEN Reply(a, "feed-exists", id) ELSE Reply(a, "conflict", NoId)
       \/ /\ ByDedupKey(q.owner, q.source) = {} /\ ~Exists(id)
          /\ ask' = [ask EXCEPT ![a].at = "inserting"]
    /\ UNCHANGED <<registry, had, probed, settings, move, turns>>

\* Two unique constraints: the id, and the Owner with the Source.
Insert(a) ==
    LET q == ask[a]
        id == NewMirrorId(q.owner, q.source) IN
    /\ q.at = "inserting"
    /\ IF Exists(id) \/ ByDedupKey(q.owner, q.source) # {}
       THEN Reply(a, "failed", NoId) /\ UNCHANGED <<registry, had>>
       ELSE /\ registry' = [registry EXCEPT ![id] = Mirror(q.owner, q.source, q.jar)]
            /\ had' = [had EXCEPT ![id] = @ \cup {q.owner}]
            /\ Reply(a, "done", id)
    /\ UNCHANGED <<probed, settings, move, turns>>

\* update_mirror's second transaction, which requires the Feed again, and _retarget.
Retarget(a) ==
    LET q == ask[a]
        others == ByDedupKey(registry[q.target].owner, q.source) \ {q.target} IN
    /\ q.at = "resolved" /\ q.target # NewId
    /\ \/ ~Sees(q.by, q.target) /\ Reply(a, "not-found", NoId) /\ UNCHANGED registry
       \/ /\ Sees(q.by, q.target) /\ UNCHANGED registry
          /\ \E i \in others : Reply(a, "feed-exists", i)
       \/ /\ Sees(q.by, q.target) /\ others = {}
          /\ registry' = [registry EXCEPT ![q.target] = Mirror(@.owner, q.source, q.jar)]
          /\ Reply(a, "done", q.target)
    /\ UNCHANGED <<had, probed, settings, move, turns>>

Delivered(a) == ask[a].at = "answered" /\ ask' = [ask EXCEPT ![a] = NoAsk]
           /\ UNCHANGED <<registry, had, probed, settings, move, turns>>

\* Ten minutes, or the process ends.
Expire == \E p \in probed : probed' = probed \ {p} /\ UNCHANGED <<registry, had, ask, settings, move, turns>>

\* The worker lists a Mirror with the jar of its Owner of that time: no reassign runs beside it.
Refresh(i) ==
    /\ Exists(i) /\ registry[i].key \in Sources /\ registry[i].jar # registry[i].owner
    /\ registry' = [registry EXCEPT ![i].jar = registry[i].owner]
    /\ UNCHANGED <<had, probed, ask, settings, move, turns>>

delete_feed(i) ==
    /\ Exists(i) /\ ~registry[i].default /\ Turn
    /\ registry' = [registry EXCEPT ![i] = NoFeed]
    /\ UNCHANGED <<had, probed, ask, settings, move>>

\* ensure_default_bucket, at the start of a process and when a Bucket is needed.
ensure_default_bucket(o) ==
    /\ \A i \in OwnedBy(o) : ~registry[i].default
    /\ \E i \in BucketIds :
         /\ i[1] = o /\ ~Exists(i)
         /\ registry' = [registry EXCEPT ![i] = Bucket(o)]
         /\ had' = [had EXCEPT ![i] = @ \cup {o}]
    /\ UNCHANGED <<probed, ask, settings, move, turns>>

Save(o, k) ==
    /\ Turn /\ settings[o][k] # o
    /\ settings' = [settings EXCEPT ![o][k] = o]
    /\ UNCHANGED <<registry, had, probed, ask, move>>

-----------------------------------------------------------------------------
(* adapters/db/reassign.py and move_user_settings.                          *)

\* dedup_clashes: any pair refuses the whole command.
Clashes(old, new) == \E i \in OwnedBy(old), j \in OwnedBy(new) : registry[i].key = registry[j].key /\ registry[i].key \in Sources

\* OLD's default Bucket becomes an ordinary one of NEW.
reassign_rows(old, new) ==
    /\ move = NoMove /\ Turn /\ old # new /\ ~Clashes(old, new)
    /\ registry' = [i \in DOMAIN registry |->
                   IF i \in OwnedBy(old) THEN [registry[i] EXCEPT !.owner = new, !.default = FALSE] ELSE registry[i]]
    /\ had' = [i \in DOMAIN registry |-> IF i \in OwnedBy(old) THEN had[i] \cup {new} ELSE had[i]]
    /\ move' = [at |-> "copy", old |-> old, new |-> new, left |-> Kept]
    /\ UNCHANGED <<probed, ask, settings>>

\* Whatever NEW has wins.
Moves(k) == settings[move.old][k] # "none" /\ settings[move.new][k] = "none"

\* NEW's save comes before OLD's, a copy before its delete.
MoveCopy(k) ==
    /\ move.at = "copy" /\ k \in move.left
    /\ IF Moves(k)
       THEN /\ settings' = [settings EXCEPT ![move.new][k] = settings[move.old][k]]
            /\ move' = [at |-> "delete", key |-> k, old |-> move.old, new |-> move.new, left |-> move.left \ {k}]
       ELSE move' = [move EXCEPT !.left = @ \ {k}] /\ UNCHANGED settings
    /\ UNCHANGED <<registry, had, probed, ask, turns>>

MoveDelete ==
    /\ move.at = "delete"
    /\ settings' = [settings EXCEPT ![move.old][move.key] = "none"]
    /\ move' = [at |-> "copy", old |-> move.old, new |-> move.new, left |-> move.left]
    /\ UNCHANGED <<registry, had, probed, ask, turns>>

MoveEnds ==
    /\ move.at = "copy" /\ move.left = {}
    /\ move' = NoMove /\ UNCHANGED <<registry, had, probed, ask, settings, turns>>

\* The command dies between the commit and the last object.
MoveDies == move # NoMove /\ Turn /\ move' = NoMove /\ UNCHANGED <<registry, had, probed, ask, settings>>

RegistryNext ==
    \/ \E a \in Asks :
         \/ \E by \in Owners, target \in MirrorIds \cup {NewId}, s \in Sources : Begin(a, by, target, s)
         \/ ResolveSnapshot(a) \/ Look(a) \/ Insert(a) \/ Retarget(a) \/ Delivered(a)
    \/ \E i \in DOMAIN registry : Refresh(i) \/ delete_feed(i)
    \/ \E o \in Owners : ensure_default_bucket(o) \/ (\E k \in Kept : Save(o, k))
    \/ \E old, new \in Owners : reassign_rows(old, new)
    \/ Expire \/ MoveDelete \/ MoveEnds \/ MoveDies \/ \E k \in Kept : MoveCopy(k)

-----------------------------------------------------------------------------
\* What Cookie files let a User see is listed in no Feed but those the User had.
ListedForItsOwners == \A i \in DOMAIN registry : Exists(i) => registry[i].jar \in had[i]

\* A 409 names a Feed of the Owner the request is for, never another User's.
NamesOwnFeeds ==
    \A a \in Asks : ask[a].at # "answered" /\ ask'[a].at = "answered" =>
        (ask'[a].kind = "feed-exists" =>
            registry[ask'[a].id].owner = IF ask[a].target = NewId THEN ask[a].by ELSE registry[ask[a].target].owner)

\* An object of a User changes by her own save, where she had none, or once the User it
\* goes to has one.
SettingsStand ==
    \A o \in Owners, k \in Kept : settings'[o][k] # settings[o][k] =>
        \/ settings'[o][k] = o \/ settings[o][k] = "none"
        \/ settings'[o][k] = "none" /\ move.old = o /\ settings'[move.new][k] # "none"

\* A default Bucket stays its Owner's default, or goes to another User as an ordinary one.
DefaultsStand ==
    \A i \in DOMAIN registry : (Exists(i) /\ registry[i].default) =>
        Exists(i)' /\ (registry'[i].default <=> registry'[i].owner = registry[i].owner)

\* Requests of two Users, a cache they share, retargets by an Admin and a reassign at any
\* point, even one that dies: listings, ids, Buckets and settings stay with their Owners.
OwnersApart ==
    [][ListedForItsOwners' /\ NamesOwnFeeds /\ SettingsStand /\ DefaultsStand]_registryVars
=============================================================================
