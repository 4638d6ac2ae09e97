------------------------------ MODULE Cookies ------------------------------
(***************************************************************************)
(* The Cookie files of a User and the one jar they are merged into         *)
(* (application/services/engine.py, domain/cookies.py).  Every fetch works *)
(* on a copy of the jar and puts it back when a site rotated a cookie      *)
(* (cookie_scope of adapters/engine/ytdlp.py); every change to the files   *)
(* first carries the jar back into them.  set_engine_cookies holds the     *)
(* Owner's lock, delete_engine_cookies and the fetches hold none.          *)
(***************************************************************************)
EXTENDS Integers, FiniteSets, FiniteSetsExt

CONSTANTS
    Names,          \* the names of Cookie files, in their order: numbers
    Legacy,         \* the name a jar without files is shown under
    Keys, Domain,   \* what identifies a cookie, and its registrable domain
    Contents,       \* the sets of keys a file is uploaded with
    Calls, Fetches,
    Room,           \* MAX_COOKIE_FILES
    Budgets         \* bounds: uploads, removals, rotations

ASSUME CookiesAssumption ==
    /\ IsFiniteSet(Names) /\ Names \subseteq Nat /\ Legacy \in Names
    /\ Contents \subseteq SUBSET Keys /\ Room \in Nat \ {0, 1}
    /\ Budgets \subseteq [uploads : Nat, removals : Nat, rotations : Nat]

Jar == -1

VARIABLES
    objects,    \* the Object store: Cookie files by name, and the jar
    lock,       \* the holder of the Owner's quota lock, if any
    call,       \* each call that changes the files
    fetch,      \* each fetch of the Engine, with its Scratch copy of the jar
    budget,     \* what is left of the bounds
    version,    \* the newest version of any cookie
    promised,   \* history: the version of each cookie the last upload stored
    alone,      \* history: nothing but uploads has written
    raced       \* history: a write that did not see what was written before it

cookieVars == <<objects, lock, call, fetch, budget, version, promised, alone, raced>>

\* A file is the version of each key it holds, 0 for none.
NoCookies == [k \in Keys |-> 0]
NoCall == [at |-> "idle", op |-> "none", name |-> Legacy, text |-> NoCookies,
           base |-> <<>>, files |-> <<>>]
NoFetch == [at |-> "idle", base |-> NoCookies, copy |-> NoCookies]

CookieInit ==
    /\ objects = <<>> /\ lock = {}
    /\ call = [c \in Calls |-> NoCall] /\ fetch = [f \in Fetches |-> NoFetch]
    /\ budget \in Budgets /\ version = 0
    /\ promised = NoCookies /\ alone = TRUE /\ raced = FALSE

Use(b) == budget[b] > 0 /\ budget' = [budget EXCEPT ![b] = @ - 1]
Files(store) == DOMAIN store \ {Jar}
JarOf(store) == {store[n] : n \in DOMAIN store \cap {Jar}}
Holds(store, n) == {k \in Keys : store[n][k] # 0}

-----------------------------------------------------------------------------
(* The jar and its files (domain/cookies.py, _Store).                       *)
\* One jar for the Engine: a later file wins a key.
Merge(files) ==
    [k \in Keys |-> LET with == {n \in DOMAIN files : files[n][k] # 0}
                    IN  IF with = {} THEN 0 ELSE files[Max(with)][k]]

\* Each file gets the line of the jar for every key it holds; a key new to the
\* jar goes to the first file holding cookies of its domain.
SplitJar(jar, files) ==
    LET unclaimed(k) == \A n \in DOMAIN files : files[n][k] = 0
        kin(k) == {n \in DOMAIN files : \E j \in Holds(files, n) : Domain[j] = Domain[k]}
    IN  [n \in DOMAIN files |-> [k \in Keys |->
            IF files[n][k] # 0 \/ (unclaimed(k) /\ kin(k) # {} /\ n = Min(kin(k)))
            THEN jar[k] ELSE 0]]

Load(store) ==
    IF Files(store) # {} THEN [n \in Files(store) |-> store[n]]
    ELSE [n \in {m \in {Legacy} : Jar \in DOMAIN store} |-> store[Jar]]

\* A change that does not carry the jar back first.
SyncedNever(store) == Load(store)

Synced(store) ==
    IF Jar \in DOMAIN store THEN SplitJar(store[Jar], Load(store)) ELSE Load(store)

HasRoom(store, n) == n \in Files(store) \/ Cardinality(Files(store)) < Room

-----------------------------------------------------------------------------
(* set_engine_cookies and delete_engine_cookies.                            *)
Upload(c, n, keys) ==
    /\ call[c].at = "idle" /\ Use("uploads")
    /\ version' = version + 1
    /\ call' = [call EXCEPT ![c] = [NoCall EXCEPT !.at = "lock", !.op = "set", !.name = n,
                   !.text = [k \in Keys |-> IF k \in keys THEN version + 1 ELSE 0]]]
    /\ UNCHANGED <<objects, lock, fetch, promised, alone, raced>>

Lock(c) ==
    /\ call[c].at = "lock" /\ lock = {}
    /\ lock' = {c}
    /\ call' = [call EXCEPT ![c].at = "sync"]
    /\ UNCHANGED <<objects, fetch, budget, version, promised, alone, raced>>

\* Past the room there is: a Conflict, and the transaction ends.
Sync(c) ==
    /\ call[c].at = "sync" /\ call[c].op = "set"
    /\ LET n == call[c].name
           files == Synced(objects)
       IN  IF HasRoom(objects, n)
           THEN /\ call' = [call EXCEPT ![c].at = "save", ![c].base = objects,
                              ![c].files = [m \in DOMAIN files \cup {n} |->
                                              IF m = n THEN call[c].text ELSE files[m]]]
                /\ lock' = lock
           ELSE call' = [call EXCEPT ![c] = NoCall] /\ lock' = lock \ {c}
    /\ UNCHANGED <<objects, fetch, budget, version, promised, alone, raced>>

\* No lock.  Without a name every file goes.
Remove(c, names) ==
    /\ call[c].at = "idle" /\ Use("removals")
    /\ LET stored == DOMAIN Synced(objects)
       IN  names = stored \/ \E n \in stored : names = {n}
    /\ call' = [call EXCEPT ![c] = [NoCall EXCEPT !.at = "save", !.op = "delete", !.base = objects,
                   !.files = [m \in DOMAIN Synced(objects) \ names |-> Synced(objects)[m]]]]
    /\ alone' = FALSE
    /\ UNCHANGED <<objects, lock, fetch, version, promised, raced>>

\* The files that are no longer listed go, the changed ones are written.
SaveFiles(c) ==
    /\ call[c].at = "save"
    /\ LET files == call[c].files
           kept == DOMAIN files \cup (DOMAIN objects \cap {Jar})
       IN  /\ objects' = [n \in kept |-> IF n = Jar THEN objects[n] ELSE files[n]]
           /\ call' = [call EXCEPT ![c].at = "merge"]
    /\ raced' = (raced \/ objects # call[c].base)
    /\ UNCHANGED <<lock, fetch, budget, version, promised, alone>>

\* The jar is merged again, or goes with the last file.
SaveJar(c) ==
    /\ call[c].at = "merge"
    /\ LET files == call[c].files
           listed == Files(objects) \cup (IF DOMAIN files # {} THEN {Jar} ELSE {})
       IN  objects' = [n \in listed |-> IF n = Jar THEN Merge(files) ELSE objects[n]]
    /\ raced' = \/ raced \/ JarOf(objects) # JarOf(call[c].base)
                \/ [n \in Files(objects) |-> objects[n]] # call[c].files
    /\ promised' = [k \in Keys |->
                      IF \E n \in DOMAIN call[c].files : n > call[c].name /\ call[c].files[n][k] # 0
                      THEN 0 ELSE call[c].text[k]]
    /\ call' = [call EXCEPT ![c] = NoCall] /\ lock' = lock \ {c}
    /\ UNCHANGED <<fetch, budget, version, alone>>

-----------------------------------------------------------------------------
(* cookie_scope.                                                            *)
Take(f) ==
    /\ fetch[f].at = "idle" /\ Jar \in DOMAIN objects
    /\ fetch' = [fetch EXCEPT ![f] = [at |-> "running", base |-> objects[Jar],
                                      copy |-> objects[Jar]]]
    /\ UNCHANGED <<objects, lock, call, budget, version, promised, alone, raced>>

\* A site rotates a cookie, sets a new one of its domain, or drops one.
Rotate(f, k) ==
    /\ fetch[f].at = "running" /\ Use("rotations")
    /\ \E j \in Keys : fetch[f].copy[j] # 0 /\ Domain[j] = Domain[k]
    /\ version' = version + 1
    /\ \E v \in {0, version + 1} :
         /\ fetch' = [fetch EXCEPT ![f].copy[k] = v]
         /\ promised' = IF v = 0 THEN [promised EXCEPT ![k] = 0] ELSE promised
    /\ UNCHANGED <<objects, lock, call, alone, raced>>

\* The copy replaces the jar only when it changed and the jar is still there; a call
\* that raised leaves with the copy.
Leave(f) ==
    /\ fetch[f].at = "running"
    /\ \/ /\ fetch[f].copy # fetch[f].base /\ Jar \in DOMAIN objects
          /\ fetch' = [fetch EXCEPT ![f].at = "put"]
       \/ fetch' = [fetch EXCEPT ![f] = NoFetch]
    /\ UNCHANGED <<objects, lock, call, budget, version, promised, alone, raced>>

PutJar(f) ==
    /\ fetch[f].at = "put"
    /\ objects' = [n \in DOMAIN objects \cup {Jar} |-> IF n = Jar THEN fetch[f].copy ELSE objects[n]]
    /\ raced' = (raced \/ Jar \notin DOMAIN objects \/ objects[Jar] # fetch[f].base
                       \/ \E c \in Calls : call[c].at \in {"save", "merge"})
    /\ fetch' = [fetch EXCEPT ![f] = NoFetch] /\ alone' = FALSE
    /\ UNCHANGED <<lock, call, budget, version, promised>>

-----------------------------------------------------------------------------
CookieNext ==
    \/ \E c \in Calls, n \in Names, keys \in Contents : Upload(c, n, keys)
    \/ \E c \in Calls, names \in SUBSET Names : Remove(c, names)
    \/ \E c \in Calls : Lock(c) \/ Sync(c) \/ SaveFiles(c) \/ SaveJar(c)
    \/ \E f \in Fetches : Take(f) \/ Leave(f) \/ PutJar(f) \/ \E k \in Keys : Rotate(f, k)

-----------------------------------------------------------------------------
\* Parallel uploads each see what the previous one stored: they alone lose
\* nothing, and never leave more files than a User may hold.
UploadsDoNotRace ==
    /\ alone => ~raced
    /\ Cardinality(Files(objects)) <= Room

\* A change touches its own file: what every other file holds is carried on,
\* as the sites last rotated it, and what the upload holds goes into the jar unless
\* another file has it by now; unless a write was not seen.
OthersCarriedOn(c) ==
    SaveJar(c) /\ call[c].op = "set" /\ ~raced' /\ Jar \in DOMAIN call[c].base =>
         LET others == Files(call[c].base) \ {call[c].name}
         IN  \A k \in Keys :
               /\ (\E n \in others : call[c].base[n][k] # 0) /\ call[c].text[k] = 0
                     => objects'[Jar][k] = call[c].base[Jar][k]
               /\ call[c].text[k] # 0 /\ (\A n \in DOMAIN call[c].files \ {call[c].name} : call[c].files[n][k] = 0)
                     => objects'[Jar][k] = call[c].text[k]

\* Both: uploads, removals and the write-back of a rotated Jar lose no file of
\* the User and nothing a site rotated in the others.
JarKept == [][UploadsDoNotRace' /\ \A c \in Calls : OthersCarriedOn(c)]_cookieVars
=============================================================================
