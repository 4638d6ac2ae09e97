--------------------------- MODULE ServingProofs ---------------------------
(***************************************************************************)
(* Proofs about Serving: an answer of the feed XML is as new as the request *)
(* that asked for it, an app is given one Episode and is given it in time, *)
(* what the XML lists opens and keeps its identity, and a stream misses no *)
(* change.                                                                 *)
(***************************************************************************)
EXTENDS Serving, TLAPS, FiniteSetTheorems, SequenceTheorems, WellFoundedInduction

-----------------------------------------------------------------------------
(* FeedCache: no body older than the request.                               *)

Body == [rev : Nat \ {0}, since : Nat, shows : Nat, settings : Nat, secret : Nat]
Gets == [at : {"told", "shared", "wait", "render", "items", "put"}, proc : Replicas, rev : Nat,
         base : Nat, body : Body \cup {NoEntry}]
ChangeTypes == change \in [0 .. feed.shows -> [at : Nat, secret : Nat]]
FeedTypes ==
    /\ feed \in [rev : Nat \ {0}, shows : Nat, updated : Nat]
    /\ now \in Nat /\ ChangeTypes
    /\ writer \in [Writers -> Nat] /\ install \in [secret : Nat, settings : Nat]
    /\ replica \in [Replicas -> [entry : Body \cup {NoEntry}, secret : Nat, settings : Nat]]
    /\ shared \subseteq [key : [ns : Nat, rev : Nat], body : Body]
    /\ get \in [Clients -> Gets \cup {NoGet}] /\ held \in [Clients -> Body \cup {Nothing}]
    /\ spent \in [begun : Nat, asked : Nat, bad : Nat, moves : Nat]

\* Within one installation a revision is one change: a body is dated as the change its revision
\* counts, and shows that and all before it.
Place(b) == b.rev + feed.shows - feed.rev
TrueDate(b) ==
    /\ Place(b) \in 0 .. feed.shows /\ change[Place(b)].secret = install.secret
    /\ b.since = LastModified(change[Place(b)].at)
Shows(b) == b.rev <= feed.rev /\ Place(b) <= b.shows /\ b.shows <= feed.shows /\ TrueDate(b)

\* A body of an earlier installation has none of this one's changes.
Lacks(b) == b.shows <= feed.shows /\ \A k \in 0 .. feed.shows : change[k].secret = install.secret => b.shows < k
Sound(b) ==
    /\ b.secret <= install.secret
    /\ b.secret = install.secret => Shows(b)
    /\ b.secret < install.secret => Lacks(b)

ReplicaSound(p) ==
    /\ replica[p].secret = install.secret
    /\ replica[p].entry # NoEntry => replica[p].entry.secret = install.secret /\ Shows(replica[p].entry)
Stored(e) == e.key = [ns |-> e.body.secret, rev |-> e.body.rev] /\ Sound(e.body)

\* A body is what an answer to a request that counts base changes may leave a client with.
Answers(c, h, base) ==
    \/ h.shows >= base /\ h.secret = install.secret
    \/ c \in DatesOnly /\ Misdated(h)

\* A request, with what its client holds.
Answering(c, g, h) ==
    /\ h # Nothing => Sound(h)
    /\ g # NoGet =>
         /\ g.rev <= feed.rev /\ g.base + feed.rev = g.rev + feed.shows
         /\ g.at \in {"items", "put"} => /\ g.body \in Body /\ g.body.secret = install.secret
                                         /\ g.rev <= g.body.rev /\ g.body.rev <= feed.rev
                                         /\ TrueDate(g.body)
         /\ g.at = "put" => Shows(g.body)
         /\ g.at = "told" => h # Nothing /\ Answers(c, h, g.base)

\* The last change is the row's, and no change is of an installation to come.
Counted ==
    /\ change[feed.shows].at = feed.updated /\ change[feed.shows].secret = install.secret
    /\ \A k \in 0 .. feed.shows : change[k].secret <= install.secret

\* The inductive invariant.
FeedInv ==
    /\ FeedTypes /\ Counted
    /\ \A p \in Replicas : ReplicaSound(p)
    /\ \A e \in shared : Stored(e)
    /\ \A c \in Clients : Answering(c, get[c], held[c])

\* What tells an entry, a request and an answer from none.
LEMMA NoneIsNone ==
    /\ NoEntry \notin Body /\ Nothing \notin Body /\ NoGet \notin Gets
    /\ \A b \in Body : b # NoEntry /\ b # Nothing /\ b.rev # 0
    /\ \A g \in Gets : g # NoGet /\ g.at # "idle"
  BY DEF NoEntry, Nothing, NoGet, Body, Gets

\* Nothing has been asked at first.
LEMMA FeedBegins == FeedInit => FeedInv
<1> SUFFICES ASSUME FeedInit PROVE FeedInv
  OBVIOUS
<1>1. FeedTypes /\ Counted
  BY FeedCacheAssumption DEF FeedInit, FeedTypes, ChangeTypes, Counted
<1>2. \A p \in Replicas : ReplicaSound(p)
  BY DEF FeedInit, ReplicaSound
<1>3. \A c \in Clients : Answering(c, get[c], held[c])
  BY DEF FeedInit, Answering
<1> QED
  BY <1>1, <1>2, <1>3 DEF FeedInv, FeedInit

\* While the row stays, so does what is known of a body.
LEMMA BodiesStay ==
    ASSUME UNCHANGED <<feed, change>>, install'.secret = install.secret
    PROVE  /\ \A b : (Shows(b)' <=> Shows(b)) /\ (TrueDate(b)' <=> TrueDate(b)) /\ (Sound(b)' <=> Sound(b))
           /\ \A e : Stored(e)' <=> Stored(e)
           /\ \A c, g, h : Answering(c, g, h)' <=> Answering(c, g, h)
           /\ Counted' <=> Counted
<1>1. \A b : (TrueDate(b)' <=> TrueDate(b)) /\ (Lacks(b)' <=> Lacks(b)) /\ (Misdated(b)' <=> Misdated(b))
  BY DEF TrueDate, Place, Lacks, Misdated
<1>2. \A b : Shows(b)' <=> Shows(b)
  BY <1>1 DEF Shows, Place
<1>3. \A b : Sound(b)' <=> Sound(b)
  BY <1>1, <1>2 DEF Sound
<1>4. \A e : Stored(e)' <=> Stored(e)
  BY <1>3 DEF Stored
<1>5. \A c, g, h : Answering(c, g, h)' <=> Answering(c, g, h)
  BY <1>1, <1>2, <1>3 DEF Answering, Answers
<1>6. Counted' <=> Counted
  BY DEF Counted
<1> QED
  BY <1>1, <1>2, <1>3, <1>4, <1>5, <1>6

\* A request moves and its client with it, while the row stays.
LEMMA OneGetMoves ==
    ASSUME FeedInv, FeedTypes', NEW c \in Clients, NEW g \in Gets \cup {NoGet}, NEW h \in Body \cup {Nothing},
           get' = [get EXCEPT ![c] = g], held' = [held EXCEPT ![c] = h],
           UNCHANGED <<feed, change, install>>,
           \A p \in Replicas : ReplicaSound(p)', \A e \in shared' : Stored(e),
           Answering(c, g, h)
    PROVE  FeedInv'
<1>1. \A d \in Clients : get'[d] = (IF d = c THEN g ELSE get[d]) /\ held'[d] = (IF d = c THEN h ELSE held[d])
  BY DEF FeedInv, FeedTypes
<1>2. \A d \in Clients : Answering(d, get'[d], held'[d])
  BY <1>1 DEF FeedInv
<1>3. /\ \A e : Stored(e)' <=> Stored(e)
      /\ \A d, x, y : Answering(d, x, y)' <=> Answering(d, x, y)
      /\ Counted' <=> Counted
  BY BodiesStay
<1>4. (\A d \in Clients : Answering(d, get[d], held[d]))'
  BY <1>2, <1>3
<1>5. (\A e \in shared : Stored(e))' /\ Counted'
  BY <1>3 DEF FeedInv
<1> QED
  BY <1>4, <1>5 DEF FeedInv

\* What a client shows after an answer is as new as the body, or misdated.
LEMMA ShownIsAsNew ==
    ASSUME FeedInv, NEW c \in Clients, NEW b \in Body, b.secret = install.secret, Shows(b), Shown(c, b),
           NEW base \in Nat, base <= Place(b)
    PROVE  \E h \in Body : held' = [held EXCEPT ![c] = h] /\ Sound(h) /\ Answers(c, h, base)
<1>0. /\ b.rev \in Nat /\ b.shows \in Nat /\ b.since \in Nat /\ b.secret \in Nat
      /\ feed.rev \in Nat /\ feed.shows \in Nat /\ install.secret \in Nat /\ Place(b) \in Int
  BY DEF Body, FeedInv, FeedTypes, Place
<1>1. CASE ~NotModified(c, b)
  <2>1. held' = [held EXCEPT ![c] = b]
    BY <1>1 DEF Shown
  <2>2. Sound(b)
    BY <1>0 DEF Sound
  <2>3. Answers(c, b, base)
    BY <1>0 DEF Answers, Shows
  <2> QED
    BY <2>1, <2>2, <2>3
<1>2. CASE NotModified(c, b)
  <2> DEFINE h == held[c]
  <2>1. c \in DatesOnly /\ h.rev # 0 /\ b.since <= h.since
    BY <1>2 DEF NotModified
  <2>2. h \in Body /\ h # Nothing
    BY <2>1 DEF FeedInv, FeedTypes, Nothing
  <2>3. Sound(h)
    BY <2>2 DEF FeedInv, Answering
  <2>4. held' = [held EXCEPT ![c] = h]
    BY <1>2 DEF Shown
  <2>5. h.shows \in Nat /\ h.secret \in Nat /\ h.since \in Nat
    BY <2>2 DEF Body
  <2> HIDE DEF h
  <2>6. CASE h.secret = install.secret /\ h.shows >= base
    BY <2>2, <2>3, <2>4, <2>6 DEF Answers
  <2>7. CASE ~(h.secret = install.secret /\ h.shows >= base)
    <3>1. Place(b) \in 0 .. feed.shows /\ change[Place(b)].secret = install.secret
          /\ LastModified(change[Place(b)].at) = b.since
      BY DEF Shows, TrueDate
    <3>2. h.shows < Place(b)
      <4>1. CASE h.secret = install.secret
        BY <1>0, <2>5, <2>7, <4>1
      <4>2. CASE h.secret # install.secret
        <5>1. Lacks(h)
          BY <1>0, <2>3, <2>5, <4>2 DEF Sound
        <5> QED
          BY <3>1, <5>1 DEF Lacks
      <4> QED
        BY <4>1, <4>2
    <3>3. Place(b) \in h.shows + 1 .. feed.shows
      BY <1>0, <2>5, <3>1, <3>2
    <3>4. Misdated(h)
      BY <2>1, <3>1, <3>3 DEF Misdated
    <3> QED
      BY <2>1, <2>2, <2>3, <2>4, <3>4 DEF Answers
  <2> QED
    BY <2>6, <2>7
<1> QED
  BY <1>1, <1>2

\* An answer ends a request: the body is as new as what was committed when it came.
LEMMA AnswerKept ==
    ASSUME FeedInv, NEW c \in Clients, NEW b \in Body, b.secret = install.secret, Shows(b), Shown(c, b),
           NEW g \in Gets, get' = [get EXCEPT ![c] = g], g.at = "told", g.rev <= b.rev, g.rev <= feed.rev,
           g.base + feed.rev = g.rev + feed.shows,
           UNCHANGED <<feed, now, change, writer, install>>,
           spent' \in [begun : Nat, asked : Nat, bad : Nat, moves : Nat],
           replica' \in [Replicas -> [entry : Body \cup {NoEntry}, secret : Nat, settings : Nat]],
           shared' \subseteq [key : [ns : Nat, rev : Nat], body : Body],
           \A p \in Replicas : ReplicaSound(p)', \A e \in shared' : Stored(e)
    PROVE  FeedInv'
<1>0. /\ g.base \in Nat /\ g.rev \in Nat /\ b.rev \in Nat
      /\ feed.rev \in Nat /\ feed.shows \in Nat
  BY DEF Body, Gets, FeedInv, FeedTypes
<1>1. g.base \in Nat /\ g.base <= Place(b)
  BY <1>0 DEF Place
<1>2. PICK h \in Body : held' = [held EXCEPT ![c] = h] /\ Sound(h) /\ Answers(c, h, g.base)
  BY <1>1, ShownIsAsNew
<1>3. Answering(c, g, h)
  BY <1>2, NoneIsNone DEF Answering
<1>4. FeedTypes'
  BY <1>2 DEF FeedInv, FeedTypes, ChangeTypes
<1> QED
  BY <1>2, <1>3, <1>4, OneGetMoves

\* A request goes on without an answer.
LEMMA RequestGoesOn ==
    ASSUME FeedInv, NEW c \in Clients, NEW g \in Gets, get' = [get EXCEPT ![c] = g],
           NEW h \in {held[c], Nothing}, held' = [held EXCEPT ![c] = h],
           Answering(c, g, h),
           UNCHANGED <<feed, now, change, writer, install, shared>>,
           spent' \in [begun : Nat, asked : Nat, bad : Nat, moves : Nat],
           replica' \in [Replicas -> [entry : Body \cup {NoEntry}, secret : Nat, settings : Nat]],
           \A p \in Replicas : ReplicaSound(p)'
    PROVE  FeedInv'
<1>1. h \in Body \cup {Nothing}
  BY NoneIsNone DEF FeedInv, FeedTypes
<1>2. FeedTypes'
  BY <1>1 DEF FeedInv, FeedTypes, ChangeTypes
<1>3. \A e \in shared' : Stored(e)
  BY DEF FeedInv
<1> QED
  BY <1>1, <1>2, <1>3, OneGetMoves

\* What goes wrong forgets, and cuts requests off.
LEMMA MishapsKept ==
    ASSUME FeedInv, FeedTypes', UNCHANGED <<feed, change, held>>, install'.secret = install.secret,
           \A p \in Replicas : ReplicaSound(p)', shared' \subseteq shared,
           \A d \in Clients : get'[d] \in {get[d], NoGet}
    PROVE  FeedInv'
<1>1. \A d \in Clients : Answering(d, get'[d], held'[d])
  BY DEF FeedInv, Answering
<1>2. /\ \A e : Stored(e)' <=> Stored(e)
      /\ \A d, x, y : Answering(d, x, y)' <=> Answering(d, x, y)
      /\ Counted' <=> Counted
  BY BodiesStay
<1>3. (\A d \in Clients : Answering(d, get[d], held[d]))'
  BY <1>1, <1>2
<1>4. (\A e \in shared : Stored(e))' /\ Counted'
  BY <1>2 DEF FeedInv
<1> QED
  BY <1>3, <1>4 DEF FeedInv

\* A transaction begins.
LEMMA BeginKept == ASSUME FeedInv, NEW w \in Writers, Begin(w) PROVE FeedInv'
<1>1. /\ UNCHANGED <<feed, change, install, replica, shared, locks, get, held>>
      /\ spent' = [spent EXCEPT !.begun = @ + 1] /\ writer' = [writer EXCEPT ![w] = now']
      /\ now' \in {now, now + 1}
  BY DEF Begin, Passes
<1>2. FeedTypes'
  <2>1. ChangeTypes'
    BY <1>1 DEF FeedInv, FeedTypes, ChangeTypes
  <2>2. now \in Nat /\ now' \in Nat
    BY <1>1 DEF FeedInv, FeedTypes
  <2> QED
    BY <1>1, <2>1, <2>2 DEF FeedInv, FeedTypes
<1>3. \A p \in Replicas : ReplicaSound(p)'
  <2>1. \A b : Shows(b)' <=> Shows(b)
    BY <1>1, BodiesStay
  <2> QED
    BY <1>1, <2>1 DEF FeedInv, ReplicaSound
<1> QED
  BY <1>1, <1>2, <1>3, MishapsKept

\* What changes with the next change: what was shown stays shown, what lacked lacks one more.
LEMMA BodiesMove ==
    ASSUME FeedTypes, Counted, NEW rev \in Nat, NEW t, NEW secret, Changed(rev, t, secret)
    PROVE  /\ feed'.rev = rev /\ feed'.shows = feed.shows + 1 /\ feed'.updated = t
           /\ \A k \in 0 .. feed.shows : k \in 0 .. feed'.shows /\ change'[k] = change[k]
           /\ change'[feed.shows + 1] = [at |-> t, secret |-> secret]
           /\ \A k \in 0 .. feed'.shows : k \in 0 .. feed.shows \/ k = feed.shows + 1
           /\ \A b \in Body \cup {Nothing} : Misdated(b) => Misdated(b)'
<1>1. feed.shows \in Nat
  BY DEF FeedTypes
<1>2. /\ feed' = [rev |-> rev, shows |-> feed.shows + 1, updated |-> t]
      /\ change' = [k \in 0 .. feed.shows + 1 |->
                     IF k <= feed.shows THEN change[k] ELSE [at |-> t, secret |-> secret]]
  BY DEF Changed
<1>3. feed'.rev = rev /\ feed'.shows = feed.shows + 1 /\ feed'.updated = t
  BY <1>2
<1>4. \A k \in 0 .. feed.shows : k \in 0 .. feed'.shows /\ change'[k] = change[k]
  BY <1>1, <1>2, <1>3
<1>5. change'[feed.shows + 1] = [at |-> t, secret |-> secret]
  <2>1. feed.shows + 1 \in 0 .. feed.shows + 1 /\ ~(feed.shows + 1 <= feed.shows)
    BY <1>1
  <2> QED
    BY <1>2, <2>1
<1>6. \A k \in 0 .. feed'.shows : k \in 0 .. feed.shows \/ k = feed.shows + 1
  BY <1>1, <1>3
<1>7. ASSUME NEW b \in Body \cup {Nothing}, Misdated(b) PROVE Misdated(b)'
  <2>1. b.shows \in Nat
    BY DEF Body, Nothing
  <2>2. PICK k \in b.shows + 1 .. feed.shows : LastModified(change[k].at) <= b.since
    BY <1>7 DEF Misdated
  <2>3. k \in 0 .. feed.shows /\ k \in b.shows + 1 .. feed'.shows
    BY <1>1, <1>3, <2>1
  <2>4. LastModified(change'[k].at) <= b.since
    BY <1>4, <2>2, <2>3
  <2>5. Misdated(b)' <=> \E j \in b.shows + 1 .. feed'.shows : LastModified(change'[j].at) <= b.since
    BY DEF Misdated, LastModified
  <2> QED
    BY <2>3, <2>4, <2>5
<1> QED
  BY <1>3, <1>4, <1>5, <1>6, <1>7

\* A commit moves the revision and what it shows by one.
LEMMA CommitKept == ASSUME FeedInv, NEW w \in Writers, Commit(w) PROVE FeedInv'
<1>1. /\ UNCHANGED <<now, install, replica, shared, locks, get, held, spent>>
      /\ writer' = [writer EXCEPT ![w] = 0] /\ writer[w] # 0
      /\ Changed(feed.rev + 1, writer[w], install.secret)
  BY DEF Commit
<1>2. /\ feed.rev \in Nat /\ feed.shows \in Nat /\ writer[w] \in Nat /\ feed.rev # 0 /\ install.secret \in Nat
      /\ change \in [0 .. feed.shows -> [at : Nat, secret : Nat]]
  BY DEF FeedInv, FeedTypes, ChangeTypes
<1>3. /\ feed'.rev = feed.rev + 1 /\ feed'.shows = feed.shows + 1 /\ feed'.updated = writer[w]
      /\ \A k \in 0 .. feed.shows : k \in 0 .. feed'.shows /\ change'[k] = change[k]
      /\ change'[feed.shows + 1] = [at |-> writer[w], secret |-> install.secret]
      /\ \A k \in 0 .. feed'.shows : k \in 0 .. feed.shows \/ k = feed.shows + 1
      /\ \A b \in Body \cup {Nothing} : Misdated(b) => Misdated(b)'
  <2>1. feed.rev + 1 \in Nat /\ FeedTypes /\ Counted
    BY <1>2 DEF FeedInv
  <2> QED
    BY <1>1, <2>1, BodiesMove
<1>0. feed'.rev = feed.rev + 1 /\ feed'.shows = feed.shows + 1
  BY <1>3
<1>4. FeedTypes'
  <2>1. feed' \in [rev : Nat \ {0}, shows : Nat, updated : Nat]
        /\ change' \in [0 .. feed.shows + 1 -> [at : Nat, secret : Nat]]
    BY <1>1, <1>2 DEF Changed
  <2>2. ChangeTypes'
    BY <1>3, <2>1 DEF ChangeTypes
  <2> QED
    BY <1>1, <1>2, <2>1, <2>2 DEF FeedInv, FeedTypes
<1>5. Counted'
  <2>1. change'[feed'.shows].at = feed'.updated /\ change'[feed'.shows].secret = install.secret
    BY <1>3
  <2>2. ASSUME NEW k \in 0 .. feed'.shows PROVE change'[k].secret <= install.secret
    <3>1. CASE k \in 0 .. feed.shows
      BY <1>3, <3>1 DEF FeedInv, Counted
    <3>2. CASE k = feed.shows + 1
      BY <1>2, <1>3, <3>2
    <3> QED
      BY <1>3, <3>1, <3>2
  <2> QED
    BY <1>1, <2>1, <2>2 DEF Counted
<1>6. ASSUME NEW b \in Body PROVE (TrueDate(b) => TrueDate(b)') /\ (Shows(b) => Shows(b)')
  <2>0. b.rev \in Nat /\ b.shows \in Nat
    BY DEF Body
  <2>1. Place(b)' = Place(b) /\ Place(b) \in Int
    <3>1. feed.rev \in Nat /\ feed.shows \in Nat
      BY <1>2
    <3>2. Place(b)' = b.rev + feed'.shows - feed'.rev
      BY DEF Place
    <3> QED
      BY <1>0, <2>0, <3>1, <3>2 DEF Place
  <2>2. TrueDate(b) => TrueDate(b)'
    BY <1>1, <1>3, <2>1 DEF TrueDate, LastModified
  <2>3. Shows(b) => Shows(b)'
    BY <1>2, <1>3, <2>0, <2>1, <2>2 DEF Shows
  <2> QED
    BY <2>2, <2>3
<1>7. ASSUME NEW b \in Body, Sound(b) PROVE Sound(b)'
  <2>1. b.shows \in Nat /\ b.secret \in Nat
    BY DEF Body
  <2>2. ASSUME Lacks(b), b.secret < install.secret PROVE Lacks(b)'
    <3>1. b.shows <= feed.shows /\ \A k \in 0 .. feed.shows : change[k].secret = install.secret => b.shows < k
      BY <2>2 DEF Lacks
    <3>2. \A k \in 0 .. feed'.shows : change'[k].secret = install.secret => b.shows < k
      BY <1>2, <1>3, <2>1, <3>1
    <3> QED
      BY <1>1, <1>2, <1>3, <2>1, <3>1, <3>2 DEF Lacks
  <2> QED
    BY <1>1, <1>6, <1>7, <2>2 DEF Sound
<1>8. \A p \in Replicas : ReplicaSound(p)'
  <2> SUFFICES ASSUME NEW p \in Replicas PROVE ReplicaSound(p)'
    OBVIOUS
  <2>1. replica[p].entry \in Body \cup {NoEntry} /\ ReplicaSound(p)
    BY DEF FeedInv, FeedTypes
  <2>2. replica[p].entry # NoEntry => Shows(replica[p].entry)'
    BY <1>1, <1>6, <2>1 DEF ReplicaSound
  <2> QED
    BY <1>1, <2>1, <2>2 DEF ReplicaSound
<1>9. (\A e \in shared : Stored(e))'
  BY <1>1, <1>7 DEF FeedInv, FeedTypes, Stored
<1>10. ASSUME NEW c \in Clients PROVE Answering(c, get[c], held[c])'
  <2> DEFINE g == get[c]
             h == held[c]
  <2>1. g \in Gets \cup {NoGet} /\ h \in Body \cup {Nothing} /\ Answering(c, g, h)
    BY DEF FeedInv, FeedTypes
  <2>2. g' = g /\ h' = h
    BY <1>1
  <2> HIDE DEF g, h
  <2>3. h # Nothing => Sound(h)'
    <3>1. h # Nothing => h \in Body /\ Sound(h)
      BY <2>1 DEF Answering
    <3> QED
      BY <1>7, <2>2, <3>1
  <2>4. ASSUME g # NoGet
        PROVE  /\ g.rev <= feed'.rev /\ g.base + feed'.rev = g.rev + feed'.shows
               /\ g.at \in {"items", "put"} => /\ g.body \in Body /\ g.body.secret = install.secret
                                               /\ g.rev <= g.body.rev /\ g.body.rev <= feed'.rev
                                               /\ TrueDate(g.body)'
               /\ g.at = "put" => Shows(g.body)'
               /\ g.at = "told" => h # Nothing /\ Answers(c, h, g.base)'
    <3>1. g.rev \in Nat /\ g.base \in Nat
      BY <2>1, <2>4 DEF Gets
    <3>2. g.rev <= feed'.rev /\ g.base + feed'.rev = g.rev + feed'.shows
      <4>1. g.rev <= feed.rev /\ g.base + feed.rev = g.rev + feed.shows
        BY <2>1, <2>4 DEF Answering
      <4>2. feed.rev \in Nat /\ feed.shows \in Nat
        BY <1>2
      <4> QED
        BY <1>0, <3>1, <4>1, <4>2
    <3>3. g.body \in Body => g.body.rev \in Nat
      BY DEF Body
    <3>4. g.at \in {"items", "put"} => /\ g.body \in Body /\ g.body.secret = install.secret
                                      /\ g.rev <= g.body.rev /\ g.body.rev <= feed'.rev /\ TrueDate(g.body)
      BY <1>0, <1>2, <2>1, <2>4, <3>3 DEF Answering
    <3>5. (g.at \in {"items", "put"} => TrueDate(g.body)') /\ (g.at = "put" => Shows(g.body)')
      <4>1. g.at = "put" => Shows(g.body)
        BY <2>1, <2>4 DEF Answering
      <4>2. g.body \in Body => (TrueDate(g.body) => TrueDate(g.body)') /\ (Shows(g.body) => Shows(g.body)')
        BY <1>6, <2>2
      <4> QED
        BY <3>4, <4>1, <4>2
    <3>6. g.at = "told" => h # Nothing /\ Answers(c, h, g.base)
      BY <2>1, <2>4 DEF Answering
    <3>7. Answers(c, h, g.base) => Answers(c, h, g.base)'
      BY <1>1, <1>3, <2>1, <2>2 DEF Answers
    <3> QED
      BY <3>2, <3>4, <3>5, <3>6, <3>7
  <2> QED
    BY <1>1, <2>2, <2>3, <2>4 DEF Answering, g, h
<1> QED
  BY <1>4, <1>5, <1>8, <1>9, <1>10 DEF FeedInv

\* A rebuild starts over with a new secret: no body of before is taken for one of after it.
LEMMA RestartedKept == ASSUME FeedInv, Rebuild PROVE FeedInv'
<1>1. /\ install' = [install EXCEPT !.secret = @ + 1] /\ UNCHANGED <<writer, shared, locks, held>>
      /\ replica' = [p \in Replicas |-> [Started EXCEPT !.secret = @ + 1]] /\ get' = Cut(Replicas)
      /\ spent' = [spent EXCEPT !.moves = @ + 1] /\ now' = now + 1
  BY DEF Rebuild, Move
<1>2. PICK n \in 1 .. feed.rev : Changed(n, now', install.secret + 1)
  BY DEF Rebuild
<1>3. /\ install.secret \in Nat /\ install'.secret = install.secret + 1 /\ install'.settings = install.settings
      /\ now \in Nat /\ now' \in Nat /\ feed.rev \in Nat /\ feed.shows \in Nat /\ n \in Nat \ {0}
      /\ change \in [0 .. feed.shows -> [at : Nat, secret : Nat]]
  BY <1>1 DEF FeedInv, FeedTypes, ChangeTypes
<1>4. /\ feed'.rev = n /\ feed'.shows = feed.shows + 1 /\ feed'.updated = now'
      /\ \A k \in 0 .. feed.shows : change'[k] = change[k]
      /\ change'[feed.shows + 1] = [at |-> now', secret |-> install.secret + 1]
      /\ \A k \in 0 .. feed'.shows : k \in 0 .. feed.shows \/ k = feed.shows + 1
  BY <1>2, <1>3, BodiesMove DEF FeedInv
<1>5. \A c \in Clients : get'[c] = NoGet
  BY <1>1 DEF Cut, At, FeedInv, FeedTypes, Gets, NoGet
<1>6. \A p \in Replicas : replica'[p].entry = NoEntry /\ replica'[p].secret = install'.secret
  BY <1>1, <1>3 DEF Started
<1>7. FeedTypes'
  <2>1. replica' \in [Replicas -> [entry : Body \cup {NoEntry}, secret : Nat, settings : Nat]]
    BY <1>1 DEF Started, FeedInv, FeedTypes
  <2>2. get' \in [Clients -> Gets \cup {NoGet}]
    BY <1>1, <1>5 DEF Cut
  <2>3. feed' \in [rev : Nat \ {0}, shows : Nat, updated : Nat]
        /\ change' \in [0 .. feed.shows + 1 -> [at : Nat, secret : Nat]]
    BY <1>2, <1>3 DEF Changed
  <2>4. ChangeTypes'
    BY <1>4, <2>3 DEF ChangeTypes
  <2>5. install' \in [secret : Nat, settings : Nat] /\ spent' \in [begun : Nat, asked : Nat, bad : Nat, moves : Nat]
    BY <1>1 DEF FeedInv, FeedTypes
  <2> QED
    BY <1>1, <1>3, <2>1, <2>2, <2>3, <2>4, <2>5 DEF FeedInv, FeedTypes
<1>8. Counted'
  <2>1. change'[feed'.shows].at = feed'.updated /\ change'[feed'.shows].secret = install'.secret
    BY <1>3, <1>4
  <2>2. ASSUME NEW k \in 0 .. feed'.shows PROVE change'[k].secret <= install'.secret
    <3>1. CASE k \in 0 .. feed.shows
      BY <1>3, <1>4, <3>1 DEF FeedInv, Counted
    <3>2. CASE k = feed.shows + 1
      BY <1>3, <1>4, <3>2
    <3> QED
      BY <1>4, <3>1, <3>2
  <2> QED
    BY <2>1, <2>2 DEF Counted
<1>9. ASSUME NEW b \in Body, Sound(b) PROVE Sound(b)'
  <2>1. b.shows \in Nat /\ b.secret \in Nat /\ b.secret <= install.secret
    BY <1>9 DEF Body, Sound
  <2>2. b.shows <= feed.shows
    BY <1>3, <1>9, <2>1 DEF Sound, Shows, Lacks
  <2>3. \A k \in 0 .. feed'.shows : change'[k].secret = install'.secret => b.shows < k
    <3> SUFFICES ASSUME NEW k \in 0 .. feed'.shows, change'[k].secret = install'.secret PROVE b.shows < k
      OBVIOUS
    <3>1. CASE k \in 0 .. feed.shows
      <4>1. change[k].secret <= install.secret /\ change[k].secret \in Nat
        BY <1>3, <3>1 DEF FeedInv, Counted
      <4> QED
        BY <1>3, <1>4, <3>1, <4>1
    <3>2. CASE k = feed.shows + 1
      BY <1>3, <2>1, <2>2, <3>2
    <3> QED
      BY <1>4, <3>1, <3>2
  <2>4. Lacks(b)'
    BY <1>3, <1>4, <2>1, <2>2, <2>3 DEF Lacks
  <2> QED
    BY <1>3, <2>1, <2>4 DEF Sound
<1>10. \A p \in Replicas : ReplicaSound(p)'
  BY <1>6 DEF ReplicaSound
<1>11. (\A e \in shared : Stored(e))'
  BY <1>1, <1>9 DEF FeedInv, FeedTypes, Stored
<1>12. (\A c \in Clients : Answering(c, get[c], held[c]))'
  <2> SUFFICES ASSUME NEW c \in Clients PROVE Answering(c, get[c], held[c])'
    OBVIOUS
  <2>1. held[c] # Nothing => held[c] \in Body /\ Sound(held[c])
    BY DEF FeedInv, FeedTypes, Answering
  <2>2. held'[c] # Nothing => Sound(held[c])'
    BY <1>1, <1>9, <2>1
  <2> QED
    BY <1>5, <2>2 DEF Answering
<1> QED
  BY <1>7, <1>8, <1>10, <1>11, <1>12 DEF FeedInv
-----------------------------------------------------------------------------
(* The request, step by step.                                               *)

\* Entry and body of a process, for the lemmas that say what a step leaves sound.
ReplicaForm ==
    /\ replica' \in [Replicas -> [entry : Body \cup {NoEntry}, secret : Nat, settings : Nat]]
    /\ \A p \in Replicas : ReplicaSound(p)'

\* A process that keeps what it has.
LEMMA ReplicasStay ==
    ASSUME FeedInv, UNCHANGED <<feed, change, install, replica>> PROVE ReplicaForm
<1>1. \A b : Shows(b)' <=> Shows(b)
  BY BodiesStay
<1>2. \A p \in Replicas : ReplicaSound(p)'
  BY <1>1 DEF FeedInv, ReplicaSound
<1>3. replica' \in [Replicas -> [entry : Body \cup {NoEntry}, secret : Nat, settings : Nat]]
  BY DEF FeedInv, FeedTypes
<1> QED
  BY <1>2, <1>3 DEF ReplicaForm

\* A process that keeps a body it was given.
LEMMA ReplicaKeeps ==
    ASSUME FeedInv, UNCHANGED <<feed, change, install>>, NEW c \in Clients, get[c].proc \in Replicas,
           NEW b \in Body, b.secret = install.secret, Shows(b), Keep(c, b)
    PROVE  ReplicaForm
<1> DEFINE q == get[c].proc
           r == [replica[q] EXCEPT !.entry = b]
<1>0. replica \in [Replicas -> [entry : Body \cup {NoEntry}, secret : Nat, settings : Nat]]
  BY DEF FeedInv, FeedTypes
<1>1. replica' = [replica EXCEPT ![q] = r]
  BY DEF Keep
<1>2. /\ r \in [entry : Body \cup {NoEntry}, secret : Nat, settings : Nat]
      /\ r.entry = b /\ r.secret = replica[q].secret
  BY <1>0
<1> HIDE DEF r
<1>3. \A p \in Replicas : replica'[p] = IF p = q THEN r ELSE replica[p]
  BY <1>0, <1>1
<1>4. \A x : Shows(x)' <=> Shows(x)
  BY BodiesStay
<1>5. \A p \in Replicas : ReplicaSound(p)'
  BY <1>2, <1>3, <1>4 DEF FeedInv, ReplicaSound
<1>6. replica' \in [Replicas -> [entry : Body \cup {NoEntry}, secret : Nat, settings : Nat]]
  BY <1>0, <1>1, <1>2
<1> QED
  BY <1>5, <1>6 DEF ReplicaForm

\* The bodies of the level all replicas share.
SharedForm ==
    /\ shared' \subseteq [key : [ns : Nat, rev : Nat], body : Body]
    /\ \A e \in shared' : Stored(e)

\* The shared level as it is.
LEMMA SharedStays == ASSUME FeedInv, UNCHANGED shared PROVE SharedForm
BY DEF FeedInv, FeedTypes, SharedForm

\* What is known of a request under way.
LEMMA UnderWay ==
    ASSUME FeedInv, NEW c \in Clients, NEW step, step # "idle", At(c, step)
    PROVE  /\ get[c] \in Gets /\ get[c] # NoGet /\ get[c].proc \in Replicas /\ get[c].rev \in Nat
           /\ get[c].at = step
           /\ get[c].base \in Nat /\ get[c].rev <= feed.rev /\ get[c].base + feed.rev = get[c].rev + feed.shows
           /\ replica[get[c].proc].secret = install.secret
           /\ held[c] # Nothing => Sound(held[c])
           /\ step \in {"items", "put"} => /\ get[c].body \in Body /\ get[c].body.secret = install.secret
                                           /\ get[c].rev <= get[c].body.rev /\ get[c].body.rev <= feed.rev
                                           /\ TrueDate(get[c].body)
           /\ step = "put" => Shows(get[c].body)
<1>1. get[c] # NoGet /\ get[c].at = step
  BY DEF At, NoGet
<1>2. get[c] \in Gets
  BY <1>1 DEF FeedInv, FeedTypes
<1>4. get[c].proc \in Replicas /\ get[c].rev \in Nat /\ get[c].base \in Nat
  BY <1>2 DEF Gets
<1>5. replica[get[c].proc].secret = install.secret
  BY <1>4 DEF FeedInv, ReplicaSound
<1>6. Answering(c, get[c], held[c])
  BY DEF FeedInv
<1> QED
  BY <1>1, <1>2, <1>4, <1>5, <1>6 DEF Answering

\* The request is read off the head, and answered by what the process has, or goes on.
LEMMA FetchKept == ASSUME FeedInv, NEW c \in Clients, NEW p \in Replicas, Fetch(c, p) PROVE FeedInv'
<1> DEFINE hit == replica[p].entry.rev = feed.rev
           g == [at |-> IF hit THEN "told" ELSE "shared", proc |-> p,
                 rev |-> feed.rev, base |-> feed.shows, body |-> NoEntry]
<1>1. /\ get' = [get EXCEPT ![c] = g] /\ UNCHANGED <<feed, now, writer, change, install, replica, shared, locks>>
      /\ spent' = [spent EXCEPT !.asked = @ + 1]
  BY DEF Fetch
<1>2. feed.rev \in Nat \ {0} /\ feed.shows \in Nat
  BY DEF FeedInv, FeedTypes
<1>3. /\ g \in Gets /\ g.rev = feed.rev /\ g.base = feed.shows /\ g.body = NoEntry /\ g.body \notin Body
      /\ g.at = IF hit THEN "told" ELSE "shared"
  BY <1>2, NoneIsNone DEF Gets
<1>4. spent' \in [begun : Nat, asked : Nat, bad : Nat, moves : Nat]
  BY <1>1 DEF FeedInv, FeedTypes
<1>5. g.rev <= feed.rev /\ g.base + feed.rev = g.rev + feed.shows
  BY <1>2, <1>3
<1> HIDE DEF g
<1>6. ReplicaForm /\ SharedForm
  BY <1>1, ReplicasStay, SharedStays
<1>7. CASE hit
  <2> DEFINE b == replica[p].entry
  <2>1. b # NoEntry /\ b \in Body /\ b.rev = feed.rev
    BY <1>2, <1>7 DEF NoEntry, FeedInv, FeedTypes
  <2>2. b.secret = install.secret /\ Shows(b)
    BY <2>1 DEF FeedInv, ReplicaSound
  <2>4. Shown(c, b)
    BY <1>7 DEF Fetch
  <2>5. g.at = "told" /\ g.rev <= b.rev
    BY <1>2, <1>3, <1>7, <2>1
  <2> HIDE DEF b
  <2> QED
    BY <1>1, <1>3, <1>4, <1>5, <1>6, <2>1, <2>2, <2>4, <2>5, AnswerKept DEF ReplicaForm, SharedForm
<1>8. CASE ~hit
  <2>1. g.at = "shared"
    BY <1>3, <1>8
  <2>2. held' = IF c \in DatesOnly THEN held ELSE [held EXCEPT ![c] = Nothing]
    BY <1>8 DEF Fetch
  <2>3. held = [held EXCEPT ![c] = held[c]]
    BY DEF FeedInv, FeedTypes
  <2>4. PICK h \in {held[c], Nothing} : held' = [held EXCEPT ![c] = h]
    BY <2>2, <2>3
  <2>5. Answering(c, g, h)
    <3>1. h # Nothing => Sound(h)
      BY DEF FeedInv, Answering
    <3> QED
      BY <1>5, <2>1, <3>1 DEF Answering
  <2>6. /\ get' = [get EXCEPT ![c] = g] /\ UNCHANGED <<feed, now, change, writer, install, shared>>
        /\ g \in Gets
    BY <1>1, <1>3
  <2>7. /\ replica' \in [Replicas -> [entry : Body \cup {NoEntry}, secret : Nat, settings : Nat]]
        /\ \A q \in Replicas : ReplicaSound(q)'
    BY <1>6 DEF ReplicaForm
  <2> HIDE DEF hit
  <2> QED
    BY <1>4, <2>4, <2>5, <2>6, <2>7, RequestGoesOn
<1> QED
  BY <1>7, <1>8

\* A body another replica stored, of the revision that was asked for.
LEMMA SharedHitKept == ASSUME FeedInv, NEW c \in Clients, SharedHit(c) PROVE FeedInv'
<1>1. PICK e \in Found(c) : Keep(c, e.body) /\ Shown(c, e.body)
  BY DEF SharedHit
<1>2. PICK step \in {"shared", "wait"} : At(c, step)
  BY DEF SharedHit
<1>3. UNCHANGED <<feed, now, writer, change, install, shared, locks, spent>> /\ get' = [get EXCEPT ![c].at = "told"]
  BY DEF SharedHit, To
<1> DEFINE b == e.body
           g == [get[c] EXCEPT !.at = "told"]
<1>4. /\ get[c] \in Gets /\ get[c].proc \in Replicas /\ get[c].rev \in Nat
      /\ get[c].rev <= feed.rev /\ get[c].base + feed.rev = get[c].rev + feed.shows
      /\ replica[get[c].proc].secret = install.secret
  BY <1>2, UnderWay
<1>5. g \in Gets /\ g.at = "told" /\ g.rev = get[c].rev /\ g.base = get[c].base /\ g.body = get[c].body
  BY <1>4 DEF Gets
<1>6. e \in shared /\ b \in Body /\ Stored(e) /\ e.key = [ns |-> replica[get[c].proc].secret, rev |-> get[c].rev]
  BY DEF Found, Key, FeedInv, FeedTypes
<1>7. b.secret = install.secret /\ b.rev = get[c].rev /\ Shows(b)
  <2>1. e.key.ns = b.secret /\ e.key.rev = b.rev /\ Sound(b)
    BY <1>6 DEF Stored
  <2>2. e.key.ns = install.secret /\ e.key.rev = get[c].rev
    BY <1>4, <1>6
  <2>3. Shows(b)
    BY <2>1, <2>2 DEF Sound
  <2> QED
    BY <1>6, <2>1, <2>2, <2>3
<1>8. get' = [get EXCEPT ![c] = g] /\ Shown(c, b) /\ Keep(c, b)
  BY <1>1, <1>3
<1> HIDE DEF g, b
<1>9. ReplicaForm /\ SharedForm
  BY <1>3, <1>4, <1>6, <1>7, <1>8, ReplicaKeeps, SharedStays
<1>10. spent' \in [begun : Nat, asked : Nat, bad : Nat, moves : Nat]
  BY <1>3 DEF FeedInv, FeedTypes
<1>11. g.rev <= b.rev /\ g.rev <= feed.rev /\ g.base + feed.rev = g.rev + feed.shows
  BY <1>4, <1>5, <1>7
<1> QED
  BY <1>3, <1>5, <1>6, <1>7, <1>8, <1>9, <1>10, <1>11, AnswerKept DEF ReplicaForm, SharedForm

\* The wait, the lock and what fails of the shared level move nothing but the request.
LEMMA WaitKept ==
    ASSUME FeedInv, NEW c \in Clients, SharedMiss(c) \/ SharedFails(c) \/ WaitOver(c) PROVE FeedInv'
<1>1. PICK step \in {"shared", "wait"} : At(c, step)
  BY DEF SharedMiss, SharedFails, WaitOver
<1>2. PICK to \in {"wait", "render"} : get' = [get EXCEPT ![c].at = to]
  BY DEF SharedMiss, SharedFails, WaitOver, To
<1>3. UNCHANGED <<feed, now, writer, change, install, replica, shared, held>>
  BY DEF SharedMiss, SharedFails, WaitOver
<1>4. spent' \in [begun : Nat, asked : Nat, bad : Nat, moves : Nat]
  BY DEF SharedMiss, SharedFails, WaitOver, Misfortune, FeedInv, FeedTypes
<1> DEFINE g == [get[c] EXCEPT !.at = to]
           h == held[c]
<1>5. /\ get[c] \in Gets /\ get[c].rev <= feed.rev /\ get[c].base + feed.rev = get[c].rev + feed.shows
      /\ h # Nothing => Sound(h)
  BY <1>1, UnderWay
<1>6. g \in Gets /\ g.at = to /\ g.rev = get[c].rev /\ g.base = get[c].base /\ g.body = get[c].body
  BY <1>5 DEF Gets
<1>7. get' = [get EXCEPT ![c] = g] /\ held' = [held EXCEPT ![c] = h] /\ h \in {held[c], Nothing}
  BY <1>2, <1>3 DEF FeedInv, FeedTypes
<1> HIDE DEF g, h
<1>8. Answering(c, g, h)
  BY <1>5, <1>6 DEF Answering
<1>9. ReplicaForm
  BY <1>3, ReplicasStay
<1> QED
  BY ZenonT(40), <1>3, <1>4, <1>6, <1>7, <1>8, <1>9, RequestGoesOn DEF ReplicaForm

\* The row is read before the items, so what is read of them is at least as new.
LEMMA RowReadKept == ASSUME FeedInv, NEW c \in Clients, RenderRow(c) PROVE FeedInv'
<1> DEFINE b == [rev |-> feed.rev, since |-> LastModified(feed.updated), shows |-> 0,
                 settings |-> Mine(c).settings, secret |-> Mine(c).secret]
           g == [get[c] EXCEPT !.at = "items", !.body = b]
           h == held[c]
<1>1. /\ At(c, "render") /\ get' = [get EXCEPT ![c] = g]
      /\ UNCHANGED <<feed, now, writer, change, install, replica, shared, locks, held, spent>>
  BY DEF RenderRow
<1>2. /\ get[c] \in Gets /\ get[c].rev <= feed.rev /\ get[c].base + feed.rev = get[c].rev + feed.shows
      /\ get[c].proc \in Replicas /\ replica[get[c].proc].secret = install.secret
      /\ h # Nothing => Sound(h)
  BY <1>1, UnderWay
<1>3. /\ b \in Body /\ b.secret = install.secret /\ b.rev = feed.rev /\ TrueDate(b)
  <2>1. Mine(c).settings \in Nat /\ Mine(c).secret = install.secret /\ install.secret \in Nat
        /\ feed.rev \in Nat \ {0} /\ feed.shows \in Nat /\ LastModified(feed.updated) \in Nat
    BY <1>2, FeedCacheAssumption DEF Mine, FeedInv, FeedTypes, LastModified
  <2>2. b \in Body /\ b.rev = feed.rev /\ b.since = LastModified(feed.updated) /\ b.secret = install.secret
    BY <2>1 DEF Body
  <2>3. Place(b) = feed.shows
    BY <2>1, <2>2 DEF Place
  <2>4. TrueDate(b)
    BY <2>1, <2>2, <2>3 DEF TrueDate, FeedInv, Counted
  <2> QED
    BY <2>2, <2>4
<1> HIDE DEF b
<1>4. g \in Gets /\ g.at = "items" /\ g.rev = get[c].rev /\ g.base = get[c].base /\ g.body = b
  BY <1>2, <1>3 DEF Gets
<1>5. held' = [held EXCEPT ![c] = h] /\ h \in {held[c], Nothing}
  BY <1>1 DEF FeedInv, FeedTypes
<1> HIDE DEF g, h
<1>6. Answering(c, g, h)
  <2>1. feed.rev <= feed.rev
    BY DEF FeedInv, FeedTypes
  <2> QED
    BY <1>2, <1>3, <1>4, <2>1 DEF Answering
<1>7. ReplicaForm
  BY <1>1, ReplicasStay
<1>8. spent' \in [begun : Nat, asked : Nat, bad : Nat, moves : Nat]
  BY <1>1 DEF FeedInv, FeedTypes
<1> QED
  BY ZenonT(40), <1>1, <1>4, <1>5, <1>6, <1>7, <1>8, RequestGoesOn DEF ReplicaForm

\* The items complete the body, which the process keeps.
LEMMA ItemsReadKept == ASSUME FeedInv, NEW c \in Clients, RenderItems(c) PROVE FeedInv'
<1> DEFINE b == get[c].body
           whole == [b EXCEPT !.shows = feed.shows]
           g == [get[c] EXCEPT !.body = whole, !.at = "put"]
           h == held[c]
<1>1. At(c, "items") /\ UNCHANGED <<feed, now, writer, change, install, shared, locks, held, spent>>
  BY DEF RenderItems
<1>2. /\ get[c] \in Gets /\ get[c].rev <= feed.rev /\ get[c].base + feed.rev = get[c].rev + feed.shows
      /\ get[c].proc \in Replicas /\ b \in Body /\ b.secret = install.secret
      /\ get[c].rev <= b.rev /\ b.rev <= feed.rev /\ TrueDate(b)
      /\ h # Nothing => Sound(h)
  <2> HIDE DEF whole, g
  <2> QED
    BY <1>1, UnderWay
<1>3. Keep(c, whole) /\ get' = [get EXCEPT ![c] = g]
  <2>1. b.rev # 0
    BY <1>2, NoneIsNone
  <2> QED
    BY <2>1 DEF RenderItems
<1>4. feed.rev \in Nat /\ feed.shows \in Nat
  BY DEF FeedInv, FeedTypes
<1> HIDE DEF b
<1>5. /\ whole \in Body /\ whole.secret = b.secret /\ whole.rev = b.rev /\ whole.since = b.since
      /\ whole.shows = feed.shows
  BY <1>2, <1>4 DEF Body
<1> HIDE DEF whole
<1>6. g \in Gets /\ g.at = "put" /\ g.rev = get[c].rev /\ g.base = get[c].base /\ g.body = whole
  BY <1>2, <1>5 DEF Gets
<1>7. held' = [held EXCEPT ![c] = h] /\ h \in {held[c], Nothing}
  BY <1>1 DEF FeedInv, FeedTypes
<1> HIDE DEF g, h
<1>8. Shows(whole) /\ TrueDate(whole)
  <2>1. b.rev \in Nat /\ Place(whole) = Place(b)
    BY <1>2, <1>5 DEF Body, Place
  <2>2. TrueDate(whole)
    BY <1>2, <1>5, <2>1 DEF TrueDate
  <2>3. Place(whole) <= feed.shows
    BY <1>4, <2>2 DEF TrueDate
  <2> QED
    BY <1>2, <1>4, <1>5, <2>2, <2>3 DEF Shows
<1>9. Answering(c, g, h)
  BY <1>2, <1>5, <1>6, <1>8 DEF Answering
<1>10. ReplicaForm
  BY <1>1, <1>2, <1>3, <1>5, <1>8, ReplicaKeeps
<1>11. spent' \in [begun : Nat, asked : Nat, bad : Nat, moves : Nat]
  BY <1>1 DEF FeedInv, FeedTypes
<1> QED
  BY ZenonT(40), <1>1, <1>3, <1>6, <1>7, <1>8, <1>9, <1>10, <1>11, RequestGoesOn DEF ReplicaForm

\* What was rendered is stored under what it is, and sent.
LEMMA PutKept == ASSUME FeedInv, NEW c \in Clients, Put(c) \/ PutFails(c) PROVE FeedInv'
<1> DEFINE b == get[c].body
           g == [get[c] EXCEPT !.at = "told", !.body = NoEntry]
           k == Key(get[c].proc, get[c].body.rev)
<1>1. /\ At(c, "put") /\ UNCHANGED <<feed, now, writer, change, install, replica>> /\ Shown(c, b)
      /\ get' = [get EXCEPT ![c] = g]
  BY DEF Put, PutFails, Sent
<1>2. /\ get[c] \in Gets /\ get[c].rev <= feed.rev /\ get[c].base + feed.rev = get[c].rev + feed.shows
      /\ get[c].proc \in Replicas /\ b \in Body /\ b.secret = install.secret /\ Shows(b)
      /\ get[c].rev <= b.rev /\ b.rev <= feed.rev
      /\ replica[get[c].proc].secret = install.secret
  <2> HIDE DEF g, k
  <2> QED
    BY <1>1, UnderWay
<1>3. /\ g \in Gets /\ g.at = "told" /\ g.rev = get[c].rev /\ g.base = get[c].base /\ g.body = NoEntry
  BY <1>2 DEF Gets
<1>4. spent' \in [begun : Nat, asked : Nat, bad : Nat, moves : Nat]
  BY DEF Put, PutFails, Misfortune, FeedInv, FeedTypes
<1>5. SharedForm
  <2>1. CASE UNCHANGED shared
    BY <2>1, SharedStays
  <2>2. CASE shared' = {e \in shared : e.key # k} \cup {[key |-> k, body |-> b]}
    <3> DEFINE new == [key |-> k, body |-> b]
    <3>1. k = [ns |-> b.secret, rev |-> b.rev] /\ k \in [ns : Nat, rev : Nat]
      BY <1>2 DEF Key, Body
    <3>2. new.key = k /\ new.body = b /\ new \in [key : [ns : Nat, rev : Nat], body : Body]
      BY <1>2, <3>1
    <3> HIDE DEF new, k
    <3>3. Stored(new)
      <4>1. b.secret <= install.secret
        BY <1>2 DEF FeedInv, FeedTypes
      <4> QED
        BY <1>2, <3>1, <3>2, <4>1 DEF Stored, Sound
    <3>4. \A e \in shared : Stored(e) /\ e.body \in Body /\ e \in [key : [ns : Nat, rev : Nat], body : Body]
      BY DEF FeedInv, FeedTypes
    <3>6. \A e \in shared' : e \in shared \/ e = new
      BY <2>2 DEF new
    <3> QED
      BY <3>2, <3>3, <3>4, <3>6 DEF SharedForm
  <2> QED
    BY <2>1, <2>2 DEF Put, PutFails
<1> HIDE DEF b, g, k
<1>6. ReplicaForm
  BY <1>1, ReplicasStay
<1>7. g.rev <= b.rev /\ g.rev <= feed.rev /\ g.base + feed.rev = g.rev + feed.shows
  BY <1>2, <1>3
<1> QED
  BY <1>1, <1>2, <1>3, <1>4, <1>5, <1>6, <1>7, AnswerKept DEF ReplicaForm, SharedForm

\* Restarts, lost entries and lost keys.
LEMMA LossKept ==
    ASSUME FeedInv, Expire \/ Reconfigure \/ \E p \in Replicas : Restart(p) \/ Evict(p) PROVE FeedInv'
<1>0. FeedTypes /\ \A d \in Clients : get[d] \in Gets \cup {NoGet}
  BY DEF FeedInv, FeedTypes
<1>6. UNCHANGED <<feed, change>> => (ChangeTypes' <=> ChangeTypes)
  BY DEF ChangeTypes
<1>1. \A S : Cut(S) \in [Clients -> Gets \cup {NoGet}] /\ \A d \in Clients : Cut(S)[d] \in {get[d], NoGet}
  BY <1>0 DEF Cut
<1>2. CASE Expire
  <2>1. UNCHANGED <<feed, now, writer, change, install, replica, get, held>> /\ shared' \subseteq shared
        /\ spent' = [spent EXCEPT !.bad = @ + 1]
    BY <1>2 DEF Expire, Misfortune
  <2>2. FeedTypes'
    BY <1>0, <1>6, <2>1 DEF FeedTypes
  <2>3. ReplicaForm
    BY <2>1, ReplicasStay
  <2>4. \A d \in Clients : get'[d] \in {get[d], NoGet}
    BY <2>1
  <2> QED
    BY <2>1, <2>2, <2>3, <2>4, MishapsKept DEF ReplicaForm
<1>3. CASE Reconfigure
  <2>1. /\ install' = [install EXCEPT !.settings = @ + 1] /\ UNCHANGED <<feed, now, writer, change, shared, locks, held>>
        /\ replica' = [p \in Replicas |-> [Started EXCEPT !.settings = @ + 1]] /\ get' = Cut(Replicas)
        /\ spent' = [spent EXCEPT !.moves = @ + 1]
    BY <1>3 DEF Reconfigure, Move
  <2>2. install'.secret = install.secret /\ install' \in [secret : Nat, settings : Nat] /\ install.secret \in Nat
    BY <1>0, <2>1 DEF FeedTypes
  <2>3. spent' \in [begun : Nat, asked : Nat, bad : Nat, moves : Nat]
    BY <1>0, <2>1 DEF FeedTypes
  <2>4. \A p \in Replicas : /\ replica'[p].entry = NoEntry /\ replica'[p].secret = install.secret
                            /\ replica'[p] \in [entry : Body \cup {NoEntry}, secret : Nat, settings : Nat]
    BY <1>0, <2>1 DEF Started, FeedTypes
  <2>5. replica' \in [Replicas -> [entry : Body \cup {NoEntry}, secret : Nat, settings : Nat]]
    <3>1. replica' = [p \in Replicas |-> replica'[p]]
      BY <2>1
    <3> QED
      BY <2>4, <3>1
  <2>6. FeedTypes'
    BY <1>0, <1>6, <1>1, <2>1, <2>2, <2>3, <2>5 DEF FeedTypes
  <2>7. \A p \in Replicas : ReplicaSound(p)'
    BY <2>2, <2>4 DEF ReplicaSound
  <2>8. shared' \subseteq shared /\ \A d \in Clients : get'[d] \in {get[d], NoGet}
    BY <1>1, <2>1
  <2> QED
    BY <2>1, <2>2, <2>3, <2>4, <2>6, <2>7, <2>8, MishapsKept
<1>4. ASSUME NEW q \in Replicas, Restart(q) PROVE FeedInv'
  <2>1. /\ replica' = [replica EXCEPT ![q] = Started] /\ get' = Cut({q})
        /\ UNCHANGED <<feed, now, writer, change, install, shared, locks, held>> /\ spent' = [spent EXCEPT !.bad = @ + 1]
    BY <1>4 DEF Restart, Misfortune
  <2>2. Started \in [entry : Body \cup {NoEntry}, secret : Nat, settings : Nat]
        /\ Started.entry = NoEntry /\ Started.secret = install.secret
    BY <1>0 DEF Started, FeedTypes
  <2>3. \A p \in Replicas : replica'[p] = IF p = q THEN Started ELSE replica[p]
    BY <1>0, <2>1 DEF FeedTypes
  <2>4. FeedTypes'
    BY <1>0, <1>6, <1>1, <2>1, <2>2 DEF FeedTypes
  <2>5. \A p \in Replicas : ReplicaSound(p)'
    BY <2>1, <2>2, <2>3, BodiesStay DEF FeedInv, ReplicaSound
  <2>6. \A d \in Clients : get'[d] \in {get[d], NoGet}
    BY <1>1, <2>1
  <2> QED
    BY <2>1, <2>4, <2>5, <2>6, MishapsKept
<1>5. ASSUME NEW q \in Replicas, Evict(q) PROVE FeedInv'
  <2> DEFINE r == [replica[q] EXCEPT !.entry = NoEntry]
  <2>1. /\ replica' = [replica EXCEPT ![q] = r]
        /\ UNCHANGED <<feed, now, writer, change, install, shared, locks, get, held>> /\ spent' = [spent EXCEPT !.bad = @ + 1]
    BY <1>5 DEF Evict, Misfortune
  <2>2. r \in [entry : Body \cup {NoEntry}, secret : Nat, settings : Nat]
        /\ r.entry = NoEntry /\ r.secret = replica[q].secret
    BY <1>0 DEF FeedTypes
  <2> HIDE DEF r
  <2>3. \A p \in Replicas : replica'[p] = IF p = q THEN r ELSE replica[p]
    BY <1>0, <2>1 DEF FeedTypes
  <2>4. FeedTypes'
    BY <1>0, <1>6, <2>1, <2>2 DEF FeedTypes
  <2>5. \A p \in Replicas : ReplicaSound(p)'
    BY <2>1, <2>2, <2>3, BodiesStay DEF FeedInv, ReplicaSound
  <2>6. \A d \in Clients : get'[d] \in {get[d], NoGet}
    BY <2>1
  <2> QED
    BY <2>1, <2>4, <2>5, <2>6, MishapsKept
<1> QED
  BY <1>2, <1>3, <1>4, <1>5

\* Every step keeps the invariant, and the property is part of it.
LEMMA FeedKept == FeedInv /\ [FeedNext]_feedVars => FeedInv'
<1> SUFFICES ASSUME FeedInv, [FeedNext]_feedVars PROVE FeedInv'
  OBVIOUS
<1>1. CASE UNCHANGED feedVars
  <2>1. FeedTypes' /\ UNCHANGED <<feed, change, install, replica, shared, get, held>>
    <3>1. ChangeTypes' <=> ChangeTypes
      BY <1>1 DEF feedVars, ChangeTypes
    <3> QED
      BY <1>1, <3>1 DEF feedVars, FeedInv, FeedTypes
  <2>2. ReplicaForm
    BY <2>1, ReplicasStay
  <2> QED
    BY <2>1, <2>2, MishapsKept DEF ReplicaForm
<1>2. ASSUME NEW c \in Clients, Request(c) PROVE FeedInv'
  BY <1>2, SharedHitKept, WaitKept, RowReadKept, ItemsReadKept, PutKept DEF Request
<1> QED
  BY <1>1, <1>2, FetchKept, BeginKept, CommitKept, LossKept, RestartedKept DEF FeedNext

\* The property is part of the invariant.
LEMMA FeedServed == FeedInv => FreshServed
<1> SUFFICES ASSUME FeedInv, NEW c \in Clients, At(c, "told") PROVE Answers(c, held[c], get[c].base)
  BY DEF FreshServed, Answers
<1>1. get[c] # NoGet /\ get[c].at = "told" /\ Answering(c, get[c], held[c])
  BY DEF At, NoGet, FeedInv
<1> QED
  BY <1>1 DEF Answering

-----------------------------------------------------------------------------
(* OnDemand: an app is given one Episode, and is not refused one in time.   *)

ItemRows == [state : {"available", "wanted", "archiving", "archived", "failed", "deleted"},
             blocked : BOOLEAN, doomed : BOOLEAN]
AskSteps == {"idle", "archive", "look", "seen", "wait", "open", "send", "done"}
AskCodes == {0, 200, 404, 503, 507}
Readings == {"archived", "failed", "blocked", "unsettled"}
MediaAsks == [at : AskSteps, saw : Readings, etag : Nat, todo : SUBSET Ranges, late : BOOLEAN, had : BOOLEAN,
              code : AskCodes]
AppBytes == [etag : Nat, has : [Ranges -> Nat], asked : Nat]

\* What a request and its app agree on: an answer comes at the end, what is sent is what
\* the app was told, and an Episode that was there at the deadline is still there, for its
\* deletion would have been noted, and was there for the look that is under way.
Faithful(a) ==
    /\ ask[a].at # "done" => ask[a].code = 0
    /\ ask[a].at = "send" => ask[a].etag = app[a].etag
    /\ ask[a].had => Archived
    /\ ask[a].at = "seen" /\ ask[a].had => ask[a].saw = "archived"
    /\ ask[a].code = 503 => ~ask[a].had
    /\ \A r \in Ranges : app[a].has[r] \in {0, app[a].etag}

\* The inductive invariant.  An archived item has no job, so it stays archived until it
\* is deleted.
MediaInv ==
    /\ row \in ItemRows /\ object \in Nat /\ work \in {"none", "queued", "running"} /\ over \in BOOLEAN
    /\ used \in [archives : Nat, bad : Nat]
    /\ ask \in [Apps -> MediaAsks] /\ app \in [Apps -> AppBytes]
    /\ row.state = "archiving" <=> work = "running"
    /\ work = "queued" => row.state = "wanted"
    /\ \A a \in Apps : Faithful(a)

\* The names of the steps, the codes, and a record of a request with one field changed.
LEMMA AskNames ==
    /\ "idle" \in AskSteps /\ "archive" \in AskSteps /\ "look" \in AskSteps /\ "wait" \in AskSteps
    /\ "seen" \in AskSteps /\ "unsettled" \in Readings
    /\ "open" \in AskSteps /\ "send" \in AskSteps /\ "done" \in AskSteps
    /\ 0 \in AskCodes /\ 200 \in AskCodes /\ 404 \in AskCodes /\ 503 \in AskCodes /\ 507 \in AskCodes
BY DEF AskSteps, AskCodes, Readings

\* No request and no version at first.
LEMMA MediaBegins == MediaInit => MediaInv
<1> SUFFICES ASSUME MediaInit PROVE MediaInv
  OBVIOUS
<1>1. NoAsk \in MediaAsks /\ [etag |-> 0, has |-> NoBytes, asked |-> 0] \in AppBytes
  <2>1. 0 \in Nat /\ {} \in SUBSET Ranges /\ FALSE \in BOOLEAN
    OBVIOUS
  <2>2. NoAsk \in MediaAsks
    BY <2>1, AskNames DEF NoAsk, MediaAsks
  <2> QED
    BY <2>2 DEF AppBytes, NoBytes
<1>2. ask \in [Apps -> MediaAsks] /\ app \in [Apps -> AppBytes]
  BY <1>1 DEF MediaInit
<1>3. \A a \in Apps : Faithful(a)
  BY DEF MediaInit, Faithful, NoAsk, NoBytes
<1> QED
  BY <1>2, <1>3 DEF MediaInit, MediaInv, ItemRows

\* A step of the worker, the prune or the User that archives nothing away.
LEMMA WorldMoves ==
    ASSUME MediaInv, UNCHANGED <<ask, app>>, row' \in ItemRows, object' \in Nat,
           work' \in {"none", "queued", "running"}, over' \in BOOLEAN, used' \in [archives : Nat, bad : Nat],
           row'.state = "archiving" <=> work' = "running", work' = "queued" => row'.state = "wanted",
           Archived => Archived'
    PROVE  MediaInv'
<1>1. \A a \in Apps : Faithful(a)'
  BY DEF MediaInv, Faithful
<1> QED
  BY <1>1 DEF MediaInv

\* A step of one request leaves it at q, and its app with h.
Turn(a, q, h) ==
    /\ ask' \in [Apps -> MediaAsks] /\ app' \in [Apps -> AppBytes]
    /\ \A b \in Apps : /\ ask'[b] = IF b = a THEN q ELSE ask[b]
                      /\ app'[b] = IF b = a THEN h ELSE app[b]

LEMMA OneAskMoves ==
    ASSUME MediaInv, NEW a \in Apps, NEW q, NEW h, Turn(a, q, h),
           UNCHANGED <<row, object, work, over>>, used' \in [archives : Nat, bad : Nat],
           q.at # "done" => q.code = 0, q.at = "send" => q.etag = h.etag,
           q.had => Archived, q.code = 503 => ~q.had, q.at = "seen" /\ q.had => q.saw = "archived",
           \A r \in Ranges : h.has[r] \in {0, h.etag}
    PROVE  MediaInv'
<1>1. Archived' <=> Archived
  BY DEF Archived
<1>2. \A b \in Apps : Faithful(b)'
  BY <1>1 DEF MediaInv, Faithful, Turn
<1> QED
  BY <1>2 DEF MediaInv, Turn

\* The worker, the prune, the users and the quota.
LEMMA WorldKept ==
    ASSUME MediaInv, Worker \/ Want \/ Delete \/ Remove \/ Usage PROVE MediaInv'
<1>1. CASE Take \/ Store \/ Register \/ Fail \/ Block
  <2>1. CASE Take
    BY <2>1, WorldMoves DEF Take, Archived, MediaInv, ItemRows
  <2>2. CASE Store
    BY <2>2, WorldMoves DEF Store, Archived, MediaInv, ItemRows
  <2>3. CASE Register
    BY <2>3, WorldMoves DEF Register, Archived, MediaInv, ItemRows
  <2>4. CASE Fail
    BY <2>4, WorldMoves DEF Fail, Archived, MediaInv, ItemRows
  <2>5. CASE Block
    BY <2>5, WorldMoves DEF Block, Archived, MediaInv, ItemRows
  <2> QED
    BY <1>1, <2>1, <2>2, <2>3, <2>4, <2>5
<1>2. CASE Want
  BY <1>2, WorldMoves DEF Want, Archived, MediaInv, ItemRows
<1>3. CASE Remove
  BY <1>3, WorldMoves DEF Remove, Archived, MediaInv, ItemRows
<1>4. CASE Usage
  BY <1>4, WorldMoves DEF Usage, Bad, Archived, MediaInv, ItemRows
<1>5. CASE Delete
  <2>1. row' \in ItemRows /\ row'.state = "deleted" /\ UNCHANGED <<object, work, over, app>>
        /\ used' \in [archives : Nat, bad : Nat]
    <3>1. row' = [row EXCEPT !.state = "deleted", !.doomed = TRUE]
      BY <1>5 DEF Delete
    <3>2. row = [state |-> row.state, blocked |-> row.blocked, doomed |-> row.doomed] /\ row.blocked \in BOOLEAN
      BY DEF MediaInv, ItemRows
    <3>3. row' = [state |-> "deleted", blocked |-> row.blocked, doomed |-> TRUE]
      BY <3>1, <3>2
    <3>4. row' \in ItemRows /\ row'.state = "deleted"
      BY <3>2, <3>3 DEF ItemRows
    <3> QED
      BY <1>5, <3>4 DEF Delete, Bad, MediaInv
  <2>2. ask' \in [Apps -> MediaAsks]
    <3>1. ASSUME NEW a \in Apps PROVE [ask[a] EXCEPT !.had = FALSE] \in MediaAsks
      <4>1. ask[a] \in MediaAsks /\ FALSE \in BOOLEAN
        BY DEF MediaInv
      <4> QED
        BY <4>1 DEF MediaAsks
    <3> QED
      BY <1>5, <3>1 DEF Delete
  <2>3. ASSUME NEW a \in Apps PROVE Faithful(a)'
    <3>1. ask'[a] = [ask[a] EXCEPT !.had = FALSE]
      BY <1>5 DEF Delete
    <3>2. ask'[a].at = ask[a].at /\ ask'[a].code = ask[a].code /\ ask'[a].etag = ask[a].etag /\ ask'[a].had = FALSE
      BY <3>1 DEF MediaInv, MediaAsks
    <3> QED
      BY <2>1, <3>2 DEF MediaInv, Faithful
  <2> QED
    BY <1>5, <2>1, <2>2, <2>3 DEF Delete, Archived, MediaInv
<1> QED
  BY <1>1, <1>2, <1>3, <1>4, <1>5 DEF Worker

\* The request, from its arrival to its answer.
LEMMA RequestKept ==
    ASSUME MediaInv, NEW a \in Apps, Ask(a) \/ Serve(a) PROVE MediaInv'
<1> DEFINE q0 == ask[a]
           h0 == app[a]
<1>0. q0 \in MediaAsks /\ h0 \in AppBytes /\ Faithful(a) /\ app = [app EXCEPT ![a] = h0]
      /\ ask \in [Apps -> MediaAsks] /\ app \in [Apps -> AppBytes] /\ used \in [archives : Nat, bad : Nat]
  BY DEF MediaInv
<1>1. CASE Ask(a)
  <2> DEFINE q == [NoAsk EXCEPT !.at = IF Archived THEN "open" ELSE "archive"]
             h == [app[a] EXCEPT !.asked = @ + 1]
  <2>1. q \in MediaAsks /\ q.at # "done" /\ q.at # "send" /\ q.code = 0 /\ ~q.had
    BY ZenonT(40), AskNames DEF NoAsk, MediaAsks
  <2>2. h \in AppBytes /\ h.has = h0.has /\ h.etag = h0.etag
    BY <1>0 DEF AppBytes
  <2>3. ask' = [ask EXCEPT ![a] = q] /\ app' = [app EXCEPT ![a] = h] /\ UNCHANGED <<row, object, work, over, used>>
    BY <1>1 DEF Ask
  <2>4. \A r \in Ranges : h.has[r] \in {0, h.etag}
    BY <1>0, <2>2 DEF Faithful
  <2> HIDE DEF q, h
  <2>5. Turn(a, q, h)
    BY <1>0, <2>1, <2>2, <2>3 DEF Turn
  <2> QED
    BY <1>0, <2>1, <2>3, <2>4, <2>5, OneAskMoves
<1>2. CASE Archive(a)
  <2>1. ASSUME NEW at0 \in AskSteps, NEW code0 \in AskCodes, at0 # "send", at0 # "seen", code0 # 503,
               at0 # "done" => code0 = 0, ask' = [ask EXCEPT ![a].at = at0, ![a].code = code0], UNCHANGED <<object, over, app, used>>,
               \/ UNCHANGED <<row, work>>
               \/ /\ row' = [row EXCEPT !.state = IF @ = "archiving" THEN @ ELSE "wanted", !.blocked = FALSE]
                  /\ work' = IF work = "none" THEN "queued" ELSE work
                  /\ ~Archived
        PROVE  MediaInv'
    <3> DEFINE q == [ask[a] EXCEPT !.at = at0, !.code = code0]
    <3>1. q \in MediaAsks /\ q.at = at0 /\ q.code = code0 /\ q.had = ask[a].had
      BY <1>0 DEF MediaAsks
    <3>2. ask' = [ask EXCEPT ![a] = q] /\ ask' \in [Apps -> MediaAsks]
      BY ZenonT(40), <2>1, <3>1 DEF MediaInv
    <3>3. \A b \in Apps : ask'[b] = IF b = a THEN q ELSE ask[b]
      BY <3>2 DEF MediaInv
    <3> HIDE DEF q
    <3>4. row' \in ItemRows /\ (Archived' <=> Archived) /\ (row'.state = "archiving" <=> work' = "running")
          /\ (work' = "queued" => row'.state = "wanted") /\ work' \in {"none", "queued", "running"}
      BY ZenonT(40), <2>1 DEF MediaInv, ItemRows, Archived
    <3>5. \A b \in Apps : Faithful(b)'
      BY <2>1, <3>1, <3>3, <3>4 DEF MediaInv, Faithful
    <3> QED
      BY <2>1, <3>2, <3>4, <3>5 DEF MediaInv
  <2>2. UNCHANGED <<object, over, app, used>>
        /\ \/ UNCHANGED <<row, work>>
           \/ /\ row' = [row EXCEPT !.state = IF @ = "archiving" THEN @ ELSE "wanted", !.blocked = FALSE]
              /\ work' = IF work = "none" THEN "queued" ELSE work
              /\ ~Archived
    BY <1>2 DEF Archive
  <2>3. CASE Code(a, 507)
    <3>1. "done" \in AskSteps /\ 507 \in AskCodes /\ "done" # "send" /\ "done" # "seen" /\ 507 # 503
      BY AskNames
    <3> DEFINE at0 == "done"
               code0 == 507
    <3>2. ask' = [ask EXCEPT ![a].at = at0, ![a].code = code0]
      BY <2>3 DEF Code
    <3>3. at0 \in AskSteps /\ code0 \in AskCodes /\ at0 # "send" /\ at0 # "seen" /\ code0 # 503 /\ at0 = "done"
      BY <3>1
    <3> HIDE DEF at0, code0
    <3> QED
      BY <2>1, <2>2, <3>2, <3>3
  <2>4. CASE Go(a, "look")
    <3>1. ask[a].code = 0
      BY <1>0, <1>2 DEF Archive, Is, Faithful
    <3>2. [ask[a] EXCEPT !.at = "look"] = [ask[a] EXCEPT !.at = "look", !.code = 0]
      BY <1>0, <3>1 DEF MediaAsks
    <3>3. ask' = [ask EXCEPT ![a].at = "look", ![a].code = 0]
      BY <2>4, <3>2 DEF Go
    <3>4. "look" \in AskSteps /\ 0 \in AskCodes /\ "look" # "send" /\ "look" # "seen" /\ "look" # "done" /\ 0 # 503
      BY AskNames
    <3> QED
      BY <2>1, <2>2, <3>3, <3>4
  <2> QED
    BY <1>2, <2>3, <2>4 DEF Archive
<1>3. CASE Deadline(a)
  <2> DEFINE there == IF Is(a, "seen") THEN Archived /\ ask[a].saw = "archived" ELSE Archived
             q == [ask[a] EXCEPT !.late = TRUE, !.had = there]
  <2>0. there \in BOOLEAN /\ TRUE \in BOOLEAN /\ (there => Archived)
        /\ (q0.at = "seen" /\ there => q0.saw = "archived")
    BY DEF Archived, Is
  <2>6. ask' = [ask EXCEPT ![a] = q]
    BY <1>3 DEF Deadline
  <2> HIDE DEF there
  <2>1. q \in MediaAsks /\ q.at = q0.at /\ q.code = q0.code /\ q.etag = q0.etag /\ q.saw = q0.saw
    BY <1>0, <2>0 DEF MediaAsks
  <2>2. q.had <=> there
    BY <1>0, <2>0 DEF MediaAsks
  <2>3. UNCHANGED <<row, object, work, over, app, used>> /\ q0.at \in {"look", "seen", "wait"}
    BY <1>3 DEF Deadline, Is
  <2>4. q0.code = 0 /\ \A r \in Ranges : h0.has[r] \in {0, h0.etag}
    BY <1>0, <2>3 DEF Faithful
  <2> HIDE DEF q
  <2>5. Turn(a, q, h0)
    BY <1>0, <2>1, <2>3, <2>6 DEF Turn
  <2> QED
    BY <1>0, <2>0, <2>1, <2>2, <2>3, <2>4, <2>5, OneAskMoves
<1>4. CASE Look(a)
  <2> DEFINE q == [ask[a] EXCEPT !.at = "seen", !.saw = Reading]
  <2>1. Reading \in Readings /\ (Archived => Reading = "archived") /\ "seen" \in AskSteps
    BY AskNames DEF MediaInv, ItemRows, Reading, Readings, Archived
  <2>2. ask' = [ask EXCEPT ![a] = q] /\ UNCHANGED <<row, object, work, over, app, used>> /\ q0.at = "look"
    BY <1>4 DEF Look, Is
  <2>3. q \in MediaAsks /\ q.at = "seen" /\ q.code = q0.code /\ q.had = q0.had /\ q.saw = Reading
    BY <1>0, <2>1 DEF MediaAsks
  <2>4. q0.code = 0 /\ (q0.had => Archived) /\ \A r \in Ranges : h0.has[r] \in {0, h0.etag}
    BY <1>0, <2>2 DEF Faithful
  <2> HIDE DEF q
  <2>5. Turn(a, q, h0)
    BY <1>0, <2>2, <2>3 DEF Turn
  <2> QED
    BY <1>0, <2>1, <2>2, <2>3, <2>4, <2>5, OneAskMoves
<1>9. CASE Settle(a)
  <2>0. UNCHANGED <<row, object, work, over, app, used>> /\ ask[a].code = 0
        /\ (ask[a].had => ask[a].saw = "archived") /\ \A r \in Ranges : h0.has[r] \in {0, h0.etag}
    BY <1>0, <1>9 DEF Settle, Is, Faithful
  <2>1. ASSUME NEW at0 \in AskSteps, NEW code0 \in AskCodes, at0 # "send", at0 # "seen",
               at0 # "done" => code0 = 0, code0 = 503 => ~ask[a].had, ask' = [ask EXCEPT ![a].at = at0, ![a].code = code0]
        PROVE  MediaInv'
    <3> DEFINE q == [ask[a] EXCEPT !.at = at0, !.code = code0]
    <3>1. q \in MediaAsks /\ q.at = at0 /\ q.code = code0 /\ q.had = ask[a].had
      BY <1>0 DEF MediaAsks
    <3>2. ask' = [ask EXCEPT ![a] = q]
      BY <2>1
    <3>3. (q.had => Archived) /\ (code0 = 503 => ~q.had)
      BY <1>0, <2>1, <3>1 DEF Faithful
    <3> HIDE DEF q
    <3>4. Turn(a, q, h0)
      BY <1>0, <2>0, <3>1, <3>2 DEF Turn
    <3> QED
      BY <1>0, <2>0, <2>1, <3>1, <3>3, <3>4, OneAskMoves
  <2>2. ASSUME NEW to \in {"open", "wait"}, Go(a, to) PROVE MediaInv'
    <3>1. to \in AskSteps /\ 0 \in AskCodes /\ to # "send" /\ to # "seen" /\ to # "done" /\ 0 # 503
      BY AskNames
    <3>2. [ask[a] EXCEPT !.at = to] = [ask[a] EXCEPT !.at = to, !.code = 0]
      BY <1>0, <2>0 DEF MediaAsks
    <3>3. ask' = [ask EXCEPT ![a].at = to, ![a].code = 0]
      BY <2>2, <3>2 DEF Go
    <3> QED
      BY <2>1, <3>1, <3>3
  <2>3. ASSUME NEW code0 \in {503, 507}, Code(a, code0), code0 = 503 => ~ask[a].had PROVE MediaInv'
    <3>1. "done" \in AskSteps /\ code0 \in AskCodes /\ "done" # "send" /\ "done" # "seen"
      BY AskNames
    <3>2. ask' = [ask EXCEPT ![a].at = "done", ![a].code = code0]
      BY <2>3 DEF Code
    <3> QED
      BY <2>1, <2>3, <3>1, <3>2
  <2>4. \/ Go(a, "open") \/ Go(a, "wait") \/ Code(a, 507) \/ (Code(a, 503) /\ ~ask[a].had)
    BY <1>9, <2>0 DEF Settle
  <2>5. "open" \in {"open", "wait"} /\ "wait" \in {"open", "wait"} /\ 503 \in {503, 507}
        /\ 507 \in {503, 507} /\ 507 # 503
    OBVIOUS
  <2> QED
    BY <2>2, <2>3, <2>4, <2>5
<1>5. CASE Wake(a)
  <2> DEFINE q == [ask[a] EXCEPT !.at = "look"]
  <2>1. q \in MediaAsks /\ q.at = "look" /\ q.code = q0.code /\ q.had = q0.had
    BY <1>0, AskNames DEF MediaAsks
  <2>2. ask' = [ask EXCEPT ![a] = q] /\ UNCHANGED <<row, object, work, over, app, used>> /\ q0.at = "wait"
    BY <1>5 DEF Wake, Is, Go
  <2>3. q0.code = 0 /\ (q0.had => Archived) /\ \A r \in Ranges : h0.has[r] \in {0, h0.etag}
    BY <1>0, <2>2 DEF Faithful
  <2> HIDE DEF q
  <2>4. Turn(a, q, h0)
    BY <1>0, <2>1, <2>2 DEF Turn
  <2> QED
    BY <1>0, <2>1, <2>2, <2>3, <2>4, OneAskMoves
<1>6. CASE Open(a)
  <2>1. q0.at = "open" /\ q0.code = 0 /\ UNCHANGED <<row, object, work, over, used>> /\ (q0.had => Archived)
        /\ object \in Nat
    BY <1>0, <1>6 DEF Open, Is, Faithful, MediaInv
  <2>2. CASE object = 0
    <3> DEFINE q == [ask[a] EXCEPT !.at = "done", !.code = 404]
    <3>1. "done" \in AskSteps /\ 404 \in AskCodes
      BY AskNames
    <3>2. q \in MediaAsks /\ q.at = "done" /\ q.code = 404 /\ q.had = q0.had
      BY ZenonT(40), <1>0, <3>1 DEF MediaAsks
    <3>3. ask' = [ask EXCEPT ![a] = q] /\ UNCHANGED app
      BY ZenonT(40), <1>6, <2>2 DEF Open, Code
    <3>5. \A r \in Ranges : h0.has[r] \in {0, h0.etag}
      BY <1>0 DEF Faithful
    <3> HIDE DEF q
    <3>4. Turn(a, q, h0)
      BY <1>0, <3>2, <3>3 DEF Turn
    <3> QED
      BY <1>0, <2>1, <3>2, <3>4, <3>5, OneAskMoves
  <2>3. CASE object # 0
    <3> DEFINE resumed == app[a].etag = object
               todo0 == IF resumed THEN Missing(a) ELSE Ranges
               has0 == IF resumed THEN app[a].has ELSE NoBytes
               q == [ask[a] EXCEPT !.at = "send", !.etag = object, !.todo = todo0]
               h == [app[a] EXCEPT !.etag = object, !.has = has0]
    <3>1. todo0 \in SUBSET Ranges /\ has0 \in [Ranges -> Nat]
      BY <1>0 DEF Missing, NoBytes, AppBytes
    <3>2. \A r \in Ranges : has0[r] \in {0, object}
      BY <1>0 DEF NoBytes, Faithful
    <3>3. ask' = [ask EXCEPT ![a] = q] /\ app' = [app EXCEPT ![a] = h]
      BY <1>6, <2>3 DEF Open
    <3> HIDE DEF todo0, has0
    <3>4. "send" \in AskSteps
      BY AskNames
    <3>5. q \in MediaAsks /\ q.at = "send" /\ q.code = q0.code /\ q.had = q0.had /\ q.etag = object
      BY <1>0, <2>1, <3>1, <3>4 DEF MediaAsks
    <3>6. h \in AppBytes /\ h.etag = object /\ h.has = has0
      BY <1>0, <2>1, <3>1 DEF AppBytes
    <3> HIDE DEF q, h
    <3>7. Turn(a, q, h)
      BY <1>0, <3>3, <3>5, <3>6 DEF Turn
    <3> QED
      BY <1>0, <2>1, <3>2, <3>5, <3>6, <3>7, OneAskMoves
  <2> QED
    BY <2>2, <2>3
<1>7. CASE Send(a)
  <2>1. PICK r \in ask[a].todo :
          /\ ask' = [ask EXCEPT ![a].todo = @ \ {r}]
          /\ app' = [app EXCEPT ![a].has[r] = object]
    BY <1>7 DEF Send
  <2>2. q0.at = "send" /\ object = h0.etag /\ UNCHANGED <<row, object, work, over, used>> /\ r \in Ranges
        /\ q0.code = 0 /\ (q0.had => Archived) /\ q0.etag = h0.etag /\ object \in Nat
    BY <1>0, <1>7 DEF Send, Is, Faithful, MediaAsks, MediaInv
  <2> DEFINE q == [ask[a] EXCEPT !.todo = @ \ {r}]
             h == [app[a] EXCEPT !.has[r] = object]
  <2>3. q \in MediaAsks /\ q.at = "send" /\ q.code = q0.code /\ q.had = q0.had /\ q.etag = q0.etag
    BY <1>0, <2>2 DEF MediaAsks
  <2>4. h \in AppBytes /\ h.etag = h0.etag /\ h.has = [h0.has EXCEPT ![r] = object]
    BY <1>0, <2>2 DEF AppBytes
  <2>5. \A s \in Ranges : h.has[s] \in {0, h.etag}
    BY <1>0, <2>2, <2>4 DEF Faithful, AppBytes
  <2>6. ask' = [ask EXCEPT ![a] = q] /\ app' = [app EXCEPT ![a] = h]
    BY <2>1
  <2> HIDE DEF q, h
  <2>7. Turn(a, q, h)
    BY <1>0, <2>3, <2>4, <2>6 DEF Turn
  <2>8. q.at = "send" /\ q.code = 0 /\ q.etag = h.etag /\ (q.had => Archived) /\ q.code # 503
    BY <2>2, <2>3, <2>4
  <2> QED
    BY <1>0, <2>2, <2>5, <2>7, <2>8, OneAskMoves
<1>8. CASE End(a)
  <2> DEFINE q == [ask[a] EXCEPT !.at = "done", !.code = 200]
  <2>1. "done" \in AskSteps /\ 200 \in AskCodes
    BY AskNames
  <2>2. q \in MediaAsks /\ q.at = "done" /\ q.code = 200 /\ q.had = q0.had
    BY <1>0, <2>1 DEF MediaAsks
  <2>3. ask' = [ask EXCEPT ![a] = q] /\ UNCHANGED <<row, object, work, over, app>>
    BY <1>8 DEF End, Code
  <2>4. used' \in [archives : Nat, bad : Nat]
    BY <1>0, <1>8 DEF End, Bad
  <2>5. (q0.had => Archived) /\ \A r \in Ranges : h0.has[r] \in {0, h0.etag}
    BY <1>0 DEF Faithful
  <2> HIDE DEF q
  <2>6. Turn(a, q, h0)
    BY <1>0, <2>2, <2>3 DEF Turn
  <2> QED
    BY <1>0, <2>2, <2>3, <2>4, <2>5, <2>6, OneAskMoves
<1> QED
  BY <1>1, <1>2, <1>3, <1>4, <1>5, <1>6, <1>7, <1>8, <1>9 DEF Serve

\* Every step keeps the invariant, and the property is part of it.
LEMMA MediaKept == MediaInv /\ [MediaNext]_mediaVars => MediaInv'
<1> SUFFICES ASSUME MediaInv, [MediaNext]_mediaVars PROVE MediaInv'
  OBVIOUS
<1>1. CASE UNCHANGED mediaVars
  BY <1>1 DEF mediaVars, MediaInv, Faithful, Archived
<1> QED
  BY <1>1, WorldKept, RequestKept DEF MediaNext

\* The property is part of the invariant.
LEMMA MediaServed == MediaInv => OneEpisodeServed
  BY DEF MediaInv, Faithful, OneEpisodeServed, NoSplice, InTimeIsServed

-----------------------------------------------------------------------------
(* Publishing: what is listed opens, and keeps its identity.                *)

\* A finite set of numbers has a greatest one, which is what Max chooses.
LEMMA GreatestExists ==
    ASSUME NEW U \in SUBSET Nat, IsFiniteSet(U)
    PROVE  \A S \in SUBSET U : S # {} => \E m \in S : \A x \in S : x <= m
<1> DEFINE Greatest(S) == \E m \in S : \A x \in S : x <= m
           Lacking == {n \in Nat : \E S \in SUBSET U : S # {} /\ Cardinality(S) = n /\ ~Greatest(S)}
<1>f. \A S \in SUBSET U : IsFiniteSet(S) /\ Cardinality(S) \in Nat
  BY FS_Subset, FS_CardinalityType
<1>1. SUFFICES ASSUME Lacking # {} PROVE FALSE
  <2>1. \A S \in SUBSET U : S # {} /\ ~Greatest(S) => Cardinality(S) \in Lacking
    BY <1>f
  <2> QED
    BY <2>1
<1>0. \A x, y \in Nat : <<x, y>> \in OpToRel(<, Nat) <=> x < y
  BY DEF OpToRel
<1>2. PICK n \in Lacking : \A y \in Lacking : ~ (<<y, n>> \in OpToRel(<, Nat))
  BY <1>1, NatLessThanWellFounded, WFMin
<1>3. PICK S \in SUBSET U : S # {} /\ Cardinality(S) = n /\ ~Greatest(S)
  OBVIOUS
<1>4. PICK x \in S : TRUE
  BY <1>3
<1> DEFINE rest == S \ {x}
<1>5. rest \in SUBSET U /\ Cardinality(rest) = n - 1 /\ Cardinality(rest) \in Nat
  BY <1>3, <1>4, <1>f, FS_RemoveElement
<1>6. Greatest(rest) \/ rest = {}
  <2> DEFINE k == Cardinality(rest)
  <2>a. k \in Nat /\ n \in Nat /\ k < n
    BY <1>5
  <2>b. k \in Lacking => ~ (<<k, n>> \in OpToRel(<, Nat))
    BY <1>2
  <2> HIDE DEF k
  <2>c. <<k, n>> \in OpToRel(<, Nat)
    BY <1>0, <2>a
  <2>1. k \notin Lacking
    BY <2>b, <2>c
  <2> QED
    BY <1>5, <2>1 DEF k
<1>7. CASE rest = {}
  <2>1. S = {x}
    BY <1>4, <1>7
  <2> QED
    BY <1>3, <2>1
<1>8. CASE Greatest(rest)
  <2>1. PICK m \in rest : \A y \in rest : y <= m
    BY <1>8
  <2>2. m \in Nat /\ x \in Nat /\ \A y \in S : y \in Nat /\ (y = x \/ y <= m)
    BY <1>4, <2>1
  <2>3. CASE x <= m
    BY <1>3, <2>1, <2>2, <2>3
  <2>4. CASE m < x
    <3>1. \A y \in S : y <= x
      BY <2>2, <2>4
    <3> QED
      BY <1>3, <1>4, <3>1
  <2> QED
    BY <2>2, <2>3, <2>4
<1> QED
  BY <1>6, <1>7, <1>8

\* So Max chooses the greatest number of a finite set.
LEMMA MaxIsGreatest ==
    ASSUME NEW U \in SUBSET Nat, IsFiniteSet(U), NEW S \in SUBSET U, S # {}
    PROVE  Max(S) \in S /\ \A x \in S : x <= Max(S)
<1>1. PICK m \in S : \A x \in S : x <= m
  BY GreatestExists
<1>2. \A x \in S : m >= x
  BY <1>1
<1>3. Max(S) \in S /\ \A x \in S : Max(S) >= x
  BY <1>2 DEF Max
<1> QED
  BY <1>3

Tags == {TagOf[l] : l \in Languages}
Transcripts == [item : Items, tag : Tags]
Grows(r) == \A i, j \in Items : i # j /\ r[i] # None /\ r[j] # None => r[i].ordinal # r[j].ordinal
Catalogs == [Items -> ItemRow \cup {None}]

\* What is said of an item, and what is there for it.
KeptItem(i) ==
    /\ IsArchived(i) => media[i] = rows[i].ext
    /\ rows[i] # None => /\ rows[i].xml => i \in sidecar
                         /\ \A l \in rows[i].tracks : [item |-> i, tag |-> TagOf[l]] \in files
    /\ described[i] # None =>
         /\ rows[i] # None /\ rows[i].ordinal = described[i].ordinal /\ rows[i].public = described[i].public
         /\ described[i].xml => i \in sidecar

\* The inductive invariant: the number and the address a descriptor holds are those of the
\* row, so a rebuild parks no row, and what it restores is what there was.
PubInv ==
    /\ mirror \in [kind : Kinds, automatic : BOOLEAN]
    /\ rows \in Catalogs /\ described \in Catalogs
    /\ media \in [Items -> Exts \cup {None}]
    /\ files \subseteq Transcripts /\ sidecar \subseteq Items
    /\ remaining \in [{"rebuilds", "archives", "deletions", "exports", "moves"} -> Nat]
    /\ Grows(rows)
    /\ \A i \in Items : KeptItem(i)

\* No item has a row at first.
LEMMA PubBegins == PubInit => PubInv
<1> SUFFICES ASSUME PubInit PROVE PubInv
  OBVIOUS
<1>1. \A i \in Items : rows[i] = None /\ described[i] = None
  BY DEF PubInit
<1>2. \A i \in Items : KeptItem(i)
  BY <1>1 DEF KeptItem, IsArchived
<1>3. Grows(rows)
  BY <1>1 DEF Grows
<1> QED
  BY <1>2, <1>3, PublishingAssumption DEF PubInit, PubInv, Catalogs

\* The numbers given to new rows are above those given before, and one each.
LEMMA NewNumbers ==
    ASSUME NEW r \in Catalogs, NEW new \in SUBSET Items
    PROVE  LET number(i) == HighestOf(r) + Cardinality({j \in new : j <= i})
           IN  /\ \A i \in new : number(i) \in Nat /\ \A j \in Items : r[j] # None => r[j].ordinal < number(i)
               /\ \A i, k \in new : i # k => number(i) # number(k)
<1> DEFINE known == {j \in Items : r[j] # None}
           given == {0} \cup {r[i].ordinal : i \in known}
           upto(i) == {j \in new : j <= i}
<1>1. IsFiniteSet(given) /\ given \subseteq Nat
  <2>1. IsFiniteSet(known)
    BY PublishingAssumption, FS_Subset
  <2>2. IsFiniteSet({r[i].ordinal : i \in known})
    <3> DEFINE image == {r[i].ordinal : i \in known}
               f == [i \in known |-> r[i].ordinal]
    <3>1. f \in [known -> image] /\ \A t \in image : \E i \in known : f[i] = t
      OBVIOUS
    <3>2. f \in Surjection(known, image)
      BY <3>1 DEF Surjection
    <3> HIDE DEF f, image
    <3>3. IsFiniteSet(image)
      BY <2>1, <3>2, FS_Surjection
    <3> QED
      BY <3>3 DEF image
  <2>3. {r[i].ordinal : i \in known} \subseteq Nat
    BY DEF Catalogs, ItemRow
  <2>4. given = {r[i].ordinal : i \in known} \cup {0}
    OBVIOUS
  <2> QED
    BY <2>2, <2>3, <2>4, FS_AddElement
<1>2. HighestOf(r) \in Nat /\ \A j \in Items : r[j] # None => r[j].ordinal <= HighestOf(r)
  <2>1. given \in SUBSET Nat /\ given \in SUBSET given /\ given # {}
    BY <1>1
  <2>2. Max(given) \in given /\ \A x \in given : x <= Max(given)
    BY <1>1, <2>1, MaxIsGreatest
  <2>3. HighestOf(r) = Max(given)
    BY DEF HighestOf
  <2>4. \A j \in known : r[j].ordinal \in given
    OBVIOUS
  <2> QED
    BY <1>1, <2>2, <2>3, <2>4
<1>3. ASSUME NEW i \in new
      PROVE  IsFiniteSet(upto(i)) /\ Cardinality(upto(i)) \in Nat /\ Cardinality(upto(i)) > 0
  <2>0. i \in Nat
    BY PublishingAssumption
  <2>a. i <= i
    BY <2>0
  <2>1. upto(i) \in SUBSET Items /\ i \in upto(i)
    BY <2>a
  <2>2. IsFiniteSet(upto(i))
    BY <2>1, PublishingAssumption, FS_Subset
  <2> QED
    BY <2>1, <2>2, FS_CardinalityType, FS_EmptySet
<1>4. ASSUME NEW i \in new, NEW k \in new, i < k PROVE Cardinality(upto(i)) < Cardinality(upto(k))
  <2>1. upto(i) \in SUBSET upto(k) /\ upto(i) # upto(k)
    <3>1. k \in upto(k) /\ k \notin upto(i)
      BY <1>4, PublishingAssumption
    <3>2. \A j \in new : j <= i => j <= k
      BY <1>4, PublishingAssumption
    <3> QED
      BY <3>1, <3>2
  <2> QED
    BY <1>3, <2>1, FS_Subset
<1> HIDE DEF upto
<1>5. \A i, k \in new : i # k => i < k \/ k < i
  BY PublishingAssumption
<1>6. \A i, k \in new : i # k => Cardinality(upto(i)) # Cardinality(upto(k))
  BY <1>3, <1>4, <1>5
<1> SUFFICES
      /\ \A i \in new : /\ HighestOf(r) + Cardinality(upto(i)) \in Nat
                        /\ \A j \in Items : r[j] # None => r[j].ordinal < HighestOf(r) + Cardinality(upto(i))
      /\ \A i, k \in new : i # k => HighestOf(r) + Cardinality(upto(i)) # HighestOf(r) + Cardinality(upto(k))
  BY DEF upto
<1>7. \A j \in Items : r[j] # None => r[j].ordinal \in Nat
  BY DEF Catalogs, ItemRow
<1> QED
  BY <1>2, <1>3, <1>6, <1>7

\* What a listing changes of a row with a number.
SameEpisode(i) ==
    /\ rows'[i].ordinal = rows[i].ordinal /\ rows'[i].public = rows[i].public
    /\ rows'[i].state = rows[i].state /\ rows'[i].ext = rows[i].ext
    /\ rows'[i].xml = rows[i].xml /\ rows'[i].tracks = rows[i].tracks

\* A listing numbers new items after all others, and leaves what is archived alone.
ListedAs(i, S) ==
    LET new == {k \in S : rows[k] = None}
    IN  /\ rows[i] # None => rows'[i] \in ItemRow /\ SameEpisode(i)
        /\ rows[i] = None /\ i \notin new => rows'[i] = None
        /\ i \in new => /\ rows'[i] \in ItemRow
                        /\ rows'[i].ordinal = HighestOf(rows) + Cardinality({j \in new : j <= i})
                        /\ rows'[i].state = "available" /\ ~rows'[i].xml /\ rows'[i].tracks = {}

LEMMA ListForm ==
    ASSUME PubInv, NEW S \in SUBSET Items, NEW live \in SUBSET Streams, NEW partial \in BOOLEAN,
           List(S, live, partial), NEW i \in Items
    PROVE  ListedAs(i, S)
<1> DEFINE new == {k \in S : rows[k] = None}
           number == [k \in new |-> HighestOf(rows) + Cardinality({j \in new : j <= k})]
<1>1. Number(S) = number
  BY DEF Number
<1>2. rows'[i] = IF i \in S
          THEN IF rows[i] = None
               THEN [NewRow(number[i], Predicted(mirror.kind, i)) EXCEPT !.archivable = i \notin live]
               ELSE [rows[i] EXCEPT !.listed = TRUE, !.archivable = i \notin live]
          ELSE IF rows[i] = None \/ partial THEN rows[i]
          ELSE [rows[i] EXCEPT !.listed = FALSE]
  BY <1>1 DEF List
<1>3. \A k \in new : number[k] \in Nat
  BY NewNumbers DEF PubInv
<1>4. Predicted(mirror.kind, i) \in {"mp3", "m4a"}
  BY PublishingAssumption DEF Predicted, PubInv, Kinds
<1>5. CASE rows[i] # None
  <2>1. rows[i] \in ItemRow
    BY <1>5 DEF PubInv, Catalogs
  <2> QED
    BY ZenonT(40), <1>2, <1>5, <2>1 DEF ItemRow, SameEpisode, ListedAs
<1>6. CASE i \in new
  <2>1. rows'[i] = [NewRow(number[i], Predicted(mirror.kind, i)) EXCEPT !.archivable = i \notin live]
    BY <1>2, <1>6
  <2>2. number[i] \in Nat /\ number[i] = HighestOf(rows) + Cardinality({j \in new : j <= i})
    BY <1>3, <1>6
  <2> HIDE DEF number
  <2> QED
    BY <1>4, <1>6, <2>1, <2>2 DEF NewRow, ItemRow, ListedAs
<1>7. CASE rows[i] = None /\ i \notin new
  BY <1>2, <1>7 DEF ListedAs
<1> QED
  BY <1>5, <1>6, <1>7 DEF ListedAs

\* A listing keeps the invariant.
LEMMA ListKept ==
    ASSUME PubInv, NEW S \in SUBSET Items, NEW live \in SUBSET Streams, NEW partial \in BOOLEAN,
           List(S, live, partial)
    PROVE  PubInv'
<1> DEFINE new == {k \in S : rows[k] = None}
           number(i) == HighestOf(rows) + Cardinality({j \in new : j <= i})
<1>0. UNCHANGED <<mirror, media, files, sidecar, described, remaining>> /\ DOMAIN rows' = Items
      /\ rows' = [i \in Items |-> rows'[i]]
  BY DEF List
<1>1. /\ \A i \in new : number(i) \in Nat /\ \A j \in Items : rows[j] # None => rows[j].ordinal < number(i)
      /\ \A i, k \in new : i # k => number(i) # number(k)
  BY NewNumbers DEF PubInv
<1>2. \A i \in Items :
         /\ rows[i] # None => rows'[i] \in ItemRow /\ SameEpisode(i)
         /\ rows[i] = None /\ i \notin new => rows'[i] = None
         /\ i \in new => /\ rows'[i] \in ItemRow /\ rows'[i].ordinal = number(i)
                         /\ rows'[i].state = "available" /\ ~rows'[i].xml /\ rows'[i].tracks = {}
  <2>1. \A i \in Items : ListedAs(i, S)
    BY ListForm
  <2> QED
    BY <2>1 DEF ListedAs
<1>3. \A i \in new : rows[i] = None
  OBVIOUS
<1>7. \A i \in Items : rows[i] # None => rows[i].ordinal \in Nat
  BY DEF PubInv, Catalogs, ItemRow
<1> HIDE DEF new, number
<1>4. rows' \in Catalogs
  BY <1>0, <1>2 DEF Catalogs
<1>5. Grows(rows')
  <2> SUFFICES ASSUME NEW i \in Items, NEW j \in Items, i # j, rows'[i] # None, rows'[j] # None
               PROVE  rows'[i].ordinal # rows'[j].ordinal
    BY DEF Grows
  <2>1. CASE i \in new /\ j \in new
    BY <1>1, <1>2, <2>1
  <2>2. CASE i \in new /\ j \notin new
    BY <1>1, <1>2, <1>7, <2>2 DEF SameEpisode
  <2>3. CASE i \notin new /\ j \in new
    BY <1>1, <1>2, <1>7, <2>3 DEF SameEpisode
  <2>4. CASE i \notin new /\ j \notin new
    BY <1>2, <2>4 DEF SameEpisode, PubInv, Grows
  <2> QED
    BY <2>1, <2>2, <2>3, <2>4
<1>6. ASSUME NEW i \in Items PROVE KeptItem(i)'
  <2>1. CASE rows[i] # None
    BY <1>0, <1>2, <2>1, PublishingAssumption DEF SameEpisode, KeptItem, PubInv, IsArchived, ItemRow
  <2>2. CASE rows[i] = None
    BY <1>0, <1>2, <2>2 DEF KeptItem, PubInv, IsArchived
  <2> QED
    BY <2>1, <2>2
<1> QED
  BY <1>0, <1>4, <1>5, <1>6 DEF PubInv

\* One item's row moves and keeps its number and address.
LEMMA OneRowMoves ==
    ASSUME PubInv, NEW i \in Items, rows[i] # None, NEW e \in ItemRow, rows' = [rows EXCEPT ![i] = e],
           e.ordinal = rows[i].ordinal, e.public = rows[i].public, UNCHANGED <<mirror, described>>,
           media' \in [Items -> Exts \cup {None}], files' \subseteq Transcripts,
           sidecar' \subseteq Items, sidecar \subseteq sidecar',
           remaining' \in [{"rebuilds", "archives", "deletions", "exports", "moves"} -> Nat],
           \A j \in Items : j # i => media'[j] = media[j],
           \A f \in files : f.item # i => f \in files',
           e.state = "archived" /\ e.ext # None => media'[i] = e.ext,
           e.xml => i \in sidecar',
           \A l \in e.tracks : [item |-> i, tag |-> TagOf[l]] \in files'
    PROVE  PubInv'
<1>1. \A j \in Items : rows'[j] = IF j = i THEN e ELSE rows[j]
  BY DEF PubInv, Catalogs
<1>2. rows' \in Catalogs
  BY DEF PubInv, Catalogs
<1>3. Grows(rows')
  BY <1>1 DEF PubInv, Grows
<1>4. KeptItem(i)'
  BY <1>1, PublishingAssumption DEF PubInv, KeptItem, IsArchived
<1>5. ASSUME NEW j \in Items, j # i PROVE KeptItem(j)'
  <2>1. rows'[j] = rows[j] /\ media'[j] = media[j] /\ KeptItem(j)
    BY <1>1, <1>5 DEF PubInv
  <2>2. \A l : [item |-> j, tag |-> TagOf[l]] \in files => [item |-> j, tag |-> TagOf[l]] \in files'
    BY <1>5
  <2> QED
    BY <2>1, <2>2 DEF KeptItem, IsArchived
<1> QED
  BY <1>2, <1>3, <1>4, <1>5 DEF PubInv

\* An archive stores what it says, a deletion takes what it no longer says.
LEMMA EpisodesKept ==
    ASSUME PubInv, NEW i \in Items,
           DeleteEpisode(i) \/ \E ext \in Exts, langs \in Tracks : StoreEpisode(i, ext, langs)
    PROVE  PubInv'
<1>0. /\ remaining \in [{"rebuilds", "archives", "deletions", "exports", "moves"} -> Nat]
      /\ rows[i] # None /\ rows[i] \in ItemRow /\ UNCHANGED <<mirror, described>>
  BY DEF PubInv, Catalogs, DeleteEpisode, StoreEpisode
<1>1. CASE DeleteEpisode(i)
  <2> DEFINE e == [rows[i] EXCEPT !.state = "deleted", !.ext = None, !.tracks = {}]
  <2>1. /\ e \in ItemRow /\ e.ordinal = rows[i].ordinal /\ e.public = rows[i].public
        /\ e.state = "deleted" /\ e.xml = rows[i].xml /\ e.tracks = {}
    BY <1>0 DEF ItemRow
  <2>2. rows' = [rows EXCEPT ![i] = e] /\ UNCHANGED sidecar
    BY <1>1 DEF DeleteEpisode
  <2>3. remaining' \in [{"rebuilds", "archives", "deletions", "exports", "moves"} -> Nat]
    BY <1>0, <1>1 DEF DeleteEpisode, Spend
  <2>4. media' \in [Items -> Exts \cup {None}] /\ \A j \in Items : j # i => media'[j] = media[j]
    BY <1>1 DEF DeleteEpisode, PubInv
  <2>5. files' \subseteq Transcripts /\ \A f \in files : f.item # i => f \in files'
    BY <1>1 DEF DeleteEpisode, PubInv
  <2>6. sidecar' \subseteq Items /\ (e.xml => i \in sidecar')
    BY <1>0, <2>1, <2>2 DEF PubInv, KeptItem
  <2> HIDE DEF e
  <2> QED
    BY <1>0, <2>1, <2>2, <2>3, <2>4, <2>5, <2>6, OneRowMoves
<1>2. ASSUME NEW ext \in Exts, NEW langs \in Tracks, StoreEpisode(i, ext, langs) PROVE PubInv'
  <2> DEFINE rss == mirror.kind = "rss"
             e == [rows[i] EXCEPT !.state = "archived", !.ext = ext, !.xml = @ \/ rss, !.tracks = @ \cup langs]
  <2>1. langs \subseteq Languages
    BY PublishingAssumption
  <2>2. /\ e \in ItemRow /\ e.ordinal = rows[i].ordinal /\ e.public = rows[i].public
        /\ e.ext = ext /\ (e.xml <=> rows[i].xml \/ rss) /\ e.tracks = rows[i].tracks \cup langs
    BY <1>0, <2>1 DEF ItemRow, Exts
  <2>3. rows' = [rows EXCEPT ![i] = e] /\ sidecar' = IF rss THEN sidecar \cup {i} ELSE sidecar
    BY <1>2 DEF StoreEpisode
  <2>4. remaining' \in [{"rebuilds", "archives", "deletions", "exports", "moves"} -> Nat]
    <3>1. remaining.archives > 0 /\ remaining' = [remaining EXCEPT !["archives"] = @ - 1]
      BY <1>2 DEF StoreEpisode, Spend
    <3> QED
      BY <1>0, <3>1
  <2>5. /\ media' \in [Items -> Exts \cup {None}] /\ media'[i] = ext
        /\ \A j \in Items : j # i => media'[j] = media[j]
    BY <1>2 DEF StoreEpisode, PubInv
  <2>6. files' = files \cup {[item |-> i, tag |-> TagOf[l]] : l \in langs}
    BY <1>2 DEF StoreEpisode
  <2>7. files' \subseteq Transcripts /\ files \subseteq files'
    BY <2>1, <2>6 DEF PubInv, Transcripts, Tags
  <2>8. sidecar' \subseteq Items /\ sidecar \subseteq sidecar' /\ (e.xml => i \in sidecar')
    BY <1>0, <2>2, <2>3 DEF PubInv, KeptItem
  <2>9. \A l \in e.tracks : [item |-> i, tag |-> TagOf[l]] \in files'
    BY <1>0, <2>2, <2>6, <2>7 DEF PubInv, KeptItem
  <2> HIDE DEF e, rss
  <2> QED
    BY <1>0, <2>2, <2>3, <2>4, <2>5, <2>7, <2>8, <2>9, OneRowMoves
<1> QED
  BY <1>1, <1>2

\* A mode, a Source and an export change nothing a row says.
LEMMA MovesKept ==
    ASSUME PubInv, SetMode \/ Export \/ \E kind \in Kinds : Retarget(kind) PROVE PubInv'
<1>1. CASE SetMode
  <2>1. mirror' \in [kind : Kinds, automatic : BOOLEAN]
    <3>1. mirror' = [mirror EXCEPT !.automatic = ~mirror.automatic]
      BY <1>1 DEF SetMode
    <3>2. (~mirror.automatic) \in BOOLEAN /\ mirror \in [kind : Kinds, automatic : BOOLEAN]
      BY DEF PubInv
    <3> QED
      BY <3>1, <3>2
  <2>2. remaining' \in [{"rebuilds", "archives", "deletions", "exports", "moves"} -> Nat]
    BY <1>1 DEF SetMode, Spend, PubInv
  <2> QED
    BY <1>1, <2>1, <2>2 DEF SetMode, PubInv, KeptItem, IsArchived, Grows
<1>2. ASSUME NEW kind \in Kinds, Retarget(kind) PROVE PubInv'
  <2>1. mirror' \in [kind : Kinds, automatic : BOOLEAN]
        /\ remaining' \in [{"rebuilds", "archives", "deletions", "exports", "moves"} -> Nat]
    BY <1>2 DEF Retarget, Spend, PubInv
  <2> QED
    BY <1>2, <2>1 DEF Retarget, PubInv, KeptItem, IsArchived, Grows
<1>3. CASE Export
  <2>1. remaining' \in [{"rebuilds", "archives", "deletions", "exports", "moves"} -> Nat]
    BY <1>3 DEF Export, Spend, PubInv
  <2>2. \A i \in Items : KeptItem(i)'
    BY <1>3 DEF Export, PubInv, KeptItem, IsArchived
  <2> QED
    BY <1>3, <2>1, <2>2 DEF Export, PubInv, Grows
<1> QED
  BY <1>1, <1>2, <1>3

-----------------------------------------------------------------------------
(* A rebuild.                                                               *)

NoRows == [i \in Items |-> None]

\* What a rebuild restores from the descriptor is what the Catalog says, so no row is parked.
LEMMA UpsertedForm ==
    ASSUME PubInv, NEW old \in {rows, NoRows}
    PROVE  /\ Upserted(old) = [i \in Items |-> IF i \in Described THEN described[i] ELSE old[i]]
           /\ Upserted(old) \in Catalogs /\ Grows(Upserted(old))
           /\ \A i \in Items : Upserted(old)[i] # None => (Upserted(old)[i].xml => i \in sidecar)
<1> DEFINE u == [i \in Items |-> IF i \in Described THEN described[i] ELSE old[i]]
           numbers == {described[i].ordinal : i \in Described}
<1>1. \A i \in Described : described[i] \in ItemRow /\ rows[i] # None /\ rows[i].ordinal = described[i].ordinal
  BY DEF Described, PubInv, Catalogs, KeptItem
<1>2. \A e \in ItemRow : [e EXCEPT !.public = e.public] = e
  BY DEF ItemRow
<1>3. \A i \in Items : old[i] # None => rows[i] # None /\ old[i] = rows[i]
  BY DEF NoRows
<1>4. ASSUME NEW i \in Items, i \notin Described, old[i] # None PROVE old[i].ordinal \notin numbers
  <2>1. \A k \in Described : k # i /\ k \in Items
    BY <1>4 DEF Described
  <2> QED
    BY <1>1, <1>3, <1>4, <2>1 DEF PubInv, Grows
<1>5. Upserted(old) = u
  <2>1. Upserted(old) = [i \in Items |->
            IF i \in Described THEN [described[i] EXCEPT !.public = RestoredExt(i)]
            ELSE IF old[i] # None /\ old[i].ordinal \in numbers
                 THEN [old[i] EXCEPT !.ordinal = 0 - @] ELSE old[i]]
    BY DEF Upserted
  <2>2. \A i \in Described : [described[i] EXCEPT !.public = RestoredExt(i)] = described[i]
    BY <1>1, <1>2 DEF RestoredExt
  <2> HIDE DEF numbers
  <2> QED
    BY <1>4, <2>1, <2>2
<1>6. \A i \in Items : u[i] # None => rows[i] # None /\ u[i].ordinal = rows[i].ordinal
  BY <1>1, <1>3
<1>7. u \in Catalogs
  <2>1. old \in Catalogs
    BY DEF PubInv, NoRows, Catalogs
  <2> QED
    BY <1>1, <2>1 DEF Catalogs
<1>8. \A i \in Items : u[i] # None => (u[i].xml => i \in sidecar)
  BY <1>3 DEF PubInv, KeptItem, Described
<1>9. Grows(u)
  BY <1>6 DEF PubInv, Grows
<1> HIDE DEF u
<1>10. /\ Upserted(old) \in Catalogs /\ Grows(Upserted(old))
       /\ \A i \in Items : Upserted(old)[i] # None => (Upserted(old)[i].xml => i \in sidecar)
  BY <1>5, <1>7, <1>8, <1>9
<1> QED
  BY <1>5, <1>10 DEF u

\* Media nothing describes get the numbers after all others.
LEMMA OrphanedForm ==
    ASSUME PubInv, NEW r \in Catalogs, Grows(r), \A i \in Items : r[i] # None => (r[i].xml => i \in sidecar)
    PROVE  /\ Orphaned(r) \in Catalogs /\ Grows(Orphaned(r))
           /\ \A i \in Items : /\ r[i] # None => Orphaned(r)[i] = r[i]
                               /\ Orphaned(r)[i] # None => (Orphaned(r)[i].xml => i \in sidecar)
<1> DEFINE orphans == {i \in Items : r[i] = None /\ media[i] # None}
           number(i) == HighestOf(r) + Cardinality({j \in orphans : j <= i})
           o == Orphaned(r)
<1>1. o = [i \in Items |->
             IF i \in orphans
             THEN [NewRow(number(i), media[i]) EXCEPT !.listed = FALSE, !.xml = i \in sidecar] ELSE r[i]]
  BY DEF Orphaned
<1>2. /\ \A i \in orphans : number(i) \in Nat /\ \A j \in Items : r[j] # None => r[j].ordinal < number(i)
      /\ \A i, k \in orphans : i # k => number(i) # number(k)
  BY NewNumbers
<1>3. \A i \in orphans : i \in Items /\ r[i] = None /\ media[i] \in {"mp3", "m4a"}
  BY DEF PubInv, Exts
<1>4. \A i \in Items : r[i] # None => r[i].ordinal \in Nat
  BY DEF Catalogs, ItemRow
<1>9. \A i \in Items : i \in orphans \/ r[i] # None \/ (r[i] = None /\ i \notin orphans)
  OBVIOUS
<1> HIDE DEF orphans, number
<1>5. ASSUME NEW i \in orphans
      PROVE  o[i] \in ItemRow /\ o[i].ordinal = number(i) /\ (o[i].xml => i \in sidecar)
  <2>1. o[i] = [NewRow(number(i), media[i]) EXCEPT !.listed = FALSE, !.xml = i \in sidecar]
    BY <1>1, <1>3
  <2>2. number(i) \in Nat
    BY <1>2
  <2> DEFINE xml == i \in sidecar
  <2>3. xml \in BOOLEAN /\ FALSE \in BOOLEAN
    OBVIOUS
  <2>4. o[i] = [NewRow(number(i), media[i]) EXCEPT !.listed = FALSE, !.xml = xml]
    BY <2>1
  <2>5. xml <=> i \in sidecar
    OBVIOUS
  <2>6. NewRow(number(i), media[i]) \in ItemRow
    BY <1>3, <2>2 DEF NewRow, ItemRow
  <2> HIDE DEF xml
  <2>7. NewRow(number(i), media[i]).ordinal = number(i)
    BY DEF NewRow
  <2> DEFINE n == NewRow(number(i), media[i])
  <2> HIDE DEF n
  <2>8. o[i] \in ItemRow /\ o[i].ordinal = n.ordinal /\ (o[i].xml <=> xml)
    BY <2>3, <2>4, <2>6 DEF n, ItemRow
  <2> QED
    BY <2>5, <2>7, <2>8 DEF n
<1>6. \A i \in Items : i \notin orphans => o[i] = r[i]
  BY <1>1
<1>7. o \in Catalogs
  <2>1. DOMAIN o = Items /\ o = [i \in Items |-> o[i]]
    BY <1>1
  <2>2. \A i \in Items : o[i] \in ItemRow \cup {None}
    BY <1>5, <1>6 DEF Catalogs
  <2> HIDE DEF o
  <2> QED
    BY <2>1, <2>2 DEF Catalogs
<1> HIDE DEF o
<1>8. Grows(o)
  <2> SUFFICES ASSUME NEW i \in Items, NEW j \in Items, i # j, o[i] # None, o[j] # None
               PROVE  o[i].ordinal # o[j].ordinal
    BY DEF Grows
  <2>1. CASE i \in orphans /\ j \in orphans
    BY <1>2, <1>5, <2>1
  <2>2. CASE i \in orphans /\ j \notin orphans
    BY <1>2, <1>4, <1>5, <1>6, <2>2
  <2>3. CASE i \notin orphans /\ j \in orphans
    BY <1>2, <1>4, <1>5, <1>6, <2>3
  <2>4. CASE i \notin orphans /\ j \notin orphans
    BY <1>6, <2>4 DEF Grows
  <2> QED
    BY <2>1, <2>2, <2>3, <2>4
<1>10. \A i \in Items : /\ r[i] # None => o[i] = r[i]
                        /\ o[i] # None => (o[i].xml => i \in sidecar)
  BY <1>3, <1>5, <1>6
<1> QED
  BY <1>7, <1>8, <1>10 DEF o

\* The objects decide: what is archived has its medium, a transcript its file.
LEMMA ReconciledForm ==
    ASSUME PubInv, NEW r \in Catalogs, \A i \in Items : r[i] # None => (r[i].xml => i \in sidecar)
    PROVE  /\ Reconciled(r) \in Catalogs
           /\ \A i \in Items :
                /\ Reconciled(r)[i] # None <=> r[i] # None
                /\ r[i] # None =>
                     /\ Reconciled(r)[i].ordinal = r[i].ordinal /\ Reconciled(r)[i].public = r[i].public
                     /\ Reconciled(r)[i].ext = media[i]
                     /\ Reconciled(r)[i].xml <=> i \in sidecar
                     /\ \A l \in Reconciled(r)[i].tracks : [item |-> i, tag |-> TagOf[l]] \in files
<1> DEFINE named(i) == {l \in r[i].tracks : [item |-> i, tag |-> TagOf[l]] \in files}
           found(i) == {f.tag : f \in {g \in files : g.item = i}} \ {TagOf[l] : l \in r[i].tracks}
           tracks(i) == named(i) \cup {l \in Languages : l \in found(i)}
           status(i) == IF media[i] # None THEN "archived" ELSE IF r[i].state = "archived" THEN "wanted" ELSE r[i].state
           c == Reconciled(r)
<1>1. c = [i \in Items |->
             IF r[i] = None THEN None
             ELSE [r[i] EXCEPT !.state = status(i), !.ext = media[i], !.xml = i \in sidecar \/ @,
                               !.tracks = tracks(i)]]
  BY DEF Reconciled
<1>2. ASSUME NEW i \in Items, r[i] # None, NEW l \in tracks(i)
      PROVE  l \in Languages /\ [item |-> i, tag |-> TagOf[l]] \in files
  <2>1. CASE l \in named(i)
    BY <1>2, <2>1 DEF Catalogs, ItemRow
  <2>2. CASE l \in Languages /\ l \in found(i)
    <3>1. PICK f \in files : f.item = i /\ f.tag = l
      BY <2>2
    <3>2. f \in Transcripts
      BY DEF PubInv
    <3>3. f = [item |-> i, tag |-> l] /\ l \in Tags
      BY <3>1, <3>2 DEF Transcripts
    <3>4. PICK k \in Languages : l = TagOf[k]
      BY <3>3 DEF Tags
    <3>5. TagOf[l] = l
      BY <2>2, <3>4, PublishingAssumption
    <3> QED
      BY <2>2, <3>3, <3>5
  <2> QED
    BY <1>2, <2>1, <2>2
<1>3. \A i \in Items : r[i] # None => tracks(i) \subseteq Languages
  BY <1>2
<1>4. \A i \in Items : media[i] \in {"mp3", "m4a", None}
  BY DEF PubInv, Exts
<1>5. \A i \in Items : r[i] # None => r[i] \in ItemRow
  BY DEF Catalogs
<1> HIDE DEF tracks
<1>6. ASSUME NEW i \in Items, r[i] # None
      PROVE  /\ c[i] \in ItemRow /\ c[i].ordinal = r[i].ordinal /\ c[i].public = r[i].public
             /\ c[i].ext = media[i] /\ (c[i].xml <=> i \in sidecar) /\ c[i].tracks = tracks(i)
  <2>1. c[i] = [r[i] EXCEPT !.state = status(i), !.ext = media[i], !.xml = i \in sidecar \/ @,
                            !.tracks = tracks(i)]
    BY <1>1, <1>6
  <2>2. r[i] \in ItemRow /\ status(i) \in {"available", "wanted", "archived", "deleted"}
    BY <1>5, <1>6 DEF ItemRow
  <2>3. tracks(i) \in SUBSET Languages
    BY <1>3, <1>6
  <2> HIDE DEF status, c
  <2>4. /\ c[i] \in ItemRow /\ c[i].ordinal = r[i].ordinal /\ c[i].public = r[i].public
        /\ c[i].ext = media[i] /\ c[i].tracks = tracks(i)
    BY <1>4, <2>1, <2>2, <2>3 DEF ItemRow
  <2>5. c[i].xml <=> i \in sidecar \/ r[i].xml
    BY <2>1, <2>2 DEF ItemRow
  <2> QED
    BY <1>6, <2>4, <2>5
<1>7. \A i \in Items : r[i] = None => c[i] = None
  BY <1>1
<1>8. DOMAIN c = Items /\ c = [i \in Items |-> c[i]]
  BY <1>1
<1> HIDE DEF c
<1>9. c \in Catalogs
  BY <1>6, <1>7, <1>8 DEF Catalogs
<1>10. \A i \in Items : c[i] # None <=> r[i] # None
  BY <1>6, <1>7, PublishingAssumption
<1> QED
  BY <1>2, <1>6, <1>9, <1>10 DEF c

\* Both at once.
LEMMA RebuiltForm ==
    ASSUME PubInv, NEW lost \in BOOLEAN, NEW yes \in BOOLEAN, RebuildFeed(lost, yes)
    PROVE  /\ rows' \in Catalogs /\ Grows(rows')
           /\ \A i \in Items :
                /\ rows'[i] # None => /\ rows'[i].ext = media[i] /\ (rows'[i].xml <=> i \in sidecar)
                                     /\ \A l \in rows'[i].tracks : [item |-> i, tag |-> TagOf[l]] \in files
                /\ i \in Described => /\ rows'[i] # None /\ rows'[i].ordinal = described[i].ordinal
                                       /\ rows'[i].public = described[i].public
<1> DEFINE old == IF lost THEN [i \in Items |-> None] ELSE rows
           u == Upserted(old)
           o == Orphaned(u)
           c == Reconciled(o)
<1>1. rows' = [i \in Items |-> IF yes /\ i \notin Described /\ media[i] = None THEN None ELSE c[i]]
  BY DEF RebuildFeed
<1>2. old \in {rows, NoRows}
  BY DEF NoRows
<1>d. \A i \in Described : i \in Items /\ described[i] # None
  BY DEF Described
<1> HIDE DEF old
<1>3. /\ u \in Catalogs /\ Grows(u) /\ \A i \in Items : u[i] # None => (u[i].xml => i \in sidecar)
      /\ \A i \in Described : u[i] = described[i]
  BY <1>2, <1>d, UpsertedForm
<1> HIDE DEF u
<1>4. /\ o \in Catalogs /\ Grows(o)
      /\ \A i \in Items : /\ u[i] # None => o[i] = u[i]
                          /\ o[i] # None => (o[i].xml => i \in sidecar)
  BY <1>3, OrphanedForm
<1> HIDE DEF o
<1>5. /\ c \in Catalogs
      /\ \A i \in Items :
           /\ c[i] # None <=> o[i] # None
           /\ o[i] # None =>
                /\ c[i].ordinal = o[i].ordinal /\ c[i].public = o[i].public
                /\ c[i].ext = media[i] /\ (c[i].xml <=> i \in sidecar)
                /\ \A l \in c[i].tracks : [item |-> i, tag |-> TagOf[l]] \in files
  BY <1>4, ReconciledForm
<1> HIDE DEF c
<1>6. \A i \in Items : rows'[i] # None => rows'[i] = c[i] /\ c[i] # None
  BY <1>1
<1>7. rows' \in Catalogs
  BY <1>1, <1>5 DEF Catalogs
<1>8. Grows(rows')
  BY <1>4, <1>5, <1>6 DEF Grows
<1>9. \A i \in Described : rows'[i] = c[i] /\ o[i] = described[i] /\ o[i] # None
  BY <1>1, <1>3, <1>4, <1>d
<1> QED
  BY <1>5, <1>6, <1>7, <1>8, <1>9, <1>d

\* A rebuild keeps it too.
LEMMA RebuildKept ==
    ASSUME PubInv, NEW lost \in BOOLEAN, NEW yes \in BOOLEAN, RebuildFeed(lost, yes) PROVE PubInv'
<1>1. UNCHANGED <<mirror, media, files, sidecar, described>>
  BY DEF RebuildFeed
<1>2. remaining' \in [{"rebuilds", "archives", "deletions", "exports", "moves"} -> Nat]
  BY DEF RebuildFeed, Spend, PubInv
<1>3. ASSUME NEW i \in Items PROVE KeptItem(i)'
  <2>1. described[i] # None => i \in Described /\ (described[i].xml => i \in sidecar)
    BY DEF Described, PubInv, KeptItem
  <2>2. IsArchived(i)' => rows'[i] # None
    BY DEF IsArchived
  <2> QED
    BY <1>1, <2>1, <2>2, RebuiltForm DEF KeptItem
<1> QED
  BY <1>1, <1>2, <1>3, RebuiltForm DEF PubInv

\* Every step keeps the invariant.
LEMMA PubKept == PubInv /\ [PubNext]_pubVars => PubInv'
<1> SUFFICES ASSUME PubInv, [PubNext]_pubVars PROVE PubInv'
  OBVIOUS
<1>1. CASE UNCHANGED pubVars
  BY <1>1 DEF pubVars, PubInv, Grows, KeptItem, IsArchived
<1> QED
  BY <1>1, ListKept, EpisodesKept, MovesKept, RebuildKept DEF PubNext

\* What is rendered opens.
LEMMA PubOpens == PubInv => WhatIsListedOpens
<1> SUFFICES ASSUME PubInv PROVE WhatIsListedOpens
  OBVIOUS
<1>1. \A i, j \in Present : i # j => rows[i].ordinal # rows[j].ordinal
  BY DEF PubInv, Grows, Present
<1>2. ASSUME NEW i \in Items, Rendered(i) PROVE Opens(i, rows[i].public)
  BY <1>2 DEF PubInv, KeptItem, Rendered, Opens, IsArchived, ArchivedOnDemand
<1>3. ASSUME NEW i \in Items, IsArchived(i), NEW l \in rows[i].tracks,
             ~\E k \in rows[i].tracks \ {l} : TagOf[k] = TagOf[l]
      PROVE  OpensTrack(i, TagOf[l])
  <2>1. {k \in rows[i].tracks : TagOf[k] = TagOf[l]} = {l}
    BY <1>3
  <2>2. Cardinality({l}) = 1
    BY FS_Singleton
  <2>3. rows[i] # None /\ [item |-> i, tag |-> TagOf[l]] \in files
    BY <1>3 DEF PubInv, KeptItem, IsArchived
  <2> QED
    BY <2>1, <2>2, <2>3 DEF OpensTrack
<1> QED
  BY <1>1, <1>2, <1>3 DEF WhatIsListedOpens

\* A step keeps who an item is.
LEMMA PubStands ==
    ASSUME PubInv, PubInv', [PubNext]_pubVars, NEW i \in Items, rows[i] # None, rows'[i] # None,
           remaining'.rebuilds # remaining.rebuilds => i \in Described
    PROVE  /\ rows'[i].ordinal = rows[i].ordinal /\ rows'[i].public = rows[i].public
           /\ rows[i].xml => rows'[i].xml
<1>0. rows[i] \in ItemRow
  BY DEF PubInv, Catalogs
<1>1. ASSUME NEW S \in SUBSET Items, NEW live \in SUBSET Streams, NEW partial \in BOOLEAN, List(S, live, partial)
      PROVE  SameEpisode(i)
  BY <1>1, ListForm DEF ListedAs
<1>2. ASSUME NEW j \in Items, DeleteEpisode(j) \/ \E ext \in Exts, langs \in Tracks : StoreEpisode(j, ext, langs)
      PROVE  /\ rows'[i].ordinal = rows[i].ordinal /\ rows'[i].public = rows[i].public
             /\ rows[i].xml => rows'[i].xml
  <2>0. rows[j] # None => rows[j] \in ItemRow
    BY DEF PubInv, Catalogs
  <2>1. CASE DeleteEpisode(j)
    <3> DEFINE e == [rows[j] EXCEPT !.state = "deleted", !.ext = None, !.tracks = {}]
    <3>1. rows[j] # None /\ rows' = [rows EXCEPT ![j] = e]
      BY <2>1 DEF DeleteEpisode
    <3>2. e.ordinal = rows[j].ordinal /\ e.public = rows[j].public /\ (e.xml <=> rows[j].xml)
      BY <2>0, <3>1 DEF ItemRow
    <3> HIDE DEF e
    <3>3. rows'[i] = IF i = j THEN e ELSE rows[i]
      BY <3>1 DEF PubInv, Catalogs
    <3> QED
      BY <3>2, <3>3
  <2>2. ASSUME NEW ext \in Exts, NEW langs \in Tracks, StoreEpisode(j, ext, langs)
        PROVE  /\ rows'[i].ordinal = rows[i].ordinal /\ rows'[i].public = rows[i].public
               /\ rows[i].xml => rows'[i].xml
    <3> DEFINE rss == mirror.kind = "rss"
               e == [rows[j] EXCEPT !.state = "archived", !.ext = ext, !.xml = @ \/ rss, !.tracks = @ \cup langs]
    <3>1. rows[j] # None /\ rows' = [rows EXCEPT ![j] = e]
      BY <2>2 DEF StoreEpisode
    <3>2. e.ordinal = rows[j].ordinal /\ e.public = rows[j].public /\ (rows[j].xml => e.xml)
      <4> DEFINE r == rows[j]
                 xml == r.xml \/ rss
      <4>1. r \in ItemRow
        BY <2>0, <3>1
      <4>a. xml \in BOOLEAN
        OBVIOUS
      <4>b. r.xml => xml
        OBVIOUS
      <4>2. e = [r EXCEPT !.state = "archived", !.ext = ext, !.xml = xml, !.tracks = @ \cup langs]
        OBVIOUS
      <4> HIDE DEF r, xml, e
      <4>3. e.ordinal = r.ordinal /\ e.public = r.public /\ (e.xml <=> xml)
        BY <4>1, <4>a, <4>2 DEF ItemRow
      <4> QED
        BY <4>b, <4>3 DEF r
    <3> HIDE DEF e
    <3>3. rows'[i] = IF i = j THEN e ELSE rows[i]
      BY <3>1 DEF PubInv, Catalogs
    <3> QED
      BY <3>2, <3>3
  <2> QED
    BY <1>2, <2>1, <2>2
<1>3. ASSUME SetMode \/ Export \/ \E kind \in Kinds : Retarget(kind) PROVE rows' = rows
  BY <1>3 DEF SetMode, Export, Retarget
<1>4. ASSUME NEW lost \in BOOLEAN, NEW yes \in BOOLEAN, RebuildFeed(lost, yes)
      PROVE  /\ rows'[i].ordinal = rows[i].ordinal /\ rows'[i].public = rows[i].public
             /\ rows[i].xml => rows'[i].xml
  <2>1. remaining.rebuilds \in Nat /\ remaining'.rebuilds = remaining.rebuilds - 1
    BY <1>4 DEF RebuildFeed, Spend, PubInv
  <2>2. i \in Described /\ rows[i].ordinal = described[i].ordinal /\ rows[i].public = described[i].public
        /\ (rows[i].xml => i \in sidecar)
    BY <2>1 DEF PubInv, KeptItem, Described
  <2> QED
    BY <1>4, <2>2, RebuiltForm
<1>5. CASE UNCHANGED pubVars
  BY <1>5 DEF pubVars
<1> QED
  BY <1>1, <1>2, <1>3, <1>4, <1>5 DEF PubNext, SameEpisode

\* What IdentityStands says of a step.
LEMMA PubIdentity ==
    ASSUME PubInv, PubInv', [PubNext]_pubVars
    PROVE  \A i \in Items :
             rows[i] # None /\ rows'[i] # None /\ (remaining'.rebuilds # remaining.rebuilds => i \in Described) =>
               /\ Entry(i)'.number = Entry(i).number /\ Entry(i)'.ext = Entry(i).ext
               /\ Guid(i) = "source" /\ mirror'.kind = mirror.kind => Guid(i)' = "source"
<1> SUFFICES ASSUME NEW i \in Items, rows[i] # None, rows'[i] # None,
                    remaining'.rebuilds # remaining.rebuilds => i \in Described
             PROVE  /\ Entry(i)'.number = Entry(i).number /\ Entry(i)'.ext = Entry(i).ext
                    /\ Guid(i) = "source" /\ mirror'.kind = mirror.kind => Guid(i)' = "source"
  OBVIOUS
<1> QED
  BY PubStands DEF Entry, Guid

-----------------------------------------------------------------------------
(* Events: what a stream still owes its client.                             *)

Envelopes == [ev : Nat, ids : [Views -> Nat]]
Numbers == Nat \cup {NoNumber}
ViewRows == [on : BOOLEAN, next : Nat, buf : Seq(Envelopes)]
Subscriptions == [open : BOOLEAN, closed : BOOLEAN, queue : Seq(Envelopes)]
ClientRows == [watch : Views, reloads : BOOLEAN, last : Numbers, run : Nat, seen : SUBSET Nat,
               early : BOOLEAN, valid : BOOLEAN]
EventTypes ==
    /\ sent \in Seq(Owners \cup {NoOwner}) /\ wire \in Seq(Nat) /\ \A k \in DOMAIN wire : wire[k] \in DOMAIN sent
    /\ hub \in [run : Nat, listening : BOOLEAN, ever : BOOLEAN]
    /\ view \in [Views -> ViewRows] /\ sub \in [Streamers -> Subscriptions] /\ client \in [Streamers -> ClientRows]

\* A buffer holds the latest events of its view, numbered up to the next number.
Oldest(w) == w.next - Len(w.buf)
Buffered(v, w) ==
    /\ Oldest(w) >= 1
    /\ \A k \in 1 .. Len(w.buf) : w.buf[k].ids[v] = Oldest(w) + k - 1

\* What is queued is numbered on, but for a resync at its head, up to the next number
\* while the stream is not full, and is what the buffer has under these numbers.
Consecutive(v, q) ==
    /\ \A k \in 2 .. Len(q) : q[k].ids[v] = q[2].ids[v] + k - 2
    /\ Len(q) >= 2 /\ q[1].ev # Resync => q[2].ids[v] = q[1].ids[v] + 1
Agrees(v, w, envelope) == \A j \in 1 .. Len(w.buf) : w.buf[j].ids[v] = envelope.ids[v] => w.buf[j].ev = envelope.ev
Queued(v, w, s) ==
    /\ Consecutive(v, s.queue)
    /\ \A k \in 1 .. Len(s.queue) : s.queue[k].ids[v] < w.next
    /\ ~s.closed /\ s.queue # <<>> => s.queue[Len(s.queue)].ids[v] = w.next - 1
    /\ \A k \in 1 .. Len(s.queue) : k > 1 \/ s.queue[k].ev # Resync => Agrees(v, w, s.queue[k])

\* A client whose numbers are of this process: a gap at the head of its queue is one.
Aware(k, w, s) == ~k.reloads => /\ k.last < w.next
                                /\ s.open /\ s.queue # <<>> /\ ~Agrees(k.watch, w, s.queue[1]) => k.last + 1 < Oldest(w)
Known(k, w, s) == (s.open \/ k.last # NoNumber => w.on /\ (~k.early => hub.ever)) /\ Aware(k, w, s)

\* The last number of a client, or queued for it.
Tip(k, s) == IF s.queue # <<>> /\ s.queue[Len(s.queue)].ids[k.watch] > k.last
             THEN s.queue[Len(s.queue)].ids[k.watch] ELSE k.last
InQueue(k, s, e) == \E n \in 1 .. Len(s.queue) :
    s.queue[n].ev \in {e, Resync} /\ (k.reloads \/ s.queue[n].ids[k.watch] > k.last)
Replayable(k, w, s, e) ==
    \/ Tip(k, s) + 1 < Oldest(w)
    \/ \E j \in 1 .. Len(w.buf) : w.buf[j].ids[k.watch] > Tip(k, s) /\ w.buf[j].ev \in {e, Resync}
OnWire(e) == \E n \in 1 .. Len(wire) : wire[n] = e

\* Every change a client is due is queued, on the wire, or replayed when it asks again.
Owed(k, w, s) ==
    (IF k.reloads THEN s.open /\ ~s.closed ELSE s.open \/ k.last # NoNumber) /\ ~k.early =>
        \A e \in DOMAIN sent \ k.seen : Sees(k.watch, e) =>
            \/ s.open /\ InQueue(k, s, e)
            \/ OnWire(e)
            \/ ~hub.listening
            \/ ~(s.open /\ ~s.closed) /\ Replayable(k, w, s, e)

ClientSound(k, w, s) ==
    /\ s.open => w.on /\ Queued(k.watch, w, s)
    /\ ~s.open => s.queue = <<>>
    /\ k.run <= hub.run
    /\ k.run = hub.run => Known(k, w, s) /\ Owed(k, w, s)

EventInv ==
    /\ EventTypes
    /\ view[All].on /\ (hub.listening => hub.ever)
    /\ \A v \in Views : Buffered(v, view[v])
    /\ \A c \in Streamers : ClientSound(client[c], view[client[c].watch], sub[c])

\* What publishing makes of a view.
Stamped(w, x) == [on |-> TRUE, next |-> w.next + 1, buf |-> Kept(Append(w.buf, x))]

LEMMA BufferGrows ==
    ASSUME NEW v \in Views, NEW w \in ViewRows, Buffered(v, w), NEW x \in Envelopes, x.ids[v] = w.next
    PROVE  LET u == Stamped(w, x) IN
           /\ u \in ViewRows /\ Buffered(v, u) /\ u.on /\ u.next = w.next + 1
           /\ Len(u.buf) >= 1 /\ u.buf[Len(u.buf)] = x
           /\ \E d \in {0, 1} : /\ Len(u.buf) = Len(w.buf) + 1 - d /\ Oldest(u) = Oldest(w) + d
                                /\ \A j \in 1 .. Len(u.buf) - 1 : j + d \in 1 .. Len(w.buf) /\ u.buf[j] = w.buf[j + d]
<1> DEFINE b == w.buf
           a == Append(b, x)
           u == Stamped(w, x)
<1>1. b \in Seq(Envelopes) /\ w.next \in Nat /\ Len(b) \in Nat
  BY DEF ViewRows
<1>2. /\ a \in Seq(Envelopes) /\ a # <<>> /\ Len(a) = Len(b) + 1
      /\ \A i \in 1 .. Len(b) : a[i] = b[i]
      /\ a[Len(b) + 1] = x
  BY <1>1, AppendProperties
<1>3. /\ Tail(a) \in Seq(Envelopes) /\ Len(Tail(a)) = Len(a) - 1
      /\ \A i \in 1 .. Len(Tail(a)) : Tail(a)[i] = a[i + 1]
  BY <1>2, HeadTailProperties
<1>4. u.on = TRUE /\ u.next = w.next + 1 /\ u.buf = Kept(a) /\ u = [on |-> TRUE, next |-> w.next + 1, buf |-> Kept(a)]
  BY DEF Stamped
<1>5. BufferSize \in Nat \ {0}
  BY EventsAssumption DEF EventsAssumption
<1>b. Oldest(w) = w.next - Len(b) /\ Oldest(w) >= 1 /\ \A k \in 1 .. Len(b) : b[k].ids[v] = Oldest(w) + k - 1
  BY DEF Buffered, Oldest
<1> HIDE DEF b, a, u
<1>6. PICK d \in {0, 1} : /\ Kept(a) \in Seq(Envelopes) /\ Len(Kept(a)) = Len(a) - d /\ Len(Kept(a)) >= 1
                          /\ \A i \in 1 .. Len(Kept(a)) : Kept(a)[i] = a[i + d]
  <2>1. CASE Len(a) > BufferSize
    BY <1>1, <1>2, <1>3, <1>5, <2>1 DEF Kept
  <2>2. CASE ~(Len(a) > BufferSize)
    BY <1>1, <1>2, <2>2 DEF Kept
  <2> QED
    BY <2>1, <2>2
<1> DEFINE c == Kept(a)
<1> HIDE DEF c
<1>7. /\ u.buf = c /\ c \in Seq(Envelopes) /\ Len(c) = Len(b) + 1 - d /\ Len(c) >= 1 /\ Len(c) \in Nat
      /\ \A i \in 1 .. Len(c) : c[i] = a[i + d]
  BY <1>1, <1>2, <1>4, <1>6 DEF c
<1>8. c[Len(c)] = x /\ \A j \in 1 .. Len(c) - 1 : j + d \in 1 .. Len(b) /\ c[j] = b[j + d]
  <2>1. d = 0 \/ d = 1
    OBVIOUS
  <2>2. Len(c) \in 1 .. Len(c) /\ Len(c) + d = Len(b) + 1
    BY <1>1, <1>7, <2>1
  <2>3. c[Len(c)] = x
    BY <1>2, <1>7, <2>2
  <2>4. ASSUME NEW j \in 1 .. Len(c) - 1 PROVE j + d \in 1 .. Len(b) /\ c[j] = b[j + d]
    <3>1. j \in 1 .. Len(c) /\ j + d \in 1 .. Len(b)
      BY <1>1, <1>7, <2>1
    <3> QED
      BY <1>2, <1>7, <3>1
  <2> QED
    BY <2>3, <2>4
<1>9. Oldest(u) = Oldest(w) + d /\ Oldest(u) >= 1 /\ Oldest(u) \in Nat
  BY <1>1, <1>4, <1>7, <1>b DEF Oldest
<1>10. \A k \in 1 .. Len(c) : c[k].ids[v] = Oldest(u) + k - 1
  <2> TAKE k \in 1 .. Len(c)
  <2>1. CASE k = Len(c)
    <3>1. Oldest(u) + k - 1 = w.next
      BY <1>1, <1>7, <1>9, <1>b, <2>1
    <3> QED
      BY <1>8, <2>1, <3>1
  <2>2. CASE k # Len(c)
    <3>1. k \in 1 .. Len(c) - 1
      BY <1>7, <2>2
    <3>2. k + d \in 1 .. Len(b) /\ c[k] = b[k + d]
      BY <1>8, <3>1
    <3>3. b[k + d].ids[v] = Oldest(w) + (k + d) - 1
      BY <1>b, <3>2
    <3>4. Oldest(w) \in Int
      BY <1>1, <1>b
    <3> QED
      BY <1>9, <3>2, <3>3, <3>4
  <2> QED
    BY <2>1, <2>2
<1>11. Buffered(v, u)
  BY <1>7, <1>9, <1>10 DEF Buffered
<1>12. u \in ViewRows
  BY <1>1, <1>4, <1>7 DEF ViewRows, c
<1> QED
  BY <1>4, <1>7, <1>8, <1>9, <1>11, <1>12 DEF b, u

\* The numbers of an envelope and what a later view has of it.
LEMMA AgreesStill ==
    ASSUME NEW v \in Views, NEW w \in ViewRows, Buffered(v, w), NEW x \in Envelopes, x.ids[v] = w.next,
           NEW y \in Envelopes
    PROVE  /\ Agrees(v, w, y) /\ y.ids[v] < w.next => Agrees(v, Stamped(w, x), y)
           /\ Agrees(v, Stamped(w, x), x)
<1> DEFINE u == Stamped(w, x)
<1>1. PICK d \in {0, 1} : /\ Len(u.buf) = Len(w.buf) + 1 - d /\ Oldest(u) = Oldest(w) + d
                          /\ \A j \in 1 .. Len(u.buf) - 1 : j + d \in 1 .. Len(w.buf) /\ u.buf[j] = w.buf[j + d]
  BY BufferGrows
<1>2. Len(u.buf) >= 1 /\ u.buf[Len(u.buf)] = x /\ Len(u.buf) \in Nat /\ u \in ViewRows
  BY BufferGrows DEF ViewRows
<1>3. \A j \in 1 .. Len(w.buf) : w.buf[j].ids[v] < w.next
  BY DEF Buffered, Oldest, ViewRows
<1> HIDE DEF u
<1>4. \A j \in 1 .. Len(u.buf) : j = Len(u.buf) \/ j \in 1 .. Len(u.buf) - 1
  BY <1>2
<1>5. ASSUME NEW j \in 1 .. Len(u.buf), j # Len(u.buf) PROVE u.buf[j] = w.buf[j + d] /\ j + d \in 1 .. Len(w.buf)
  BY <1>1, <1>4, <1>5
<1> HIDE DEF Buffered
<1>7. w.next \in Nat
  BY DEF ViewRows
<1>6. ASSUME Agrees(v, w, y), y.ids[v] < w.next PROVE Agrees(v, u, y)
  <2>1. y.ids[v] # w.next
    BY <1>6, <1>7 DEF Envelopes
  <2> QED
    BY <1>2, <1>4, <1>5, <1>6, <2>1 DEF Agrees
<1>8. Agrees(v, u, x)
  BY SMTT(30), <1>2, <1>3, <1>4, <1>5, <1>7 DEF Agrees
<1> QED
  BY <1>6, <1>8 DEF u

\* What the hub offers a stream of this view; the queue keeps its order.
LEMMA QueueGrows ==
    ASSUME NEW v \in Views, NEW w \in ViewRows, Buffered(v, w), NEW x \in Envelopes, x.ids[v] = w.next,
           NEW s \in Subscriptions, s.open, Queued(v, w, s)
    PROVE  /\ Offer(s, x) \in Subscriptions /\ Offer(s, x).open
           /\ Queued(v, Stamped(w, x), Offer(s, x))
           /\ s.closed => Offer(s, x) = s
           /\ \/ Offer(s, x).closed /\ Offer(s, x).queue = s.queue
              \/ ~Offer(s, x).closed /\ Offer(s, x).queue = Append(s.queue, x)
<1> DEFINE q == s.queue
           a == Append(q, x)
           u == Stamped(w, x)
<1>1. q \in Seq(Envelopes) /\ Len(q) \in Nat /\ w.next \in Nat
  BY DEF Subscriptions, ViewRows
<1>2. /\ a \in Seq(Envelopes) /\ a # <<>> /\ Len(a) = Len(q) + 1
      /\ \A i \in 1 .. Len(q) : a[i] = q[i]
      /\ a[Len(q) + 1] = x
  BY <1>1, AppendProperties
<1>3. u.next = w.next + 1
  BY DEF Stamped
<1>4. /\ Consecutive(v, q)
      /\ \A k \in 1 .. Len(q) : q[k].ids[v] < w.next
      /\ ~s.closed /\ q # <<>> => q[Len(q)].ids[v] = w.next - 1
      /\ \A k \in 1 .. Len(q) : k > 1 \/ q[k].ev # Resync => Agrees(v, w, q[k])
  BY DEF Queued
<1>5. \A k \in 1 .. Len(q) : q[k] \in Envelopes /\ q[k].ids[v] \in Nat
  <2> TAKE k \in 1 .. Len(q)
  <2>1. q[k] \in Envelopes
    BY <1>1, ElementOfSeq
  <2> QED
    BY <2>1 DEF Envelopes
<1>6. /\ \A k \in 1 .. Len(q) : q[k].ids[v] < u.next
      /\ \A k \in 1 .. Len(q) : k > 1 \/ q[k].ev # Resync => Agrees(v, u, q[k])
  BY <1>1, <1>3, <1>4, <1>5, AgreesStill
<1>7. Agrees(v, u, x)
  BY AgreesStill
<1> DEFINE n == Len(q)
           m == Len(a)
<1>n. n \in Nat /\ m = n + 1 /\ n = Len(q) /\ m = Len(a)
  BY <1>1, <1>2
<1> HIDE DEF q, a, u, n, m
<1>8. CASE s.closed
  <2>1. Offer(s, x) = s
    BY <1>8 DEF Offer
  <2>2. Queued(v, u, s)
    BY <1>4, <1>6, <1>8 DEF Queued, q
  <2> QED
    BY <1>8, <2>1, <2>2 DEF u
<1>9. CASE ~s.closed /\ Len(q) = QueueSize
  <2>1. /\ Offer(s, x) \in Subscriptions /\ Offer(s, x).open
        /\ Offer(s, x).closed /\ Offer(s, x).queue = q
    BY <1>9 DEF Offer, Subscriptions, q
  <2>2. Queued(v, u, Offer(s, x))
    BY <1>4, <1>6, <2>1 DEF Queued
  <2> QED
    BY <1>9, <2>1, <2>2 DEF u, q
<1>10. CASE ~s.closed /\ Len(q) # QueueSize
  <2>1. Offer(s, x) = [s EXCEPT !.queue = a]
    BY <1>10 DEF Offer, q, a
  <2>2. /\ Offer(s, x) \in Subscriptions /\ Offer(s, x).open /\ Offer(s, x).queue = a
        /\ ~Offer(s, x).closed
    BY <1>2, <1>10, <2>1 DEF Subscriptions
  <2>n. /\ \A i \in 1 .. n : a[i] = q[i] /\ q[i].ids[v] \in Nat
        /\ a[n + 1] = x
        /\ \A i \in 2 .. n : q[i].ids[v] = q[2].ids[v] + i - 2
        /\ n >= 2 /\ q[1].ev # Resync => q[2].ids[v] = q[1].ids[v] + 1
    BY <1>2, <1>4, <1>5, <1>n DEF Consecutive
  <2>3. n >= 1 => q[n].ids[v] = w.next - 1
    <3>1. n >= 1 => q # <<>>
      BY <1>1, <1>n, EmptySeq
    <3> QED
      BY <1>4, <1>10, <1>n, <3>1
  <2>4. Consecutive(v, a)
    <3>1. ASSUME NEW k \in 2 .. m PROVE a[k].ids[v] = a[2].ids[v] + k - 2
      <4>1. CASE k \in 2 .. n
        <5>1. k \in 1 .. n /\ 2 \in 1 .. n
          BY <1>n, <4>1
        <5> QED
          BY <2>n, <4>1, <5>1
      <4>2. CASE k = n + 1 /\ k = 2
        <5>1. a[k] = x /\ a[2] = x
          BY <2>n, <4>2
        <5> QED
          BY <1>1, <4>2, <5>1
      <4>3. CASE k = n + 1 /\ k # 2
        <5>1. n \in 2 .. n /\ 2 \in 1 .. n /\ n >= 1
          BY <1>n, <4>3
        <5>2. q[n].ids[v] = q[2].ids[v] + n - 2 /\ q[n].ids[v] = w.next - 1
          BY <2>n, <2>3, <5>1
        <5>3. a[k] = x /\ a[2] = q[2] /\ q[2].ids[v] \in Nat
          BY <2>n, <4>3, <5>1
        <5>4. a[k].ids[v] = w.next /\ a[2].ids[v] = q[2].ids[v]
          BY <5>3
        <5> QED
          BY SMTT(30), <1>1, <1>n, <4>3, <5>2, <5>3, <5>4
      <4> QED
        BY <1>n, <4>1, <4>2, <4>3
    <3>2. ASSUME m >= 2, a[1].ev # Resync PROVE a[2].ids[v] = a[1].ids[v] + 1
      <4>1. CASE n = 1
        <5>1. a[1] = q[1] /\ a[2] = x /\ q[1].ids[v] \in Nat
          BY <2>n, <4>1
        <5> QED
          BY <1>1, <2>3, <4>1, <5>1
      <4>2. CASE n >= 2
        <5>1. a[1] = q[1] /\ a[2] = q[2]
          BY <1>n, <2>n, <4>2
        <5> QED
          BY <2>n, <3>2, <4>2, <5>1
      <4>3. n = 1 \/ n >= 2
        BY <1>n, <3>2
      <4> QED
        BY <4>1, <4>2, <4>3
    <3> QED
      BY <1>n, <3>1, <3>2 DEF Consecutive
  <2>5. \A k \in 1 .. m : k \in 1 .. n \/ (k = n + 1 /\ a[k] = x)
    BY <1>n, <2>n
  <2>6. \A k \in 1 .. m : a[k].ids[v] < u.next
    BY <1>1, <1>3, <1>6, <1>n, <2>n, <2>5
  <2>7. \A k \in 1 .. m : k > 1 \/ a[k].ev # Resync => Agrees(v, u, a[k])
    BY <1>6, <1>7, <1>n, <2>n, <2>5
  <2>8. a[m].ids[v] = u.next - 1
    BY <1>1, <1>3, <1>n, <2>n
  <2>9. Queued(v, u, Offer(s, x))
    BY <1>n, <2>2, <2>4, <2>6, <2>7, <2>8 DEF Queued
  <2> QED
    BY <1>10, <2>2, <2>9 DEF a, q, u
<1> QED
  BY <1>8, <1>9, <1>10

\* What could be replayed still can be, and what is published now can be.
LEMMA StillReplayable ==
    ASSUME NEW k \in ClientRows, NEW w \in ViewRows, Buffered(k.watch, w), NEW x \in Envelopes,
           x.ids[k.watch] = w.next, NEW s \in Subscriptions, NEW e,
           Replayable(k, w, s, e) \/ (Tip(k, s) < w.next /\ x.ev \in {e, Resync})
    PROVE  Replayable(k, Stamped(w, x), s, e)
<1> DEFINE u == Stamped(w, x)
           v == k.watch
           t == Tip(k, s)
<1>0. v \in Views /\ w.next \in Nat /\ Len(w.buf) \in Nat /\ w.buf \in Seq(Envelopes)
  BY DEF ClientRows, ViewRows
<1>1. PICK d \in {0, 1} : /\ Len(u.buf) = Len(w.buf) + 1 - d /\ Oldest(u) = Oldest(w) + d
                          /\ \A j \in 1 .. Len(u.buf) - 1 : j + d \in 1 .. Len(w.buf) /\ u.buf[j] = w.buf[j + d]
  BY <1>0, BufferGrows
<1>2. Len(u.buf) >= 1 /\ u.buf[Len(u.buf)] = x
  BY <1>0, BufferGrows
<1>3. t \in Int
  <2>1. k.last \in Int
    BY DEF ClientRows, Numbers, NoNumber
  <2>2. s.queue \in Seq(Envelopes)
    BY DEF Subscriptions
  <2>3. s.queue # <<>> => s.queue[Len(s.queue)] \in Envelopes
    BY <2>2, LenProperties, ElementOfSeq
  <2> QED
    BY <1>0, <2>1, <2>3 DEF Tip, Envelopes
<1>4. Oldest(w) = w.next - Len(w.buf) /\ \A j \in 1 .. Len(w.buf) : w.buf[j].ids[v] = Oldest(w) + j - 1
  BY DEF Buffered, Oldest
<1> HIDE DEF u, t, Buffered
<1>5. CASE t + 1 < Oldest(w)
  BY <1>0, <1>1, <1>3, <1>4, <1>5 DEF Replayable, t, u
<1>6. ASSUME NEW j \in 1 .. Len(w.buf), w.buf[j].ids[v] > t, w.buf[j].ev \in {e, Resync}
      PROVE  Replayable(k, u, s, e)
  <2>1. CASE j - d \in 1 .. Len(u.buf) - 1
    <3>1. u.buf[j - d] = w.buf[(j - d) + d] /\ (j - d) + d = j /\ j - d \in 1 .. Len(u.buf)
      BY <1>0, <1>1, <2>1
    <3> QED
      BY <1>6, <3>1 DEF Replayable, t, v
  <2>2. CASE j - d \notin 1 .. Len(u.buf) - 1
    <3>1. d = 1 /\ j = 1
      BY <1>0, <1>1, <2>2
    <3>2. t + 1 < Oldest(u)
      BY <1>0, <1>1, <1>3, <1>4, <1>6, <3>1
    <3> QED
      BY <3>2 DEF Replayable, t
  <2> QED
    BY <2>1, <2>2
<1>7. CASE t < w.next /\ x.ev \in {e, Resync}
  <2> DEFINE j == Len(u.buf)
  <2>1. j \in 1 .. Len(u.buf)
    BY <1>0, <1>1, <1>2
  <2>2. u.buf[j].ids[v] > t /\ u.buf[j].ev \in {e, Resync}
    BY <1>0, <1>2, <1>3, <1>7 DEF v
  <2> HIDE DEF j
  <2>3. \E i \in 1 .. Len(u.buf) : u.buf[i].ids[v] > t /\ u.buf[i].ev \in {e, Resync}
    BY <2>1, <2>2
  <2> QED
    BY <2>3 DEF Replayable, t, v, u
<1> QED
  BY <1>5, <1>6, <1>7 DEF Replayable, t, u, v

\* What one client is owed, while x is published in its view.
LEMMA OfferKept ==
    ASSUME NEW k \in ClientRows, NEW w \in ViewRows, Buffered(k.watch, w), NEW x \in Envelopes,
           x.ids[k.watch] = w.next, NEW s \in Subscriptions, s.open => Queued(k.watch, w, s),
           ~s.open => s.queue = <<>>, ~k.reloads => k.last < w.next, NEW t, NEW e,
           t = IF s.open THEN Offer(s, x) ELSE s
    PROVE  /\ s.open /\ InQueue(k, s, e) => t.open /\ InQueue(k, t, e)
           /\ ~(s.open /\ ~s.closed) /\ Replayable(k, w, s, e) =>
                 ~(t.open /\ ~t.closed) /\ Replayable(k, Stamped(w, x), t, e)
           /\ x.ev \in {e, Resync} /\ (IF k.reloads THEN t.open /\ ~t.closed ELSE TRUE) =>
                 \/ t.open /\ InQueue(k, t, e)
                 \/ ~(t.open /\ ~t.closed) /\ Replayable(k, Stamped(w, x), t, e)
<1> DEFINE v == k.watch
           q == s.queue
           n == Len(q)
<1>1. /\ v \in Views /\ q \in Seq(Envelopes) /\ n \in Nat /\ w.next \in Nat /\ k.reloads \in BOOLEAN
      /\ s.open \in BOOLEAN /\ s.closed \in BOOLEAN
  BY DEF ClientRows, ViewRows, Subscriptions
<1>2. s.open => /\ t.open
                /\ s.closed => t = s
                /\ \/ t.closed /\ t.queue = q
                   \/ ~t.closed /\ t.queue = Append(q, x)
  BY <1>1, QueueGrows
<1>3. ~s.open => t = s
  OBVIOUS
<1>4. /\ Len(Append(q, x)) = n + 1 /\ Append(q, x)[n + 1] = x
      /\ \A i \in 1 .. n : Append(q, x)[i] = q[i]
  BY <1>1, AppendProperties
<1>5. ~k.reloads => Tip(k, s) < w.next
  <2>1. CASE q = <<>>
    BY <2>1 DEF Tip
  <2>2. CASE q # <<>>
    <3>1. n \in 1 .. n
      BY <1>1, <2>2, LenProperties
    <3>2. s.open /\ q[n].ids[v] < w.next
      BY <2>2, <3>1 DEF Queued
    <3> QED
      BY <3>2 DEF Tip
  <2> QED
    BY <2>1, <2>2
<1>6. Tip(k, s) < w.next /\ x.ev \in {e, Resync} => Replayable(k, Stamped(w, x), s, e)
  BY StillReplayable
<1>7. Replayable(k, w, s, e) => Replayable(k, Stamped(w, x), s, e)
  BY StillReplayable
<1> DEFINE a == Append(q, x)
<1>8. ASSUME ~t.closed, t.queue = a, x.ev \in {e, Resync} PROVE InQueue(k, t, e)
  <2>1. n + 1 \in 1 .. Len(t.queue)
    BY <1>1, <1>4, <1>8
  <2>2. t.queue[n + 1] = x
    BY <1>4, <1>8
  <2>3. k.reloads \/ x.ids[v] > k.last
    <3>1. k.last \in Int
      BY DEF ClientRows, Numbers, NoNumber
    <3> QED
      BY <1>1, <3>1
  <2> QED
    BY <1>8, <2>1, <2>2, <2>3 DEF InQueue
<1>9. ASSUME t.queue = a, InQueue(k, s, e) PROVE InQueue(k, t, e)
  <2>1. PICK i \in 1 .. n : q[i].ev \in {e, Resync} /\ (k.reloads \/ q[i].ids[v] > k.last)
    BY <1>9 DEF InQueue
  <2>2. i \in 1 .. Len(t.queue) /\ t.queue[i] = q[i]
    BY <1>1, <1>4, <1>9, <2>1
  <2> HIDE DEF q, n, a
  <2> QED
    BY <2>1, <2>2 DEF InQueue
<1>10. t.queue = q /\ t.open = s.open => (InQueue(k, s, e) <=> InQueue(k, t, e)) /\ Tip(k, s) = Tip(k, t)
  BY DEF InQueue, Tip
<1>11. t.queue = q => (Replayable(k, Stamped(w, x), s, e) <=> Replayable(k, Stamped(w, x), t, e))
  BY DEF Replayable, Tip
<1> HIDE DEF a, q, n, v
<1>12. CASE ~s.open
  BY ZenonT(30), <1>3, <1>5, <1>6, <1>7, <1>12 
<1>13. CASE s.open /\ s.closed
  <2>1. t = s
    BY <1>2, <1>13
  <2> QED
    BY ZenonT(30), <1>5, <1>6, <1>7, <1>13, <2>1
<1>14. CASE s.open /\ ~s.closed /\ t.closed /\ t.queue = q
  <2>1. t.open = TRUE /\ s.open = TRUE
    BY <1>1, <1>2, <1>14, <1>13 DEF q
  <2> QED
    BY ZenonT(30), <1>5, <1>6, <1>10, <1>11, <1>14, <2>1
<1>15. CASE s.open /\ ~s.closed /\ ~t.closed /\ t.queue = a
  BY ZenonT(30), <1>2, <1>8, <1>9, <1>15
<1> QED
  BY <1>1, <1>2, <1>12, <1>13, <1>14, <1>15 DEF a

\* A replay gap at the head of a queue is still one.
LEMMA GapKept ==
    ASSUME NEW v \in Views, NEW w \in ViewRows, Buffered(v, w), NEW x \in Envelopes, x.ids[v] = w.next,
           NEW s \in Subscriptions, s.open, Queued(v, w, s), NEW last \in Numbers,
           s.queue # <<>> /\ ~Agrees(v, w, s.queue[1]) => last + 1 < Oldest(w)
    PROVE  LET t == Offer(s, x) IN
           t.queue # <<>> /\ ~Agrees(v, Stamped(w, x), t.queue[1]) => last + 1 < Oldest(Stamped(w, x))
<1> DEFINE t == Offer(s, x)
           q == s.queue
           u == Stamped(w, x)
<1>1. Oldest(u) >= Oldest(w) /\ Oldest(w) \in Int /\ Oldest(u) \in Int /\ last \in Int
  <2>1. PICK d \in {0, 1} : Oldest(u) = Oldest(w) + d
    BY BufferGrows
  <2>2. Oldest(w) \in Int
    BY DEF Oldest, ViewRows
  <2>3. last \in Int
    BY DEF Numbers, NoNumber
  <2> QED
    BY <2>1, <2>2, <2>3
<1>2. q \in Seq(Envelopes)
  BY DEF Subscriptions
<1>3. t.queue = q \/ t.queue = Append(q, x)
  BY QueueGrows
<1>4. Agrees(v, u, x)
  BY AgreesStill
<1>5. CASE q = <<>>
  <2>1. Append(q, x)[1] = x
    BY <1>2, <1>5, AppendProperties, EmptySeq
  <2> HIDE DEF q, t, u
  <2> QED
    BY <1>3, <1>4, <1>5, <2>1 DEF t, u
<1>6. CASE q # <<>>
  <2>1. 1 \in 1 .. Len(q) /\ q[1] \in Envelopes
    BY <1>2, <1>6, LenProperties, ElementOfSeq
  <2>2. t.queue[1] = q[1]
    BY <1>2, <1>3, <2>1, AppendProperties
  <2>3. q[1].ids[v] < w.next
    BY <2>1 DEF Queued
  <2>4. Agrees(v, w, q[1]) => Agrees(v, u, q[1])
    BY <2>1, <2>3, AgreesStill
  <2> HIDE DEF q, t, u
  <2>5. ~Agrees(v, u, t.queue[1]) => last + 1 < Oldest(w)
    BY <1>6, <2>2, <2>4 DEF q
  <2>6. ~Agrees(v, u, t.queue[1]) => last + 1 < Oldest(u)
    BY <1>1, <2>5
  <2> QED
    BY <2>6 DEF t, u
<1> QED
  BY <1>5, <1>6

\* The envelope of an event, in the views it belongs to.
LEMMA EnvelopeForm ==
    ASSUME EventTypes, NEW e \in {Resync} \cup DOMAIN sent
    PROVE  /\ Envelope(e) \in Envelopes /\ Envelope(e).ev = e
           /\ \A v \in ViewsOf(e) : v \in Views /\ Envelope(e).ids[v] = view[v].next
<1>1. e \in Nat
  BY DEF EventTypes, Resync
<1>2. \A v \in Views : view[v].next \in Nat
  BY DEF EventTypes, ViewRows
<1>3. ViewsOf(e) \subseteq Views
  BY DEF ViewsOf, Views
<1> QED
  BY <1>1, <1>2, <1>3 DEF Envelope, Envelopes

\* What publishing means for one view.
LEMMA PublishMoves ==
    ASSUME EventTypes, NEW e \in {Resync} \cup DOMAIN sent, Publish(e), NEW v \in Views
    PROVE  view'[v] = IF v \in ViewsOf(e) THEN Stamped(view[v], Envelope(e)) ELSE view[v]
BY DEF Publish, Stamped, EventTypes, ViewRows

\* Publishing, seen by one client.
LEMMA PublishOffers ==
    ASSUME EventTypes, NEW e \in {Resync} \cup DOMAIN sent, Publish(e), NEW c \in Streamers,
           NEW k, k = client[c], NEW w, w = view[k.watch], NEW s, s = sub[c], Buffered(k.watch, w),
           s.open => w.on /\ Queued(k.watch, w, s), ~s.open => s.queue = <<>>,
           NEW u, u = view'[k.watch], NEW t, t = sub'[c]
    PROVE  /\ u \in ViewRows /\ t \in Subscriptions /\ Buffered(k.watch, u)
           /\ w.on => u.on
           /\ t.open <=> s.open
           /\ s.open /\ s.closed => t.closed
           /\ t.open => Queued(k.watch, u, t)
           /\ ~t.open => t.queue = <<>>
           /\ Aware(k, w, s) => Aware(k, u, t)
           /\ Aware(k, w, s) => \A f \in DOMAIN sent :
                /\ s.open /\ InQueue(k, s, f) => t.open /\ InQueue(k, t, f)
                /\ ~(s.open /\ ~s.closed) /\ Replayable(k, w, s, f) => ~(t.open /\ ~t.closed) /\ Replayable(k, u, t, f)
                /\ e \in {f, Resync} /\ Sees(k.watch, e) /\ w.on /\ (IF k.reloads THEN t.open /\ ~t.closed ELSE TRUE) =>
                      \/ t.open /\ InQueue(k, t, f)
                      \/ ~(t.open /\ ~t.closed) /\ Replayable(k, u, t, f)
<1> DEFINE v == k.watch
           x == Envelope(e)
<1>1. v \in Views /\ k \in ClientRows /\ w \in ViewRows /\ s \in Subscriptions /\ k.reloads \in BOOLEAN
  BY DEF EventTypes, ClientRows
<1>2. x \in Envelopes /\ x.ev = e
  BY EnvelopeForm
<1>3. u = IF v \in ViewsOf(e) THEN Stamped(w, x) ELSE w
  BY <1>1, PublishMoves
<1>4. t = IF s.open /\ Sees(v, e) THEN Offer(s, x) ELSE s
  BY DEF Publish, EventTypes
<1>5. v \in ViewsOf(e) => Sees(v, e) /\ x.ids[v] = w.next
  BY EnvelopeForm DEF ViewsOf, Sees
<1>6. v \notin ViewsOf(e) => ~(w.on /\ Sees(v, e))
  BY <1>1 DEF ViewsOf, Sees, Views
<1>7. CASE v \in ViewsOf(e)
  <2>1. u = Stamped(w, x) /\ x.ids[v] = w.next /\ t = IF s.open THEN Offer(s, x) ELSE s
    BY <1>3, <1>4, <1>5, <1>7
  <2> HIDE DEF x
  <2>2. u \in ViewRows /\ Buffered(v, u) /\ u.on /\ u.next = w.next + 1
    BY <1>1, <1>2, <2>1, BufferGrows
  <2>3. s.open => t \in Subscriptions /\ t.open /\ Queued(v, u, t) /\ (s.closed => t = s)
    BY <1>1, <1>2, <2>1, QueueGrows
  <2>4. ~s.open => t = s
    BY <2>1
  <2>5. s.open \in BOOLEAN /\ t.open \in BOOLEAN /\ t \in Subscriptions
    BY <1>1, <2>3, <2>4 DEF Subscriptions
  <2>6. Aware(k, w, s) => Aware(k, u, t)
    <3>1. k.last \in Numbers /\ k.last \in Int /\ w.next \in Nat
      BY <1>1 DEF ClientRows, Numbers, NoNumber, ViewRows
    <3>2. ASSUME Aware(k, w, s), ~k.reloads, t.open, t.queue # <<>>, ~Agrees(v, u, t.queue[1])
          PROVE  k.last + 1 < Oldest(u)
      <4>1. s.open /\ t = Offer(s, x)
        BY <2>1, <2>4, <3>2
      <4>2. s.queue # <<>> /\ ~Agrees(v, w, s.queue[1]) => k.last + 1 < Oldest(w)
        BY <3>2, <4>1 DEF Aware
      <4> QED
        BY <1>1, <1>2, <2>1, <3>1, <3>2, <4>1, <4>2, GapKept
    <3>3. Aware(k, w, s) /\ ~k.reloads => k.last < u.next
      BY <2>2, <3>1 DEF Aware
    <3> QED
      BY <3>2, <3>3 DEF Aware
  <2>7. ASSUME Aware(k, w, s), NEW f \in DOMAIN sent
        PROVE  /\ s.open /\ InQueue(k, s, f) => t.open /\ InQueue(k, t, f)
               /\ ~(s.open /\ ~s.closed) /\ Replayable(k, w, s, f) => ~(t.open /\ ~t.closed) /\ Replayable(k, u, t, f)
               /\ e \in {f, Resync} /\ (IF k.reloads THEN t.open /\ ~t.closed ELSE TRUE) =>
                      \/ t.open /\ InQueue(k, t, f)
                      \/ ~(t.open /\ ~t.closed) /\ Replayable(k, u, t, f)
    <3>1. ~k.reloads => k.last < w.next
      BY <2>7 DEF Aware
    <3> QED
      BY <1>1, <1>2, <2>1, <3>1, OfferKept
  <2> QED
    BY <2>2, <2>3, <2>4, <2>5, <2>6, <2>7
<1>8. CASE v \notin ViewsOf(e)
  <2>1. u = w /\ t = s
    BY <1>3, <1>4, <1>6, <1>8
  <2> QED
    BY <1>1, <1>6, <1>8, <2>1
<1> QED
  BY <1>7, <1>8

LEMMA EventBegins == EventInit => EventInv
<1> SUFFICES ASSUME EventInit PROVE EventInv
  OBVIOUS
<1>1. All \in Views /\ BufferSize \in Nat /\ Watched \subseteq Views
  BY EventsAssumption DEF EventsAssumption, Views
<1>2. \A v \in Views : view[v] \in ViewRows /\ view[v].next = 1 /\ view[v].buf = <<>> /\ (v = All => view[v].on)
  BY EmptySeq DEF EventInit, StartedViews, NoView, ViewRows
<1>3. view \in [Views -> ViewRows]
  BY EmptySeq DEF EventInit, StartedViews, NoView, ViewRows
<1>4. \A v \in Views : Buffered(v, view[v])
  BY <1>2, EmptySeq DEF Buffered, Oldest
<1>5. \A c \in Streamers : sub[c] = NoSub /\ client[c] \in ClientStarts
  BY DEF EventInit
<1>6. sub \in [Streamers -> Subscriptions]
  BY EmptySeq DEF EventInit, NoSub, Subscriptions
<1>7. ClientStarts \subseteq ClientRows
  <2> SUFFICES ASSUME NEW k \in ClientStarts PROVE k \in ClientRows
    OBVIOUS
  <2>1. k = [watch |-> k.watch, reloads |-> k.reloads, last |-> k.last, run |-> k.run, seen |-> k.seen,
             early |-> k.early, valid |-> k.valid]
    BY DEF ClientStarts
  <2>2. /\ k.watch \in Views /\ k.reloads \in BOOLEAN /\ k.last \in Numbers /\ k.run \in Nat
        /\ k.seen \in SUBSET Nat /\ k.early \in BOOLEAN /\ k.valid \in BOOLEAN
    <3>1. k.watch \in Watched /\ k.last = NoNumber /\ k.run = 1 /\ k.seen = {}
      BY DEF ClientStarts
    <3>2. k.reloads \in BOOLEAN /\ k.early \in BOOLEAN /\ k.valid \in BOOLEAN
      BY DEF ClientStarts
    <3> QED
      BY <1>1, <3>1, <3>2 DEF Numbers
  <2> QED
    BY <2>1, <2>2 DEF ClientRows
<1>8. EventTypes
  <2>1. client \in [Streamers -> ClientRows]
    BY <1>7 DEF EventInit
  <2>2. sent \in Seq(Owners \cup {NoOwner}) /\ wire \in Seq(Nat) /\ \A n \in DOMAIN wire : wire[n] \in DOMAIN sent
    BY EmptySeq DEF EventInit
  <2>3. hub \in [run : Nat, listening : BOOLEAN, ever : BOOLEAN]
    BY DEF EventInit
  <2> QED
    BY <1>3, <1>6, <2>1, <2>2, <2>3 DEF EventTypes
<1>9. ASSUME NEW c \in Streamers PROVE ClientSound(client[c], view[client[c].watch], sub[c])
  <2>1. /\ sub[c].open = FALSE /\ sub[c].queue = <<>> /\ client[c].last = NoNumber /\ client[c].run = 1 /\ hub.run = 1
        /\ client[c].watch \in Views
    BY <1>1, <1>5 DEF NoSub, ClientStarts, EventInit
  <2>2. client[c].last < view[client[c].watch].next
    BY <1>2, <2>1 DEF NoNumber
  <2> QED
    BY <2>1, <2>2 DEF ClientSound, Known, Aware, Owed
<1> QED
  BY <1>1, <1>2, <1>4, <1>8, <1>9 DEF EventInv, EventInit

\* What is published reaches everybody it is for; afterwards the wire and the connection may
\* fail to bring what they brought, if it was that.
LEMMA PublishKept ==
    ASSUME EventInv, NEW e \in {Resync} \cup DOMAIN sent, Publish(e), UNCHANGED <<sent, client>>,
           wire' \in Seq(Nat), \A n \in DOMAIN wire' : wire'[n] \in DOMAIN sent,
           hub' \in [run : Nat, listening : BOOLEAN, ever : BOOLEAN], hub'.run = hub.run,
           hub.ever => hub'.ever, hub'.listening => hub'.ever,
           \A f \in DOMAIN sent : OnWire(f) => f = e \/ OnWire(f)',
           hub.listening \/ e = Resync \/ ~hub'.listening
    PROVE  EventInv'
<1> DEFINE W(c) == view[client[c].watch]
           U(c) == view'[client[c].watch]
<1>0. EventTypes /\ client \in [Streamers -> ClientRows] /\ All \in Views
  BY DEF EventInv, EventTypes, Views
<1>1. ASSUME NEW v \in Views PROVE view'[v] \in ViewRows /\ Buffered(v, view'[v]) /\ (view[v].on => view'[v].on)
  <2>1. view[v] \in ViewRows /\ Buffered(v, view[v]) /\ Envelope(e) \in Envelopes
    BY <1>0, EnvelopeForm DEF EventInv, EventTypes
  <2>2. view'[v] = IF v \in ViewsOf(e) THEN Stamped(view[v], Envelope(e)) ELSE view[v]
    BY <1>0, PublishMoves
  <2>3. v \in ViewsOf(e) => Envelope(e).ids[v] = view[v].next
    BY <1>0, EnvelopeForm
  <2> QED
    BY <2>1, <2>2, <2>3, BufferGrows
<1>2. ASSUME NEW c \in Streamers
      PROVE  sub'[c] \in Subscriptions /\ ClientSound(client[c], W(c), sub[c])'
  <2> DEFINE k == client[c]
             w == W(c)
             s == sub[c]
             u == U(c)
             t == sub'[c]
  <2>1. k.watch \in Views /\ ClientSound(k, w, s) /\ Buffered(k.watch, w)
    BY <1>0 DEF EventInv, ClientRows
  <2>2. (s.open => w.on /\ Queued(k.watch, w, s)) /\ (~s.open => s.queue = <<>>) /\ k.run <= hub.run
        /\ (k.run = hub.run => Known(k, w, s) /\ Owed(k, w, s))
    BY <2>1 DEF ClientSound
  <2> HIDE DEF k, w, s, u, t
  <2>3. /\ t \in Subscriptions
        /\ w.on => u.on
        /\ t.open <=> s.open
        /\ s.open /\ s.closed => t.closed
        /\ t.open => Queued(k.watch, u, t)
        /\ ~t.open => t.queue = <<>>
        /\ Aware(k, w, s) => Aware(k, u, t)
        /\ Aware(k, w, s) => \A f \in DOMAIN sent :
                /\ s.open /\ InQueue(k, s, f) => t.open /\ InQueue(k, t, f)
                /\ ~(s.open /\ ~s.closed) /\ Replayable(k, w, s, f) => ~(t.open /\ ~t.closed) /\ Replayable(k, u, t, f)
                /\ e \in {f, Resync} /\ Sees(k.watch, e) /\ w.on /\ (IF k.reloads THEN t.open /\ ~t.closed ELSE TRUE) =>
                      \/ t.open /\ InQueue(k, t, f)
                      \/ ~(t.open /\ ~t.closed) /\ Replayable(k, u, t, f)
    BY <1>0, <2>1, <2>2, PublishOffers DEF k, w, s, u, t
  <2>4. ASSUME k.run = hub.run PROVE Aware(k, u, t)
    BY <2>2, <2>3, <2>4 DEF Known
  <2>5. ASSUME k.run = hub.run, t.open \/ k.last # NoNumber PROVE u.on /\ (~k.early => hub'.ever)
    BY <2>2, <2>3, <2>5 DEF Known
  <2>6. ASSUME k.run = hub.run, IF k.reloads THEN t.open /\ ~t.closed ELSE t.open \/ k.last # NoNumber, ~k.early,
               NEW f \in DOMAIN sent \ k.seen, Sees(k.watch, f)
        PROVE  \/ t.open /\ InQueue(k, t, f)
               \/ OnWire(f)'
               \/ ~hub'.listening
               \/ ~(t.open /\ ~t.closed) /\ Replayable(k, u, t, f)
    <3>1. /\ \/ s.open /\ InQueue(k, s, f)
             \/ OnWire(f)
             \/ ~hub.listening
             \/ ~(s.open /\ ~s.closed) /\ Replayable(k, w, s, f)
          /\ w.on /\ Aware(k, w, s)
      <4>1. IF k.reloads THEN s.open /\ ~s.closed ELSE s.open \/ k.last # NoNumber
        BY <2>3, <2>6
      <4>2. Known(k, w, s) /\ Owed(k, w, s)
        BY <2>2, <2>6
      <4> QED
        BY <2>6, <4>1, <4>2 DEF Known, Owed
    <3>2. Sees(k.watch, e) \/ e # f
      BY <2>6
    <3>3. e = Resync => Sees(k.watch, e)
      BY DEF Sees
    <3> QED
      BY <2>3, <2>6, <3>1, <3>2, <3>3
  <2>7. ClientSound(client[c], view[client[c].watch], sub[c])'
    <3>1. client'[c] = k /\ view'[client'[c].watch] = u /\ sub'[c] = t
      BY DEF k, u, t
    <3>2. k.run = hub.run => Known(client[c], view[client[c].watch], sub[c])'
      BY <2>4, <2>5, <3>1 DEF Known
    <3>3. k.run = hub.run => Owed(client[c], view[client[c].watch], sub[c])'
      BY <2>6, <3>1 DEF Owed, Sees
    <3> QED
      BY <2>2, <2>3, <3>1, <3>2, <3>3 DEF ClientSound
  <2> QED
    BY <2>3, <2>7 DEF k, u, t
<1>3. EventTypes'
  <2>1. view' \in [Views -> ViewRows]
    BY <1>0, <1>1 DEF Publish
  <2>2. sub' \in [Streamers -> Subscriptions]
    BY <1>0, <1>2 DEF Publish
  <2> HIDE DEF W, U
  <2> QED
    BY <1>0, <2>1, <2>2 DEF EventTypes
<1>4. view'[All].on
  BY <1>0, <1>1 DEF EventInv
<1> QED
  BY <1>1, <1>2, <1>3, <1>4 DEF EventInv

\* What happens to no stream and no view.
LEMMA HubMoves ==
    ASSUME EventInv, UNCHANGED <<view, sub, client>>,
           sent' \in Seq(Owners \cup {NoOwner}), wire' \in Seq(Nat), \A n \in DOMAIN wire' : wire'[n] \in DOMAIN sent',
           hub' \in [run : Nat, listening : BOOLEAN, ever : BOOLEAN], hub'.run = hub.run,
           hub.ever => hub'.ever, hub'.listening => hub'.ever, DOMAIN sent \subseteq DOMAIN sent',
           \A f \in DOMAIN sent : sent'[f] = sent[f],
           hub.ever => \A f \in DOMAIN sent' :
                           OnWire(f)' \/ ~hub'.listening \/ (f \in DOMAIN sent /\ ~OnWire(f) /\ hub.listening)
    PROVE  EventInv'
<1>1. EventTypes'
  BY DEF EventInv, EventTypes
<1>2. ASSUME NEW c \in Streamers PROVE ClientSound(client[c], view[client[c].watch], sub[c])'
  <2> DEFINE k == client[c]
             w == view[k.watch]
             s == sub[c]
  <2>1. ClientSound(k, w, s)
    BY DEF EventInv
  <2> HIDE DEF k, w, s
  <2>2. client'[c] = k /\ view'[client'[c].watch] = w /\ sub'[c] = s
    BY DEF k, w, s
  <2>3. ASSUME k.run = hub.run PROVE Known(k, w, s) /\ Owed(k, w, s)
    BY <2>1, <2>3 DEF ClientSound
  <2>4. k.run = hub.run => Known(client[c], view[client[c].watch], sub[c])'
    BY <2>2, <2>3 DEF Known
  <2>5. ASSUME k.run = hub.run, IF k.reloads THEN s.open /\ ~s.closed ELSE s.open \/ k.last # NoNumber, ~k.early,
               NEW f \in DOMAIN sent' \ k.seen, f = Resync \/ k.watch = All \/ sent'[f] = k.watch
        PROVE  \/ s.open /\ InQueue(k, s, f)
               \/ OnWire(f)'
               \/ ~hub'.listening
               \/ ~(s.open /\ ~s.closed) /\ Replayable(k, w, s, f)
    <3>1. hub.ever
      BY <2>3, <2>5 DEF Known
    <3>2. f \in DOMAIN sent => Sees(k.watch, f)
      BY <2>5 DEF Sees
    <3>3. Owed(k, w, s)
      BY <2>3, <2>5
    <3> QED
      BY <2>5, <3>1, <3>2, <3>3 DEF Owed
  <2>6. k.run = hub.run => Owed(client[c], view[client[c].watch], sub[c])'
    BY <2>2, <2>5 DEF Owed, Sees
  <2> QED
    BY <2>1, <2>2, <2>4, <2>6 DEF ClientSound
<1> QED
  BY <1>1, <1>2 DEF EventInv

LEMMA AnnounceKept == ASSUME EventInv, NEW o \in Owners \cup {NoOwner}, Announce(o) PROVE EventInv'
<1> DEFINE n == Len(sent) + 1
<1>1. sent \in Seq(Owners \cup {NoOwner}) /\ wire \in Seq(Nat) /\ n \in Nat /\ DOMAIN sent = 1 .. Len(sent)
      /\ DOMAIN wire = 1 .. Len(wire) /\ Len(wire) \in Nat /\ \A i \in DOMAIN wire : wire[i] \in DOMAIN sent
  BY DEF EventInv, EventTypes
<1>2. sent' = Append(sent, o) /\ UNCHANGED <<hub, view, sub, client>>
  BY DEF Announce
<1>3. /\ sent' \in Seq(Owners \cup {NoOwner}) /\ DOMAIN sent' = 1 .. n
      /\ \A i \in 1 .. Len(sent) : sent'[i] = sent[i]
  BY <1>1, <1>2, AppendProperties
<1>4. CASE hub.listening
  <2>1. wire' = Append(wire, n)
    BY <1>4 DEF Announce
  <2>2. /\ wire' \in Seq(Nat) /\ Len(wire') = Len(wire) + 1 /\ wire'[Len(wire) + 1] = n
        /\ \A i \in 1 .. Len(wire) : wire'[i] = wire[i]
    BY <1>1, <2>1, AppendProperties
  <2> HIDE DEF n
  <2>3. \A i \in DOMAIN wire' : wire'[i] \in DOMAIN sent'
    <3>1. \A i \in DOMAIN wire' : i \in 1 .. Len(wire) \/ i = Len(wire) + 1
      BY <1>1, <2>2
    <3>2. DOMAIN sent \subseteq DOMAIN sent' /\ n \in DOMAIN sent'
      BY <1>1, <1>3 DEF n
    <3> QED
      BY <1>1, <2>2, <3>1, <3>2
  <2>4. \A f : f = n => OnWire(f)'
    <3>1. Len(wire) + 1 \in 1 .. Len(wire')
      BY <1>1, <2>2
    <3> QED
      BY <2>2, <3>1 DEF OnWire
  <2>5. ASSUME NEW f, OnWire(f) PROVE OnWire(f)'
    <3>1. PICK i \in 1 .. Len(wire) : wire[i] = f
      BY <2>5 DEF OnWire
    <3>2. i \in 1 .. Len(wire') /\ wire'[i] = f
      BY <1>1, <2>2, <3>1
    <3> QED
      BY <3>2 DEF OnWire
  <2>6. \A f \in DOMAIN sent' : f \in DOMAIN sent \/ f = n
    BY <1>1, <1>3 DEF n
  <2>7. DOMAIN sent \subseteq DOMAIN sent'
    BY <1>1, <1>3 DEF n
  <2>8. \A f \in DOMAIN sent' : OnWire(f)' \/ (f \in DOMAIN sent /\ ~OnWire(f) /\ hub.listening)
    BY <1>4, <2>4, <2>5, <2>6
  <2>9. hub' \in [run : Nat, listening : BOOLEAN, ever : BOOLEAN] /\ (hub'.listening => hub'.ever)
    BY <1>2 DEF EventInv, EventTypes
  <2> QED
    BY <1>1, <1>2, <1>3, <2>2, <2>3, <2>7, <2>8, <2>9, HubMoves
<1>5. CASE ~hub.listening
  <2>1. wire' = wire
    BY <1>5 DEF Announce
  <2>2. DOMAIN sent \subseteq DOMAIN sent'
    BY <1>1, <1>3
  <2>3. hub' \in [run : Nat, listening : BOOLEAN, ever : BOOLEAN] /\ (hub'.listening => hub'.ever)
    BY <1>2 DEF EventInv, EventTypes
  <2> HIDE DEF n
  <2> QED
    BY <1>1, <1>2, <1>3, <1>5, <2>1, <2>2, <2>3, HubMoves
<1> QED
  BY <1>4, <1>5

LEMMA HandleKept == ASSUME EventInv, Handle PROVE EventInv'
<1> DEFINE e == Head(wire)
<1>1. wire \in Seq(Nat) /\ wire # <<>> /\ wire' = Tail(wire) /\ Publish(e) /\ UNCHANGED <<sent, hub, client>>
      /\ \A i \in 1 .. Len(wire) : wire[i] \in DOMAIN sent
  BY DEF EventInv, EventTypes, Handle
<1>2. /\ Len(wire') = Len(wire) - 1 /\ wire' \in Seq(Nat) /\ e = wire[1] /\ Len(wire) \in Nat /\ Len(wire) >= 1
      /\ \A i \in 1 .. Len(wire') : wire'[i] = wire[i + 1]
  BY <1>1, HeadTailProperties, LenProperties
<1> HIDE DEF e
<1>3. e \in DOMAIN sent
  BY <1>1, <1>2
<1>4. \A i \in DOMAIN wire' : wire'[i] \in DOMAIN sent
  BY <1>1, <1>2
<1>5. ASSUME NEW f, OnWire(f), f # e PROVE OnWire(f)'
  <2>1. PICK i \in 1 .. Len(wire) : wire[i] = f
    BY <1>5 DEF OnWire
  <2>2. i - 1 \in 1 .. Len(wire') /\ wire'[i - 1] = f
    BY <1>2, <1>5, <2>1
  <2> QED
    BY <2>2 DEF OnWire
<1>6. hub' \in [run : Nat, listening : BOOLEAN, ever : BOOLEAN] /\ (hub'.listening => hub'.ever)
  BY <1>1 DEF EventInv, EventTypes
<1>7. ASSUME ~hub.listening PROVE ~hub'.listening
  BY <1>1, <1>7
<1> QED
  BY <1>1, <1>2, <1>3, <1>4, <1>5, <1>6, <1>7, PublishKept

LEMMA ListenKept == ASSUME EventInv, Listen PROVE EventInv'
<1>1. hub \in [run : Nat, listening : BOOLEAN, ever : BOOLEAN] /\ wire \in Seq(Nat)
      /\ sent \in Seq(Owners \cup {NoOwner}) /\ \A i \in DOMAIN wire : wire[i] \in DOMAIN sent
  BY DEF EventInv, EventTypes
<1>2. /\ hub' = [hub EXCEPT !.listening = TRUE, !.ever = TRUE] /\ ~hub.listening
      /\ UNCHANGED <<sent, wire, client>>
  BY DEF Listen
<1>3. hub' \in [run : Nat, listening : BOOLEAN, ever : BOOLEAN] /\ hub'.ever /\ hub'.run = hub.run
  BY <1>1, <1>2
<1>4. CASE hub.ever
  <2>1. Publish(Resync)
    BY <1>4 DEF Listen
  <2>2. \A f \in DOMAIN sent : OnWire(f) => OnWire(f)'
    BY <1>2 DEF OnWire
  <2> QED
    BY <1>1, <1>2, <1>3, <2>1, <2>2, PublishKept
<1>5. CASE ~hub.ever
  <2>1. UNCHANGED <<view, sub>>
    BY <1>5 DEF Listen
  <2> QED
    BY <1>1, <1>2, <1>3, <1>5, <2>1, HubMoves
<1> QED
  BY <1>4, <1>5

LEMMA DropKept == ASSUME EventInv, Drop PROVE EventInv'
<1>1. /\ hub' = [hub EXCEPT !.listening = FALSE] /\ wire' = <<>> /\ UNCHANGED <<sent, view, sub, client>>
      /\ hub \in [run : Nat, listening : BOOLEAN, ever : BOOLEAN] /\ sent \in Seq(Owners \cup {NoOwner})
  BY DEF Drop, EventInv, EventTypes
<1>2. wire' \in Seq(Nat) /\ \A i \in DOMAIN wire' : wire'[i] \in DOMAIN sent'
  BY <1>1, EmptySeq
<1>3. /\ hub' \in [run : Nat, listening : BOOLEAN, ever : BOOLEAN] /\ hub'.run = hub.run
      /\ hub.ever => hub'.ever
      /\ hub'.listening = FALSE
  BY <1>1
<1> QED
  BY <1>1, <1>2, <1>3, HubMoves

\* A new process knows nobody's numbers.
LEMMA HubRestartKept == ASSUME EventInv, HubRestarts PROVE EventInv'
<1>1. /\ hub' = [run |-> hub.run + 1, listening |-> FALSE, ever |-> FALSE] /\ wire' = <<>> /\ view' = StartedViews
      /\ sub' = [c \in Streamers |-> NoSub] /\ UNCHANGED <<sent, client>> /\ hub.run \in Nat
      /\ sent \in Seq(Owners \cup {NoOwner}) /\ client \in [Streamers -> ClientRows]
  BY DEF HubRestarts, EventInv, EventTypes
<1>2. All \in Views
  BY DEF Views
<1>3. \A v \in Views : view'[v].next = 1 /\ view'[v].buf = <<>> /\ (v = All => view'[v].on)
  BY <1>1 DEF StartedViews, NoView
<1>4. view' \in [Views -> ViewRows]
  BY <1>1, EmptySeq DEF StartedViews, NoView, ViewRows
<1>5. \A v \in Views : Buffered(v, view'[v])
  BY <1>3, EmptySeq DEF Buffered, Oldest
<1>6. sub' \in [Streamers -> Subscriptions]
  BY <1>1, EmptySeq DEF NoSub, Subscriptions
<1>7. EventTypes'
  <2>1. wire' \in Seq(Nat) /\ \A i \in DOMAIN wire' : wire'[i] \in DOMAIN sent'
    BY <1>1, EmptySeq
  <2>2. hub' \in [run : Nat, listening : BOOLEAN, ever : BOOLEAN]
    BY <1>1
  <2> QED
    BY <1>1, <1>4, <1>6, <2>1, <2>2 DEF EventTypes
<1>8. ASSUME NEW c \in Streamers PROVE ClientSound(client[c], view[client[c].watch], sub[c])'
  <2>1. client'[c].run <= hub.run /\ client'[c].run \in Nat
    BY <1>1 DEF EventInv, ClientSound, ClientRows
  <2>2. sub'[c].open = FALSE /\ sub'[c].queue = <<>> /\ hub'.run = hub.run + 1
    BY <1>1 DEF NoSub
  <2>3. client'[c].run <= hub'.run /\ client'[c].run # hub'.run
    BY <1>1, <2>1, <2>2
  <2> QED
    BY <2>2, <2>3 DEF ClientSound
<1> QED
  BY <1>1, <1>2, <1>3, <1>5, <1>7, <1>8 DEF EventInv

\* Only that a view is on, and its numbers and buffer, matter to a stream.
LEMMA SoundSwitched ==
    ASSUME NEW k, NEW w, NEW u, NEW s, u.next = w.next, u.buf = w.buf, w.on => u.on, ClientSound(k, w, s)
    PROVE  ClientSound(k, u, s)
<1>1. Queued(k.watch, w, s) => Queued(k.watch, u, s)
  BY DEF Queued, Agrees
<1>2. Known(k, w, s) => Known(k, u, s)
  BY DEF Known, Aware, Agrees, Oldest
<1>3. \A e : Replayable(k, w, s, e) => Replayable(k, u, s, e)
  BY DEF Replayable, Oldest
<1>4. Owed(k, w, s) => Owed(k, u, s)
  BY <1>3 DEF Owed
<1> QED
  BY <1>1, <1>2, <1>4 DEF ClientSound

\* A step of one stream.
LEMMA OneStreamMoves ==
    ASSUME EventInv, NEW c \in Streamers, UNCHANGED <<sent, wire, hub>>, view' \in [Views -> ViewRows],
           \A v \in Views : view'[v].next = view[v].next /\ view'[v].buf = view[v].buf /\ (view[v].on => view'[v].on),
           NEW t \in Subscriptions, sub' = [sub EXCEPT ![c] = t],
           NEW k \in ClientRows, client' = [client EXCEPT ![c] = k],
           NEW u, u = view'[k.watch], ClientSound(k, u, t)
    PROVE  EventInv'
<1>1. /\ EventTypes /\ view[All].on /\ (hub.listening => hub.ever)
      /\ \A v \in Views : Buffered(v, view[v])
      /\ \A d \in Streamers : ClientSound(client[d], view[client[d].watch], sub[d])
  BY DEF EventInv
<1>2. EventTypes'
  BY <1>1 DEF EventTypes
<1>3. ASSUME NEW v \in Views PROVE Buffered(v, view'[v])
  <2>1. Buffered(v, view[v])
    BY <1>1
  <2> QED
    BY <2>1 DEF Buffered, Oldest
<1>4. All \in Views
  BY DEF Views
<1>5. ASSUME NEW d \in Streamers PROVE ClientSound(client[d], view[client[d].watch], sub[d])'
  <2>1. PICK x, y, z : /\ ClientSound(x, y, z)
                       /\ client'[d] = x /\ view'[x.watch] = y /\ sub'[d] = z
    <3>1. CASE d = c
      <4>1. client'[d] = k /\ sub'[d] = t
        BY <1>1, <3>1 DEF EventTypes
      <4> QED
        BY <4>1
    <3>2. CASE d # c
      <4>1. client'[d] = client[d] /\ sub'[d] = sub[d] /\ client[d].watch \in Views
        BY <1>1, <3>2 DEF EventTypes, ClientRows
      <4>2. ClientSound(client[d], view'[client[d].watch], sub[d])
        BY <1>1, <4>1, SoundSwitched
      <4> QED
        BY <4>1, <4>2
    <3> QED
      BY <3>1, <3>2
  <2>2. x.run = hub.run => Known(client[d], view[client[d].watch], sub[d])'
    BY <2>1 DEF ClientSound, Known
  <2>3. x.run = hub.run => Owed(client[d], view[client[d].watch], sub[d])'
    BY <2>1 DEF ClientSound, Owed, Sees, OnWire
  <2> QED
    BY <2>1, <2>2, <2>3 DEF ClientSound
<1> QED
  BY <1>1, <1>2, <1>3, <1>4, <1>5 DEF EventInv

\* What can be replayed after a number can be replayed after a lower one.
LEMMA TipFalls ==
    ASSUME NEW k, NEW w, NEW s, NEW e, NEW k2, NEW t, k2.watch \in Views, k2.watch = k.watch, w \in ViewRows,
           Tip(k, s) \in Int, Tip(k2, t) \in Int, Tip(k2, t) <= Tip(k, s), Replayable(k, w, s, e)
    PROVE  Replayable(k2, w, t, e)
<1> DEFINE a == Tip(k, s)
           b == Tip(k2, t)
<1>1. Oldest(w) \in Int
  BY DEF Oldest, ViewRows
<1>2. \A j \in 1 .. Len(w.buf) : w.buf[j].ids[k.watch] \in Int
  <2> TAKE j \in 1 .. Len(w.buf)
  <2>1. w.buf[j] \in Envelopes
    BY ElementOfSeq DEF ViewRows
  <2> QED
    BY <2>1 DEF Envelopes
<1> HIDE DEF a, b
<1>3. a \in Int /\ b \in Int /\ b <= a
  BY DEF a, b
<1>4. CASE a + 1 < Oldest(w)
  BY <1>1, <1>3, <1>4 DEF Replayable, b
<1>5. ASSUME NEW j \in 1 .. Len(w.buf), w.buf[j].ids[k.watch] > a, w.buf[j].ev \in {e, Resync}
      PROVE  Replayable(k2, w, t, e)
  <2>1. w.buf[j].ids[k2.watch] > b
    BY <1>2, <1>3, <1>5
  <2> QED
    BY <1>5, <2>1 DEF Replayable, b
<1> QED
  BY <1>4, <1>5 DEF Replayable, a

\* Types of one client's stream.
LEMMA TipTypes ==
    ASSUME NEW k \in ClientRows, NEW s \in Subscriptions
    PROVE  /\ k.last \in Int /\ Tip(k, s) \in Int /\ k.last <= Tip(k, s) /\ k.watch \in Views
           /\ s.queue = <<>> => Tip(k, s) = k.last
           /\ s.queue # <<>> => s.queue[Len(s.queue)].ids[k.watch] <= Tip(k, s)
           /\ \A i \in 1 .. Len(s.queue) : s.queue[i] \in Envelopes /\ s.queue[i].ids[k.watch] \in Nat
           /\ Len(s.queue) \in Nat /\ (s.queue # <<>> => Len(s.queue) >= 1)
<1>1. k.last \in Int /\ k.watch \in Views
  BY DEF ClientRows, Numbers, NoNumber
<1>2. s.queue \in Seq(Envelopes)
  BY DEF Subscriptions
<1>3. \A i \in 1 .. Len(s.queue) : s.queue[i] \in Envelopes /\ s.queue[i].ids[k.watch] \in Nat
  <2> TAKE i \in 1 .. Len(s.queue)
  <2>1. s.queue[i] \in Envelopes
    BY <1>2, ElementOfSeq
  <2> QED
    BY <1>1, <2>1 DEF Envelopes
<1>4. Len(s.queue) \in Nat /\ (s.queue # <<>> => Len(s.queue) >= 1)
  BY <1>2, LenProperties, EmptySeq
<1>5. s.queue # <<>> => s.queue[Len(s.queue)].ids[k.watch] \in Nat
  BY <1>3, <1>4
<1> QED
  BY <1>1, <1>3, <1>4, <1>5 DEF Tip

\* What every step of one stream starts from.
LEMMA StreamFacts ==
    ASSUME EventInv, NEW c \in Streamers
    PROVE  /\ EventTypes /\ client[c] \in ClientRows /\ sub[c] \in Subscriptions /\ hub.run \in Nat
           /\ client[c].watch \in Views /\ view[client[c].watch] \in ViewRows
           /\ Buffered(client[c].watch, view[client[c].watch])
           /\ ClientSound(client[c], view[client[c].watch], sub[c])
           /\ client = [client EXCEPT ![c] = client[c]] /\ sub = [sub EXCEPT ![c] = sub[c]]
           /\ view \in [Views -> ViewRows]
BY DEF EventInv, EventTypes, ClientRows

LEMMA SignOutKept == ASSUME EventInv, NEW c \in Streamers, SignOut(c) PROVE EventInv'
<1> DEFINE k == client[c]
           l == [k EXCEPT !.valid = FALSE]
           w == view[k.watch]
           s == sub[c]
<1>1. k \in ClientRows /\ s \in Subscriptions /\ w \in ViewRows /\ view \in [Views -> ViewRows] /\ ClientSound(k, w, s)
      /\ sub = [sub EXCEPT ![c] = s]
  BY StreamFacts
<1>2. UNCHANGED <<sent, wire, hub, view, sub>> /\ client' = [client EXCEPT ![c] = l]
  BY DEF SignOut
<1>3. l \in ClientRows /\ l.watch = k.watch /\ l.reloads = k.reloads /\ l.last = k.last /\ l.run = k.run /\ l.seen = k.seen
      /\ l.early = k.early
  BY <1>1 DEF ClientRows
<1> HIDE DEF k, l, w, s
<1>4. Known(k, w, s) => Known(l, w, s)
  BY <1>3 DEF Known, Aware
<1>5. Owed(k, w, s) => Owed(l, w, s)
  <2>1. Tip(l, s) = Tip(k, s)
    BY <1>3 DEF Tip
  <2>2. \A e : (InQueue(k, s, e) => InQueue(l, s, e)) /\ (Replayable(k, w, s, e) => Replayable(l, w, s, e))
    BY <1>3, <2>1 DEF InQueue, Replayable
  <2> QED
    BY <1>3, <2>2 DEF Owed
<1>6. ClientSound(l, w, s)
  BY <1>1, <1>3, <1>4, <1>5 DEF ClientSound
<1>7. w = view'[l.watch] /\ sub' = [sub EXCEPT ![c] = s]
  BY <1>1, <1>2, <1>3 DEF w
<1> QED
  BY <1>1, <1>2, <1>3, <1>6, <1>7, OneStreamMoves

LEMMA RecheckKept == ASSUME EventInv, NEW c \in Streamers, Recheck(c) PROVE EventInv'
<1> DEFINE k == client[c]
           w == view[k.watch]
           s == sub[c]
           t == [s EXCEPT !.closed = TRUE]
<1>1. k \in ClientRows /\ s \in Subscriptions /\ w \in ViewRows /\ view \in [Views -> ViewRows] /\ ClientSound(k, w, s)
      /\ client = [client EXCEPT ![c] = k]
  BY StreamFacts
<1>2. UNCHANGED <<sent, wire, hub, view, client>> /\ sub' = [sub EXCEPT ![c] = t] /\ s.open /\ ~s.closed
  BY DEF Recheck
<1>3. t \in Subscriptions /\ t.open = TRUE /\ t.closed = TRUE /\ t.queue = s.queue /\ s.open = TRUE
  BY <1>1, <1>2 DEF Subscriptions
<1>7. w = view'[k.watch] /\ client' = [client EXCEPT ![c] = k]
  BY <1>1, <1>2
<1> HIDE DEF k, w, s, t
<1>4. Known(k, w, s) => Known(k, w, t)
  BY <1>3 DEF Known, Aware
<1>5. Owed(k, w, s) => Owed(k, w, t)
  <2>1. \A e : InQueue(k, s, e) => InQueue(k, t, e)
    BY <1>3 DEF InQueue
  <2> QED
    BY <1>2, <1>3, <2>1 DEF Owed
<1>6. ClientSound(k, w, t)
  <2>1. Queued(k.watch, w, s) => Queued(k.watch, w, t)
    BY <1>3 DEF Queued
  <2> QED
    BY <1>1, <1>3, <1>4, <1>5, <2>1 DEF ClientSound
<1> QED
  BY <1>1, <1>2, <1>3, <1>6, <1>7, OneStreamMoves

\* What was queued when a stream is gone is replayed when the client asks again.
LEMMA EndedKept ==
    ASSUME EventInv, NEW c \in Streamers, UNCHANGED <<sent, wire, hub, view, client>>, sub[c].open,
           sub' = [sub EXCEPT ![c] = NoSub]
    PROVE  EventInv'
<1> DEFINE k == client[c]
           w == view[k.watch]
           s == sub[c]
           v == k.watch
<1>1. k \in ClientRows /\ s \in Subscriptions /\ w \in ViewRows /\ view \in [Views -> ViewRows] /\ ClientSound(k, w, s)
      /\ client = [client EXCEPT ![c] = k] /\ Buffered(v, w) /\ v \in Views
  BY StreamFacts
<1>2. w = view'[k.watch] /\ client' = [client EXCEPT ![c] = k] /\ s.open = TRUE
  BY <1>1 DEF Subscriptions
<1>3. NoSub \in Subscriptions /\ NoSub.open = FALSE /\ NoSub.queue = <<>>
  BY EmptySeq DEF NoSub, Subscriptions
<1> HIDE DEF k, w, s
<1>4. Queued(v, w, s)
  BY <1>1, <1>2 DEF ClientSound
<1>5. Known(k, w, s) => Known(k, w, NoSub)
  BY <1>2, <1>3 DEF Known, Aware
<1>6. /\ k.last \in Int /\ Tip(k, s) \in Int /\ k.last <= Tip(k, s) /\ Tip(k, NoSub) = k.last
      /\ \A i \in 1 .. Len(s.queue) : s.queue[i] \in Envelopes /\ s.queue[i].ids[v] \in Nat
  BY <1>1, <1>3, TipTypes
<1>7. /\ Len(w.buf) \in Nat /\ w.next \in Nat /\ Oldest(w) = w.next - Len(w.buf)
      /\ \A j \in 1 .. Len(w.buf) : w.buf[j].ids[v] = Oldest(w) + j - 1
  BY <1>1 DEF Buffered, Oldest, ViewRows
<1>8. ASSUME ~k.reloads, Known(k, w, s), NEW e, InQueue(k, s, e) PROVE Replayable(k, w, NoSub, e)
  <2>1. PICK i \in 1 .. Len(s.queue) : s.queue[i].ev \in {e, Resync} /\ s.queue[i].ids[v] > k.last
    BY <1>8 DEF InQueue
  <2>2. s.queue[i].ids[v] < w.next /\ s.queue[i].ids[v] \in Nat
    BY <1>4, <1>6, <2>1 DEF Queued
  <2>3. CASE ~Agrees(v, w, s.queue[i])
    <3>1. i = 1
      BY <1>4, <2>3 DEF Queued, Subscriptions
    <3>2. k.last + 1 < Oldest(w)
      <4>1. s.queue # <<>>
        BY <2>1, EmptySeq
      <4> QED
        BY <1>2, <1>8, <2>3, <3>1, <4>1 DEF Known, Aware
    <3> QED
      BY <1>6, <3>2 DEF Replayable
  <2>4. CASE Agrees(v, w, s.queue[i]) /\ s.queue[i].ids[v] < Oldest(w)
    <3>1. k.last + 1 < Oldest(w)
      BY SMTT(30), <1>6, <1>7, <2>1, <2>2, <2>4
    <3> QED
      BY <1>6, <3>1 DEF Replayable
  <2>5. CASE Agrees(v, w, s.queue[i]) /\ ~(s.queue[i].ids[v] < Oldest(w))
    <3>1. PICK j \in 1 .. Len(w.buf) : s.queue[i].ids[v] = Oldest(w) + j - 1
      <4>1. s.queue[i].ids[v] - Oldest(w) + 1 \in 1 .. Len(w.buf)
            /\ s.queue[i].ids[v] = Oldest(w) + (s.queue[i].ids[v] - Oldest(w) + 1) - 1
        BY <1>7, <2>2, <2>5
      <4> QED
        BY <4>1
    <3>2. w.buf[j].ids[v] = s.queue[i].ids[v]
      BY <1>7, <3>1
    <3>3. w.buf[j].ev = s.queue[i].ev
      BY <2>5, <3>2 DEF Agrees
    <3>4. w.buf[j].ids[v] > Tip(k, NoSub) /\ w.buf[j].ev \in {e, Resync}
      BY <1>6, <2>1, <3>2, <3>3
    <3> QED
      BY <3>4 DEF Replayable
  <2> QED
    BY <2>3, <2>4, <2>5
<1>9. Known(k, w, s) /\ Owed(k, w, s) => Owed(k, w, NoSub)
  <2>1. ASSUME NEW e, Replayable(k, w, s, e) PROVE Replayable(k, w, NoSub, e)
    BY <1>1, <1>6, <2>1, TipFalls
  <2> QED
    BY <1>2, <1>3, <1>8, <2>1 DEF Owed
<1>10. ClientSound(k, w, NoSub)
  BY <1>1, <1>3, <1>5, <1>9 DEF ClientSound
<1> QED
  BY <1>1, <1>2, <1>3, <1>10, OneStreamMoves

\* One frame fewer.
LEMMA QueueShrinks ==
    ASSUME NEW v \in Views, NEW w \in ViewRows, NEW s \in Subscriptions, s.open, Queued(v, w, s), s.queue # <<>>,
           NEW t, t = [s EXCEPT !.queue = Tail(@)]
    PROVE  /\ t \in Subscriptions /\ t.open = s.open /\ t.closed = s.closed /\ Queued(v, w, t)
           /\ Len(s.queue) \in Nat /\ Len(t.queue) = Len(s.queue) - 1
           /\ \A i \in 1 .. Len(t.queue) : t.queue[i] = s.queue[i + 1]
           /\ \A i \in 1 .. Len(s.queue) : s.queue[i] \in Envelopes /\ s.queue[i].ids[v] \in Nat
           /\ s.queue[1].ids[v] < w.next
           /\ s.queue[1].ev # Resync => \A i \in 2 .. Len(s.queue) : s.queue[i].ids[v] > s.queue[1].ids[v]
           /\ t.queue # <<>> => Agrees(v, w, t.queue[1])
<1> DEFINE q == s.queue
           p == Tail(q)
           n == Len(q)
           m == Len(p)
           id(i) == q[i].ids[v]
<1>1. q \in Seq(Envelopes) /\ q # <<>> /\ n \in Nat /\ n >= 1 /\ w.next \in Nat
  BY LenProperties, EmptySeq DEF Subscriptions, ViewRows
<1>2. p \in Seq(Envelopes) /\ m = n - 1 /\ \A i \in 1 .. m : p[i] = q[i + 1]
  BY <1>1, HeadTailProperties
<1>3. \A i \in 1 .. n : q[i] \in Envelopes /\ id(i) \in Nat
  <2> TAKE i \in 1 .. n
  <2>1. q[i] \in Envelopes
    BY <1>1, ElementOfSeq
  <2> QED
    BY <2>1 DEF Envelopes
<1>4. t \in Subscriptions /\ t.queue = p /\ t.open = s.open /\ t.closed = s.closed
  BY <1>2 DEF Subscriptions
<1>5. /\ \A k \in 2 .. n : id(k) = id(2) + k - 2
      /\ n >= 2 /\ q[1].ev # Resync => id(2) = id(1) + 1
      /\ \A k \in 1 .. n : id(k) < w.next
      /\ ~s.closed => id(n) = w.next - 1
      /\ \A k \in 1 .. n : k > 1 \/ q[k].ev # Resync => Agrees(v, w, q[k])
  BY <1>1 DEF Queued, Consecutive
<1> HIDE DEF q, p, n, m
<1>6. \A i \in 1 .. m : p[i].ids[v] = id(i + 1) /\ i + 1 \in 2 .. n /\ i + 1 \in 1 .. n
  BY <1>1, <1>2
<1> DEFINE pid(i) == p[i].ids[v]
<1> HIDE DEF id, pid
<1>7. \A i \in 1 .. m : pid(i) = id(i + 1)
  BY <1>6 DEF pid
<1>8. /\ \A k \in 2 .. m : pid(k) = pid(2) + k - 2
      /\ m >= 2 => pid(2) = pid(1) + 1
      /\ m >= 1 => (~s.closed => pid(m) = w.next - 1)
      /\ \A k \in 1 .. m : pid(k) < w.next
  <2>1. ASSUME NEW k \in 1 .. m PROVE pid(k) = id(2) + k - 1 /\ id(2) \in Nat /\ pid(k) < w.next
    <3>1. k + 1 \in 2 .. n /\ 2 \in 1 .. n /\ k + 1 \in 1 .. n
      BY <1>1, <1>2, <2>1
    <3>2. id(k + 1) = id(2) + (k + 1) - 2 /\ id(2) \in Nat /\ id(k + 1) < w.next
      BY <1>3, <1>5, <3>1
    <3> QED
      BY <1>7, <3>2
  <2>2. m \in Nat
    BY <1>1, <1>2
  <2>3. m >= 1 => pid(m) = id(n)
    <3>1. m >= 1 => m \in 1 .. m /\ m + 1 = n
      BY <1>1, <1>2
    <3> QED
      BY <1>7, <3>1
  <2>4. \A k \in 1 .. m : pid(k) < w.next
    BY <2>1
  <2>5. m >= 1 => (~s.closed => pid(m) = w.next - 1)
    BY <1>5, <2>3
  <2>6. ASSUME NEW k \in 2 .. m PROVE pid(k) = pid(2) + k - 2
    <3>1. k \in 1 .. m /\ 2 \in 1 .. m
      BY <2>2
    <3>2. pid(k) = id(2) + k - 1 /\ pid(2) = id(2) + 2 - 1 /\ id(2) \in Nat
      BY <2>1, <3>1
    <3> QED
      BY <3>2
  <2>7. m >= 2 => pid(2) = pid(1) + 1
    <3>1. m >= 2 => 1 \in 1 .. m /\ 2 \in 1 .. m
      BY <2>2
    <3>2. m >= 2 => pid(1) = id(2) + 1 - 1 /\ pid(2) = id(2) + 2 - 1 /\ id(2) \in Nat
      BY <2>1, <3>1
    <3> QED
      BY <3>2
  <2> QED
    BY <2>4, <2>5, <2>6, <2>7
<1>9. \A k \in 1 .. m : Agrees(v, w, p[k])
  <2> TAKE k \in 1 .. m
  <2>1. k + 1 \in 1 .. n /\ k + 1 > 1 /\ p[k] = q[k + 1]
    BY <1>1, <1>2
  <2> QED
    BY <1>5, <2>1
<1>10. Queued(v, w, t)
  <2>1. Consecutive(v, p)
    BY <1>8 DEF Consecutive, pid, m
  <2>2. p # <<>> => m >= 1
    BY <1>2, LenProperties, EmptySeq DEF m
  <2> QED
    BY <1>4, <1>8, <1>9, <2>1, <2>2 DEF Queued, pid, m
<1>11. q[1].ev # Resync => \A i \in 2 .. n : id(i) > id(1)
  <2> SUFFICES ASSUME q[1].ev # Resync, NEW i \in 2 .. n PROVE id(i) > id(1)
    OBVIOUS
  <2>1. 1 \in 1 .. n /\ n >= 2
    BY <1>1
  <2>2. id(1) \in Nat /\ id(2) = id(1) + 1 /\ id(i) = id(2) + i - 2
    BY <1>3, <1>5, <2>1
  <2> QED
    BY <2>2
<1>12. p # <<>> => Agrees(v, w, p[1])
  <2>1. p # <<>> => 1 \in 1 .. m
    BY <1>2, LenProperties, EmptySeq DEF m
  <2> QED
    BY <1>9, <2>1
<1>13. id(1) < w.next
  BY <1>1, <1>5
<1> QED
  BY <1>1, <1>2, <1>3, <1>4, <1>10, <1>11, <1>12, <1>13 DEF q, p, n, m, id

LEMMA DeliverKept == ASSUME EventInv, NEW c \in Streamers, Deliver(c) PROVE EventInv'
<1> DEFINE k == client[c]
           w == view[k.watch]
           s == sub[c]
           v == k.watch
           x == Head(s.queue)
           t == [s EXCEPT !.queue = Tail(@)]
           resync == x.ev = Resync
           l == [k EXCEPT !.last = x.ids[v],
                          !.seen = IF resync THEN DOMAIN sent ELSE @ \cup {x.ev},
                          !.run = IF resync THEN hub.run ELSE @,
                          !.early = ~hub.ever \/ (@ /\ x.ev # Resync)]
<1>1. k \in ClientRows /\ s \in Subscriptions /\ w \in ViewRows /\ view \in [Views -> ViewRows] /\ ClientSound(k, w, s)
      /\ Buffered(v, w) /\ v \in Views /\ EventTypes /\ hub.run \in Nat
  BY StreamFacts
<1>2. UNCHANGED <<sent, wire, hub, view>> /\ s.open = TRUE /\ s.queue # <<>> /\ x = s.queue[1]
      /\ sub' = [sub EXCEPT ![c] = t]
  <2>1. s.open /\ s.queue # <<>> /\ sub' = [sub EXCEPT ![c] = t] /\ UNCHANGED <<sent, wire, hub, view>>
    BY ZenonT(40) DEF Deliver
  <2>2. s \in Subscriptions
    BY <1>1
  <2> HIDE DEF s, t
  <2>3. s.open = TRUE /\ s.queue \in Seq(Envelopes)
    BY <2>1, <2>2 DEF Subscriptions
  <2>4. Head(s.queue) = s.queue[1]
    BY <2>1, <2>3, HeadTailProperties
  <2>5. x = s.queue[1]
    BY <2>4
  <2> HIDE DEF x
  <2> QED
    BY <2>1, <2>3, <2>5
<1>3. client' = [client EXCEPT ![c] = l]
  BY <1>1 DEF Deliver, EventTypes, ClientRows
<1>4. w = view'[v]
  BY <1>2
<1> HIDE DEF t, w, s
<1>5. w.on /\ Queued(v, w, s) /\ k.run <= hub.run /\ (k.run = hub.run => Known(k, w, s) /\ Owed(k, w, s))
  BY <1>1, <1>2 DEF ClientSound
<1>6. /\ t \in Subscriptions /\ t.open = TRUE /\ t.closed = s.closed /\ Queued(v, w, t)
      /\ Len(s.queue) \in Nat /\ Len(t.queue) = Len(s.queue) - 1
      /\ \A i \in 1 .. Len(t.queue) : t.queue[i] = s.queue[i + 1]
      /\ \A i \in 1 .. Len(s.queue) : s.queue[i] \in Envelopes /\ s.queue[i].ids[v] \in Nat
      /\ x.ids[v] < w.next
      /\ ~resync => \A i \in 2 .. Len(s.queue) : s.queue[i].ids[v] > x.ids[v]
      /\ t.queue # <<>> => Agrees(v, w, t.queue[1])
  BY <1>1, <1>2, <1>5, QueueShrinks DEF t
<1>7. Len(s.queue) >= 1 /\ x \in Envelopes /\ x.ids[v] \in Nat /\ x.ev \in Nat
  <2>1. Len(s.queue) >= 1
    BY <1>1, <1>2, TipTypes
  <2> QED
    BY <1>2, <1>6, <2>1 DEF Envelopes
<1>8. /\ l \in ClientRows /\ l.watch = v /\ l.reloads = k.reloads /\ l.last = x.ids[v]
      /\ l.seen = (IF resync THEN DOMAIN sent ELSE k.seen \cup {x.ev})
      /\ l.run = (IF resync THEN hub.run ELSE k.run)
      /\ l.early = (~hub.ever \/ (k.early /\ x.ev # Resync))
  <2>1. DOMAIN sent \subseteq Nat
    BY <1>1 DEF EventTypes
  <2> QED
    BY <1>1, <1>7, <2>1 DEF ClientRows, Numbers
<1> HIDE DEF l, x
<1>9. l.run <= hub.run
  BY <1>1, <1>5, <1>8
<1>10. Known(l, w, t)
  <2>1. Aware(l, w, t)
    BY <1>6, <1>8 DEF Aware
  <2> QED
    BY <1>5, <1>8, <2>1 DEF Known
<1>11. CASE resync
  <2>1. Owed(l, w, t)
    BY <1>8, <1>11 DEF Owed
  <2> QED
    <3>1. ClientSound(l, w, t)
      BY <1>5, <1>6, <1>8, <1>9, <1>10, <2>1 DEF ClientSound
    <3> QED
      BY <1>1, <1>2, <1>3, <1>4, <1>6, <1>8, <3>1, OneStreamMoves
<1>12. CASE ~resync
  <2>1. ASSUME NEW e, e # x.ev, InQueue(k, s, e) PROVE InQueue(l, t, e)
    <3>1. PICK i \in 1 .. Len(s.queue) : s.queue[i].ev \in {e, Resync} /\ (k.reloads \/ s.queue[i].ids[v] > k.last)
      BY <2>1 DEF InQueue
    <3>2. i # 1
      BY <1>2, <1>12, <2>1, <3>1
    <3>3. i \in 2 .. Len(s.queue) /\ i - 1 \in 1 .. Len(t.queue) /\ (i - 1) + 1 = i
      BY <1>6, <3>2
    <3>4. t.queue[i - 1] = s.queue[i]
      BY <1>6, <3>3
    <3>5. s.queue[i].ids[v] > l.last
      BY <1>6, <1>8, <1>12, <3>3
    <3> QED
      BY <1>8, <3>1, <3>3, <3>4, <3>5 DEF InQueue
  <2>2. ASSUME NEW e, Replayable(k, w, s, e) PROVE Replayable(l, w, t, e)
    <3>1. Tip(k, s) \in Int /\ s.queue[Len(s.queue)].ids[v] <= Tip(k, s)
      BY <1>1, <1>2, TipTypes
    <3>2. Tip(l, t) \in Int
      BY <1>6, <1>8, TipTypes
    <3>3. x.ids[v] <= s.queue[Len(s.queue)].ids[v]
      <4>1. CASE Len(s.queue) = 1
        BY <1>2, <1>7, <4>1
      <4>2. CASE Len(s.queue) # 1
        <5>0. Len(s.queue) \in Nat /\ Len(s.queue) >= 1
          BY <1>6, <1>7
        <5>1. Len(s.queue) \in 2 .. Len(s.queue) /\ Len(s.queue) \in 1 .. Len(s.queue)
          <6>1. \A n \in Nat : n >= 1 /\ n # 1 => n \in 2 .. n /\ n \in 1 .. n
            OBVIOUS
          <6> QED
            BY <4>2, <5>0, <6>1
        <5> QED
          BY <1>6, <1>7, <1>12, <5>1
      <4> QED
        BY <4>1, <4>2
    <3>4. t.queue # <<>> => t.queue[Len(t.queue)] = s.queue[Len(s.queue)]
      <4>1. t.queue # <<>> => Len(t.queue) >= 1
        BY <1>6, <1>8, TipTypes
      <4> QED
        BY <1>6, <4>1
    <3>5. s.queue[Len(s.queue)].ids[v] \in Nat
      BY <1>6, <1>7
    <3>6. Tip(l, t) <= Tip(k, s)
      BY <1>7, <1>8, <3>1, <3>3, <3>4, <3>5 DEF Tip
    <3> QED
      BY <1>1, <1>8, <2>2, <3>1, <3>2, <3>6, TipFalls
  <2>3. k.run = hub.run => Owed(l, w, t)
    <3> SUFFICES ASSUME k.run = hub.run, IF l.reloads THEN t.open /\ ~t.closed ELSE t.open \/ l.last # NoNumber, ~l.early,
                        NEW e \in DOMAIN sent \ l.seen, Sees(l.watch, e)
                 PROVE  \/ t.open /\ InQueue(l, t, e)
                        \/ OnWire(e)
                        \/ ~hub.listening
                        \/ ~(t.open /\ ~t.closed) /\ Replayable(l, w, t, e)
      BY DEF Owed
    <3>1. e \in DOMAIN sent \ k.seen /\ e # x.ev /\ Sees(v, e) /\ ~k.early
      BY <1>8, <1>12
    <3>2. IF k.reloads THEN s.open /\ ~s.closed ELSE s.open \/ k.last # NoNumber
      BY <1>2, <1>6, <1>8
    <3>3. Owed(k, w, s)
      BY <1>5
    <3>4. \/ s.open /\ InQueue(k, s, e)
          \/ OnWire(e)
          \/ ~hub.listening
          \/ ~(s.open /\ ~s.closed) /\ Replayable(k, w, s, e)
      BY <3>1, <3>2, <3>3 DEF Owed
    <3> QED
      BY <1>2, <1>6, <2>1, <2>2, <3>1, <3>4
  <2> QED
    <3>1. ClientSound(l, w, t)
      BY <1>5, <1>6, <1>8, <1>9, <1>10, <1>12, <2>3 DEF ClientSound
    <3> QED
      BY <1>1, <1>2, <1>3, <1>4, <1>6, <1>8, <3>1, OneStreamMoves
<1> QED
  BY <1>11, <1>12

\* Where in a buffer the numbers pass last.
LEMMA AfterForm ==
    ASSUME NEW v \in Views, NEW w \in ViewRows, Buffered(v, w), NEW last \in Numbers
    PROVE  \E m \in 0 .. Len(w.buf) : /\ \A j \in 1 .. Len(w.buf) : w.buf[j].ids[v] > last <=> j > m
                                      /\ After(w.buf, v, last) = SubSeq(w.buf, m + 1, Len(w.buf))
<1> DEFINE b == w.buf
           n == Len(b)
           o == Oldest(w)
           m == CHOOSE i \in 0 .. n : \A j \in DOMAIN b : b[j].ids[v] > last <=> j > i
<1>1. b \in Seq(Envelopes) /\ n \in Nat /\ DOMAIN b = 1 .. n /\ last \in Int /\ o \in Int
  BY DEF ViewRows, Numbers, NoNumber, Oldest
<1>2. \A j \in 1 .. n : b[j].ids[v] = o + j - 1
  BY DEF Buffered
<1> HIDE DEF b, n, o
<1>3. \E i \in 0 .. n : \A j \in DOMAIN b : b[j].ids[v] > last <=> j > i
  <2>1. PICK i \in 0 .. n : \A j \in 1 .. n : o + j - 1 > last <=> j > i
    <3>1. CASE last < o
      <4>1. 0 \in 0 .. n /\ \A j \in 1 .. n : o + j - 1 > last <=> j > 0
        BY <1>1, <3>1
      <4> QED
        BY <4>1
    <3>2. CASE ~(last < o) /\ last - o + 1 <= n
      <4>1. last - o + 1 \in 0 .. n /\ \A j \in 1 .. n : o + j - 1 > last <=> j > last - o + 1
        BY <1>1, <3>2
      <4> QED
        BY <4>1
    <3>3. CASE ~(last < o) /\ ~(last - o + 1 <= n)
      <4>1. n \in 0 .. n /\ \A j \in 1 .. n : o + j - 1 > last <=> j > n
        BY <1>1, <3>3
      <4> QED
        BY <4>1
    <3> QED
      BY <3>1, <3>2, <3>3
  <2> QED
    BY <1>1, <1>2, <2>1
<1>4. m \in 0 .. n /\ \A j \in DOMAIN b : b[j].ids[v] > last <=> j > m
  BY <1>3
<1>5. After(b, v, last) = SubSeq(b, m + 1, n)
  BY DEF After, n
<1> HIDE DEF m
<1> QED
  BY <1>1, <1>4, <1>5 DEF b, n

\* What a stream is replayed: a gap, or not, and the end of the buffer.
LEMMA ReplayForm ==
    ASSUME NEW v \in Views, NEW w \in ViewRows, w = view[v], Buffered(v, w), NEW last \in Numbers
    PROVE  \E g \in {0, 1}, m \in 0 .. Len(w.buf) :
              /\ Replay(v, last) \in Seq(Envelopes) /\ Len(Replay(v, last)) = g + Len(w.buf) - m
              /\ g = 1 <=> last + 1 < Oldest(w) \/ last >= w.next
              /\ g = 1 => Replay(v, last)[1].ev = Resync /\ Replay(v, last)[1].ids[v] = w.next - 1
              /\ \A j \in 1 .. Len(w.buf) : w.buf[j].ids[v] > last <=> j > m
              /\ \A i \in 1 .. g + Len(w.buf) - m :
                    i > g => i - g + m \in 1 .. Len(w.buf) /\ Replay(v, last)[i] = w.buf[i - g + m]
<1> DEFINE b == w.buf
           n == Len(b)
           gap == [ev |-> Resync, ids |-> [u \in Views |-> IF u = v THEN w.next - 1 ELSE 0]]
           rest == After(b, v, last)
           head == IF last + 1 < Oldest(w) \/ last >= w.next THEN <<gap>> ELSE <<>>
           f == Replay(v, last)
<1>1. b \in Seq(Envelopes) /\ n \in Nat /\ w.next \in Nat /\ w.next >= 1 /\ Oldest(w) = w.next - n /\ Oldest(w) >= 1
  BY DEF ViewRows, Oldest, Buffered
<1>2. PICK m \in 0 .. n : (\A j \in 1 .. n : b[j].ids[v] > last <=> j > m) /\ rest = SubSeq(b, m + 1, n)
  BY AfterForm
<1>3. gap \in Envelopes /\ gap.ev = Resync /\ gap.ids[v] = w.next - 1
  BY <1>1 DEF Envelopes, Resync
<1>4. f = head \o rest
  <2>1. Oldest(w) = IF b = <<>> THEN w.next ELSE b[1].ids[v]
    <3>1. CASE b = <<>>
      BY <1>1, <3>1, EmptySeq
    <3>2. CASE b # <<>>
      <4>1. 1 \in 1 .. n
        BY <1>1, <3>2, LenProperties, EmptySeq
      <4>2. b[1].ids[v] = Oldest(w) + 1 - 1
        BY <4>1 DEF Buffered
      <4> QED
        BY <1>1, <3>2, <4>2
    <3> QED
      BY <3>1, <3>2
  <2> QED
    BY <2>1 DEF Replay
<1> HIDE DEF b, n, gap, rest
<1>5. PICK g \in {0, 1} : /\ head \in Seq(Envelopes) /\ Len(head) = g /\ (g = 1 => head[1] = gap)
                          /\ g = 1 <=> last + 1 < Oldest(w) \/ last >= w.next
  <2>1. CASE last + 1 < Oldest(w) \/ last >= w.next
    <3>1. head = <<gap>>
      BY <2>1
    <3>2. <<gap>> \in Seq(Envelopes) /\ Len(<<gap>>) = 1 /\ <<gap>>[1] = gap
      BY <1>3
    <3> QED
      BY <2>1, <3>1, <3>2
  <2>2. CASE ~(last + 1 < Oldest(w) \/ last >= w.next)
    <3>1. head = <<>>
      BY <2>2
    <3> QED
      BY <2>2, <3>1, EmptySeq
  <2> QED
    BY <2>1, <2>2
<1> HIDE DEF head, f
<1>6. /\ rest \in Seq(Envelopes) /\ Len(rest) = n - m
      /\ \A i \in 1 .. n - m : m + i \in 1 .. n /\ rest[i] = b[m + i]
  <2>2. CASE m = n
    <3>1. rest = <<>>
      BY <1>1, <1>2, <2>2, SubSeqProperties, LenProperties, EmptySeq DEF n
    <3> QED
      BY <1>1, <2>2, <3>1, EmptySeq
  <2>3. CASE m # n
    <3>1. m + 1 \in 1 .. n /\ m + 1 <= n
      BY <1>1, <2>3
    <3> QED
      BY <1>1, <1>2, <3>1, SubSeqProperties DEF n
  <2> QED
    BY <2>2, <2>3
<1>7. /\ f \in Seq(Envelopes) /\ Len(f) = g + (n - m)
      /\ g = 1 => f[1] = gap
      /\ \A i \in 1 .. g + (n - m) : f[i] = IF i <= g THEN head[i] ELSE rest[i - g]
  BY <1>4, <1>5, <1>6, ConcatProperties
<1>8. \A i \in 1 .. g + n - m : i > g => i - g + m \in 1 .. n /\ f[i] = b[i - g + m]
  <2> SUFFICES ASSUME NEW i \in 1 .. g + n - m, i > g PROVE i - g + m \in 1 .. n /\ f[i] = b[i - g + m]
    OBVIOUS
  <2>1. i - g \in 1 .. n - m /\ i \in 1 .. g + (n - m) /\ m + (i - g) = i - g + m
    BY <1>1
  <2>2. rest[i - g] = b[m + (i - g)] /\ m + (i - g) \in 1 .. n
    BY <1>6, <2>1
  <2>3. f[i] = rest[i - g]
    BY <1>7, <2>1
  <2> QED
    BY <2>1, <2>2, <2>3
<1>9. g + (n - m) = g + n - m
  BY <1>1
<1> QED
  BY ZenonT(40), <1>2, <1>3, <1>5, <1>7, <1>8, <1>9 DEF b, n, f

\* The queue of a new stream holds what fits.
LEMMA FilledForm ==
    ASSUME NEW f \in Seq(Envelopes)
    PROVE  /\ Filled(f) \in Subscriptions /\ Filled(f).open = TRUE /\ (Filled(f).closed <=> Len(f) > QueueSize)
           /\ Len(Filled(f).queue) \in Nat /\ Len(Filled(f).queue) <= Len(f)
           /\ Filled(f).closed => Len(Filled(f).queue) = QueueSize
           /\ ~Filled(f).closed => Len(Filled(f).queue) = Len(f)
           /\ Len(f) >= 1 => Len(Filled(f).queue) >= 1
           /\ \A i \in 1 .. Len(Filled(f).queue) : Filled(f).queue[i] = f[i]
<1> DEFINE n == Len(f)
           z == IF n > QueueSize THEN QueueSize ELSE n
           q == SubSeq(f, 1, z)
<1>1. n \in Nat /\ QueueSize \in Nat /\ QueueSize >= 1
  BY EventsAssumption DEF EventsAssumption
<1>2. z \in Nat /\ z <= n /\ (n > QueueSize => z = QueueSize) /\ (~(n > QueueSize) => z = n) /\ (n >= 1 => z >= 1)
  BY <1>1
<1>3. \A i \in 1 .. z : f[i] \in Envelopes
  BY <1>1, <1>2, ElementOfSeq
<1> HIDE DEF z
<1>4. q \in Seq(Envelopes) /\ Len(q) = z /\ \A i \in 1 .. z : q[i] = f[i]
  <2>1. CASE z = 0
    <3>1. q = <<>>
      BY <2>1, SubSeqEmpty
    <3> QED
      BY <2>1, <3>1, EmptySeq
  <2>2. CASE z # 0
    BY <1>2, <1>3, <2>2, SubSeqProperties
  <2> QED
    BY <2>1, <2>2
<1>5. Filled(f) = [open |-> TRUE, closed |-> n > QueueSize, queue |-> q]
  BY DEF Filled, z
<1>6. (n > QueueSize) \in BOOLEAN
  OBVIOUS
<1> HIDE DEF q, n
<1>7. Filled(f) \in Subscriptions /\ Filled(f).open = TRUE /\ (Filled(f).closed <=> n > QueueSize) /\ Filled(f).queue = q
  <2>1. Filled(f).open = TRUE /\ Filled(f).closed = (n > QueueSize) /\ Filled(f).queue = q
    BY <1>5
  <2>2. Filled(f) \in Subscriptions
    BY <1>4, <1>5, <1>6 DEF Subscriptions
  <2> QED
    BY <2>1, <2>2
<1> QED
  BY <1>2, <1>4, <1>7 DEF n

\* What is replayed is what a stream that never ended would have.
LEMMA ReplayQueued ==
    ASSUME NEW v \in Views, NEW w \in ViewRows, w = view[v], Buffered(v, w), NEW last \in Numbers,
           NEW t, t = Filled(Replay(v, last))
    PROVE  /\ t \in Subscriptions /\ t.open = TRUE /\ Queued(v, w, t)
           /\ t.queue # <<>> /\ ~Agrees(v, w, t.queue[1]) => last + 1 < Oldest(w) \/ last >= w.next
           /\ \A k \in ClientRows : \A e : k.watch = v /\ k.last = last /\ last < w.next
                /\ (last + 1 < Oldest(w) \/ \E j \in 1 .. Len(w.buf) : w.buf[j].ids[v] > last /\ w.buf[j].ev \in {e, Resync})
                   => InQueue(k, t, e) \/ (t.closed /\ Replayable(k, w, t, e))
<1> DEFINE f == Replay(v, last)
           b == w.buf
           n == Len(b)
           o == Oldest(w)
           q == t.queue
           z == Len(q)
<1>1. b \in Seq(Envelopes) /\ n \in Nat /\ w.next \in Nat /\ o = w.next - n /\ o >= 1 /\ last \in Int
      /\ \A j \in 1 .. n : b[j].ids[v] = o + j - 1
  <2>1. b \in Seq(Envelopes) /\ n \in Nat /\ w.next \in Nat /\ last \in Int
    BY DEF ViewRows, Numbers, NoNumber
  <2>2. o = w.next - n /\ o >= 1
    BY DEF Oldest, Buffered
  <2>3. \A j \in 1 .. n : b[j].ids[v] = o + j - 1
    BY DEF Buffered
  <2> QED
    BY <2>1, <2>2, <2>3
<1>2. PICK g \in {0, 1}, m \in 0 .. n :
              /\ f \in Seq(Envelopes) /\ Len(f) = g + n - m
              /\ g = 1 <=> last + 1 < o \/ last >= w.next
              /\ g = 1 => f[1].ev = Resync /\ f[1].ids[v] = w.next - 1
              /\ \A j \in 1 .. n : b[j].ids[v] > last <=> j > m
              /\ \A i \in 1 .. g + n - m : i > g => i - g + m \in 1 .. n /\ f[i] = b[i - g + m]
  BY ReplayForm
<1>3. /\ t \in Subscriptions /\ t.open = TRUE /\ (t.closed <=> Len(f) > QueueSize)
      /\ z \in Nat /\ z <= Len(f)
      /\ t.closed => z = QueueSize
      /\ ~t.closed => z = Len(f)
      /\ Len(f) >= 1 => z >= 1
      /\ \A i \in 1 .. z : q[i] = f[i]
  BY <1>2, FilledForm
<1> HIDE DEF f, b, n, o, q, z
<1>i. g \in Int /\ m \in Int /\ n \in Int /\ o \in Int /\ w.next \in Int /\ o = w.next - n /\ z \in Int /\ m <= n
  BY <1>1, <1>3
<1>4. /\ \A i \in 1 .. z : i > g => i - g + m \in 1 .. n /\ q[i] = b[i - g + m] /\ q[i].ids[v] = o + i - g + m - 1
      /\ z >= 1 /\ g = 1 => q[1].ev = Resync /\ q[1].ids[v] = w.next - 1
      /\ z <= g + n - m
  <2>1. z <= g + n - m
    BY <1>2, <1>3
  <2>2. ASSUME NEW i \in 1 .. z, i > g
        PROVE  i - g + m \in 1 .. n /\ q[i] = b[i - g + m] /\ q[i].ids[v] = o + i - g + m - 1
    <3>1. i \in 1 .. g + n - m
      BY <1>1, <1>3, <2>1
    <3>2. q[i] = f[i] /\ i - g + m \in 1 .. n /\ f[i] = b[i - g + m]
      BY <1>2, <1>3, <2>2, <3>1
    <3>3. b[i - g + m].ids[v] = o + (i - g + m) - 1
      BY <1>1, <3>2
    <3>4. o + (i - g + m) - 1 = o + i - g + m - 1
      BY <1>i
    <3> QED
      BY <3>2, <3>3, <3>4
  <2>3. z >= 1 => 1 \in 1 .. z /\ q[1] = f[1]
    BY <1>3
  <2> QED
    BY <1>2, <2>1, <2>2, <2>3
<1>5. Consecutive(v, q)
  <2>1. ASSUME NEW i \in 2 .. z PROVE q[i].ids[v] = q[2].ids[v] + i - 2
    <3>1. i \in 1 .. z /\ 2 \in 1 .. z /\ i > g /\ 2 > g
      BY <1>3
    <3>2. q[i].ids[v] = o + i - g + m - 1 /\ q[2].ids[v] = o + 2 - g + m - 1
      BY <1>4, <3>1
    <3> QED
      BY <1>i, <3>2
  <2>2. ASSUME z >= 2, q[1].ev # Resync PROVE q[2].ids[v] = q[1].ids[v] + 1
    <3>1. g = 0 /\ 1 \in 1 .. z /\ 2 \in 1 .. z
      BY <1>3, <1>4, <2>2
    <3>2. q[1].ids[v] = o + 1 - g + m - 1 /\ q[2].ids[v] = o + 2 - g + m - 1
      BY <1>4, <3>1
    <3> QED
      BY <1>i, <3>2
  <2> QED
    BY <2>1, <2>2 DEF Consecutive, z
<1>6. \A i \in 1 .. z : q[i].ids[v] < w.next
  <2> SUFFICES ASSUME NEW i \in 1 .. z PROVE q[i].ids[v] < w.next
    OBVIOUS
  <2>1. CASE i > g
    <3>1. q[i].ids[v] = o + i - g + m - 1 /\ i - g + m \in 1 .. n
      BY <1>4, <2>1
    <3> QED
      BY <1>i, <3>1
  <2>2. CASE ~(i > g)
    <3>1. g = 1 /\ i = 1 /\ z >= 1
      BY <1>3, <2>2
    <3> QED
      BY <1>1, <1>4, <3>1
  <2> QED
    BY <2>1, <2>2
<1>7. ASSUME ~t.closed, q # <<>> PROVE q[z].ids[v] = w.next - 1
  <2>1. z = g + n - m /\ z >= 1
    <3>1. q \in Seq(Envelopes)
      BY <1>3 DEF Subscriptions, q
    <3> QED
      BY <1>2, <1>3, <1>7, <3>1, EmptySeq, LenProperties DEF z
  <2>2. CASE z > g
    <3>1. q[z].ids[v] = o + z - g + m - 1
      BY <1>3, <1>4, <2>1, <2>2
    <3> QED
      BY <1>i, <2>1, <3>1
  <2>3. CASE ~(z > g)
    <3>1. g = 1 /\ z = 1
      BY <1>3, <2>1, <2>3
    <3> QED
      BY <1>4, <3>1
  <2> QED
    BY <2>2, <2>3
<1>8. ASSUME NEW i \in 1 .. z, i > g PROVE Agrees(v, w, q[i])
  <2> SUFFICES ASSUME NEW j \in 1 .. n, b[j].ids[v] = q[i].ids[v] PROVE b[j].ev = q[i].ev
    BY DEF Agrees, b, n
  <2>1. i - g + m \in 1 .. n /\ q[i] = b[i - g + m]
    BY <1>4, <1>8
  <2>2. b[i - g + m].ids[v] = o + (i - g + m) - 1 /\ b[j].ids[v] = o + j - 1
    BY <1>1, <2>1
  <2>3. j = i - g + m
    BY <1>1, <2>1, <2>2
  <2> QED
    BY <2>1, <2>3
<1>9. \A i \in 1 .. z : i > 1 \/ q[i].ev # Resync => Agrees(v, w, q[i])
  <2> SUFFICES ASSUME NEW i \in 1 .. z, i > 1 \/ q[i].ev # Resync PROVE Agrees(v, w, q[i])
    OBVIOUS
  <2>1. i > g
    <3>1. i = 1 => z >= 1
      BY <1>3
    <3> QED
      BY <1>3, <1>4, <3>1
  <2> QED
    BY <1>8, <2>1
<1>10. Queued(v, w, t)
  BY <1>5, <1>6, <1>7, <1>9 DEF Queued, q, z
<1>11. q # <<>> /\ ~Agrees(v, w, q[1]) => last + 1 < o \/ last >= w.next
  <2>1. q # <<>> => z >= 1
    <3>1. q \in Seq(Envelopes)
      BY <1>3 DEF Subscriptions, q
    <3> QED
      BY <3>1, EmptySeq, LenProperties DEF z
  <2>2. q # <<>> => 1 \in 1 .. z
    BY <1>3, <2>1
  <2>3. g = 0 \/ g = 1
    OBVIOUS
  <2> QED
    BY <1>2, <1>8, <2>2, <2>3
<1>12. ASSUME NEW k \in ClientRows, NEW e, k.watch = v, k.last = last, last < w.next,
              last + 1 < o \/ \E j \in 1 .. n : b[j].ids[v] > last /\ b[j].ev \in {e, Resync}
       PROVE  InQueue(k, t, e) \/ (t.closed /\ Replayable(k, w, t, e))
  <2>1. CASE last + 1 < o
    <3>1. g = 1 /\ Len(f) >= 1
      BY <1>1, <1>2, <2>1
    <3>2. 1 \in 1 .. z /\ z >= 1
      BY <1>3, <3>1
    <3>3. q[1].ev = Resync /\ q[1].ids[v] > last
      BY SMTT(30), <1>1, <1>4, <2>1, <3>1, <3>2
    <3> QED
      BY <1>12, <3>2, <3>3 DEF InQueue, q, z
  <2>2. CASE ~(last + 1 < o)
    <3>1. g = 0
      BY <1>1, <1>2, <1>12, <2>2
    <3>2. PICK j \in 1 .. n : b[j].ids[v] > last /\ b[j].ev \in {e, Resync}
      BY <1>12, <2>2
    <3>3. j > m /\ Len(f) = n - m
      BY <1>1, <1>2, <3>1, <3>2
    <3>4. CASE j - m <= z
      <4>1. j - m \in 1 .. z /\ j - m > g /\ (j - m) - g + m = j
        BY <1>1, <1>3, <3>1, <3>3, <3>4
      <4>2. q[j - m] = b[j]
        BY <1>4, <4>1
      <4> QED
        BY <1>12, <3>2, <4>1, <4>2 DEF InQueue, q, z
    <3>5. CASE ~(j - m <= z)
      <4>1. t.closed /\ z = QueueSize
        BY <1>i, <1>3, <3>3, <3>5
      <4>2. z >= 1 /\ z \in 1 .. z /\ z > g
        BY <1>3, <3>1, <4>1, EventsAssumption DEF EventsAssumption
      <4>3. q[z].ids[v] = o + z - g + m - 1 /\ b[j].ids[v] = o + j - 1
        BY <1>1, <1>4, <4>2
      <4>4. b[j].ids[v] > q[z].ids[v]
        BY <1>i, <3>1, <3>5, <4>3
      <4>5. Tip(k, t) = q[z].ids[v] \/ Tip(k, t) = last
        BY <1>12 DEF Tip, q, z
      <4>6. b[j].ids[v] > Tip(k, t)
        BY <3>2, <4>4, <4>5
      <4> QED
        BY <1>12, <3>2, <4>1, <4>6 DEF Replayable, b, n
    <3> QED
      BY <3>4, <3>5
  <2> QED
    BY <2>1, <2>2
<1> QED
  BY <1>3, <1>10, <1>11, <1>12 DEF q, o, b, n

\* A stream is opened, or opened again after the last number.
LEMMA ConnectKept == ASSUME EventInv, NEW c \in Streamers, Connect(c) PROVE EventInv'
<1> DEFINE k == client[c]
           v == k.watch
           w == view[v]
           u == view'[v]
           s == sub[c]
           last == k.last
           fresh == last = NoNumber \/ k.reloads
           t == Filled(IF last = NoNumber THEN <<>> ELSE Replay(v, last))
           l == [k EXCEPT !.seen = IF fresh THEN DOMAIN sent ELSE @,
                          !.run = IF fresh THEN hub.run ELSE @,
                          !.early = ~hub.ever \/ (@ /\ ~fresh)]
<1>1. k \in ClientRows /\ s \in Subscriptions /\ w \in ViewRows /\ view \in [Views -> ViewRows] /\ ClientSound(k, w, s)
      /\ Buffered(v, w) /\ v \in Views /\ EventTypes /\ hub.run \in Nat
  BY StreamFacts
<1>2. /\ UNCHANGED <<sent, wire, hub>> /\ s.open = FALSE
      /\ view' = [view EXCEPT ![v].on = TRUE] /\ sub' = [sub EXCEPT ![c] = t]
  BY <1>1 DEF Connect, Subscriptions
<1>3. client' = [client EXCEPT ![c] = l]
  BY <1>1 DEF Connect, EventTypes, ClientRows
<1>4. /\ view' \in [Views -> ViewRows]
      /\ \A x \in Views : view'[x].next = view[x].next /\ view'[x].buf = view[x].buf /\ (view[x].on => view'[x].on)
      /\ u.on = TRUE
  BY <1>1, <1>2 DEF ViewRows
<1>5. u \in ViewRows /\ u.next = w.next /\ u.buf = w.buf /\ last \in Numbers
  BY <1>1, <1>4 DEF ClientRows
<1>6. /\ l \in ClientRows /\ l.watch = v /\ l.reloads = k.reloads /\ l.last = last
      /\ l.seen = (IF fresh THEN DOMAIN sent ELSE k.seen)
      /\ l.run = (IF fresh THEN hub.run ELSE k.run)
      /\ l.early = (~hub.ever \/ (k.early /\ ~fresh))
  <2>1. DOMAIN sent \subseteq Nat
    BY <1>1 DEF EventTypes
  <2> QED
    BY <1>1, <2>1 DEF ClientRows
<1>7. s.queue = <<>> /\ k.run <= hub.run /\ (k.run = hub.run => Known(k, w, s) /\ Owed(k, w, s))
  BY <1>1, <1>2 DEF ClientSound
<1> HIDE DEF k, w, u, s, t, l, fresh
<1>8. /\ t \in Subscriptions /\ t.open = TRUE /\ Queued(v, w, t)
      /\ last = NoNumber => t.queue = <<>> /\ ~t.closed
      /\ last # NoNumber =>
            /\ t.queue # <<>> /\ ~Agrees(v, w, t.queue[1]) => last + 1 < Oldest(w) \/ last >= w.next
            /\ \A e : last < w.next
                /\ (last + 1 < Oldest(w) \/ \E j \in 1 .. Len(w.buf) : w.buf[j].ids[v] > last /\ w.buf[j].ev \in {e, Resync})
                   => InQueue(l, t, e) \/ (t.closed /\ Replayable(l, w, t, e))
  <2>1. CASE last = NoNumber
    <3>1. PICK f \in Seq(Envelopes) : Len(f) = 0 /\ t = Filled(f)
      BY <2>1, EmptySeq DEF t
    <3>2. QueueSize \in Nat
      BY EventsAssumption DEF EventsAssumption
    <3>3. t \in Subscriptions /\ t.open = TRUE /\ ~t.closed /\ Len(t.queue) = 0
      <4>1. /\ t \in Subscriptions /\ t.open = TRUE /\ (t.closed <=> Len(f) > QueueSize)
            /\ Len(t.queue) \in Nat /\ Len(t.queue) <= Len(f)
        BY <3>1, FilledForm
      <4> QED
        BY <3>1, <3>2, <4>1
    <3>4. t.queue = <<>>
      BY <3>3, EmptySeq, LenProperties DEF Subscriptions
    <3>5. Queued(v, w, t)
      BY <3>3, <3>4 DEF Queued, Consecutive
    <3> QED
      BY <2>1, <3>3, <3>4, <3>5
  <2>2. CASE last # NoNumber
    <3>1. t = Filled(Replay(v, last))
      BY <2>2 DEF t
    <3>2. /\ t \in Subscriptions /\ t.open = TRUE /\ Queued(v, w, t)
          /\ t.queue # <<>> /\ ~Agrees(v, w, t.queue[1]) => last + 1 < Oldest(w) \/ last >= w.next
      BY <1>1, <1>5, <3>1, ReplayQueued DEF w
    <3>3. \A x \in ClientRows : \A e : x.watch = v /\ x.last = last /\ last < w.next
                /\ (last + 1 < Oldest(w) \/ \E j \in 1 .. Len(w.buf) : w.buf[j].ids[v] > last /\ w.buf[j].ev \in {e, Resync})
                   => InQueue(x, t, e) \/ (t.closed /\ Replayable(x, w, t, e))
      <4> SUFFICES ASSUME NEW x \in ClientRows, NEW e, x.watch = v, x.last = last, last < w.next,
                          last + 1 < Oldest(w) \/ \E j \in 1 .. Len(w.buf) : w.buf[j].ids[v] > last /\ w.buf[j].ev \in {e, Resync}
                   PROVE  InQueue(x, t, e) \/ (t.closed /\ Replayable(x, w, t, e))
        OBVIOUS
      <4>1. w = view[v]
        BY DEF w
      <4> HIDE DEF v, last
      <4> QED
        BY <1>1, <1>5, <3>1, <4>1, ReplayQueued
    <3> HIDE DEF v, last
    <3> QED
      BY <1>6, <2>2, <3>2, <3>3 DEF v, last
  <2> QED
    BY <2>1, <2>2
<1>10. ASSUME ~fresh, k.run = hub.run PROVE ~k.reloads /\ last # NoNumber /\ last < w.next
  BY <1>7, <1>10 DEF fresh, Known, Aware
<1>11. l.run = hub.run => Aware(l, w, t)
  <2>1. ASSUME fresh PROVE Aware(l, w, t)
    <3>1. last = NoNumber => -1 < w.next
      BY <1>1 DEF ViewRows
    <3> QED
      BY <1>6, <1>8, <2>1, <3>1 DEF Aware, fresh, NoNumber
  <2>2. ASSUME ~fresh, k.run = hub.run PROVE Aware(l, w, t)
    <3>1. last \in Int /\ w.next \in Int
      BY <1>1 DEF ClientRows, Numbers, NoNumber, ViewRows
    <3> QED
      BY <1>6, <1>8, <1>10, <2>2, <3>1 DEF Aware
  <2> QED
    BY <1>6, <2>1, <2>2
<1>12. l.run = hub.run => Owed(l, w, t)
  <2>1. CASE fresh
    BY <1>6, <2>1 DEF Owed
  <2>2. CASE ~fresh
    <3> SUFFICES ASSUME k.run = hub.run, ~l.early, NEW e \in DOMAIN sent \ l.seen, Sees(l.watch, e)
                 PROVE  \/ t.open /\ InQueue(l, t, e)
                        \/ OnWire(e)
                        \/ ~hub.listening
                        \/ ~(t.open /\ ~t.closed) /\ Replayable(l, w, t, e)
      BY <1>6, <2>2 DEF Owed
    <3>1. e \in DOMAIN sent \ k.seen /\ Sees(v, e) /\ ~k.early
      BY <1>6, <2>2
    <3>2. Owed(k, w, s) /\ ~k.reloads /\ last # NoNumber /\ last < w.next
      BY <1>7, <1>10, <2>2
    <3>3. \/ OnWire(e)
          \/ ~hub.listening
          \/ Replayable(k, w, s, e)
      BY <1>2, <3>1, <3>2 DEF Owed
    <3>4. Tip(k, s) = last
      BY <1>7 DEF Tip
    <3>5. Replayable(k, w, s, e) =>
             last + 1 < Oldest(w) \/ \E j \in 1 .. Len(w.buf) : w.buf[j].ids[v] > last /\ w.buf[j].ev \in {e, Resync}
      BY <3>4 DEF Replayable
    <3>6. Replayable(k, w, s, e) => InQueue(l, t, e) \/ (t.closed /\ Replayable(l, w, t, e))
      BY <1>8, <3>2, <3>5
    <3> QED
      BY <1>8, <3>3, <3>6
  <2> QED
    BY <2>1, <2>2
<1>13. ClientSound(l, u, t)
  <2>1. Queued(v, u, t)
    BY <1>5, <1>8 DEF Queued, Agrees
  <2>3. l.run = hub.run => Known(l, u, t)
    <3>1. Aware(l, w, t) => Aware(l, u, t)
      BY <1>5 DEF Aware, Agrees, Oldest
    <3>2. l.early \/ hub.ever
      BY <1>6
    <3> QED
      BY <1>4, <1>11, <3>1, <3>2 DEF Known
  <2>4. l.run = hub.run => Owed(l, u, t)
    <3>1. \A e : Replayable(l, w, t, e) => Replayable(l, u, t, e)
      BY <1>5 DEF Replayable, Oldest
    <3> QED
      BY <1>12, <3>1 DEF Owed
  <2>5. l.run <= hub.run
    BY <1>1, <1>6, <1>7
  <2> QED
    BY <1>4, <1>6, <1>8, <2>1, <2>3, <2>4, <2>5 DEF ClientSound
<1> QED
  BY <1>1, <1>2, <1>3, <1>4, <1>6, <1>8, <1>13, OneStreamMoves DEF u

\* One step lemma for the whole hub.
LEMMA EventKept == EventInv /\ [EventNext]_eventVars => EventInv'
<1> SUFFICES ASSUME EventInv, [EventNext]_eventVars PROVE EventInv'
  OBVIOUS
<1>1. CASE UNCHANGED eventVars
  <2>1. ASSUME NEW c \in Streamers PROVE ClientSound(client[c], view[client[c].watch], sub[c])'
    BY <1>1 DEF EventInv, eventVars, ClientSound, Known, Owed, Sees, OnWire
  <2> QED
    BY <1>1, <2>1 DEF EventInv, EventTypes, eventVars
<1>2. ASSUME NEW c \in Streamers, StreamEnds(c) \/ Breaks(c) PROVE EventInv'
  BY <1>2, EndedKept DEF StreamEnds, Breaks
<1> QED
  BY <1>1, <1>2, AnnounceKept, HandleKept, ListenKept, DropKept, HubRestartKept, ConnectKept, DeliverKept, SignOutKept,
     RecheckKept DEF EventNext, StreamStep

LEMMA EventsHold == EventInv => NoSilentGap /\ OwnNumbers
<1> SUFFICES ASSUME EventInv PROVE NoSilentGap /\ OwnNumbers
  OBVIOUS
<1>1. ASSUME NEW c \in Streamers, sub[c].open, ~sub[c].closed, client[c].run = hub.run, ~client[c].early, NEW e \in Due(c)
      PROVE  Coming(c, e)
  <2> DEFINE k == client[c]
             w == view[k.watch]
             s == sub[c]
  <2>1. ClientSound(k, w, s) /\ sub[c] \in Subscriptions /\ wire \in Seq(Nat)
    BY StreamFacts DEF EventTypes
  <2>2. Known(k, w, s) /\ Owed(k, w, s)
    BY <1>1, <2>1 DEF ClientSound
  <2>3. hub.ever
    BY <1>1, <2>2 DEF Known
  <2>4. InQueue(k, s, e) \/ OnWire(e) \/ ~hub.listening
    BY <1>1, <2>2 DEF Owed, Due
  <2>5. DOMAIN s.queue = 1 .. Len(s.queue) /\ DOMAIN wire = 1 .. Len(wire)
    BY <2>1 DEF Subscriptions
  <2> QED
    BY <2>3, <2>4, <2>5 DEF Coming, InQueue, OnWire
<1>2. ASSUME NEW c \in Streamers, NEW i \in 1 .. Len(sub[c].queue) - 1, sub[c].queue[i].ev # Resync
      PROVE  sub[c].queue[i + 1].ids[client[c].watch] = sub[c].queue[i].ids[client[c].watch] + 1
  <2> DEFINE v == client[c].watch
             q == sub[c].queue
             n == Len(q)
  <2>1. q \in Seq(Envelopes) /\ n \in Nat /\ v \in Views /\ (q # <<>> => Consecutive(v, q))
    BY StreamFacts DEF ClientSound, Queued, Subscriptions
  <2>2. n >= 2 /\ i \in 1 .. n /\ i + 1 \in 2 .. n /\ q # <<>>
    BY <2>1, EmptySeq
  <2>3. q[2].ids[v] \in Nat
    <3>1. q[2] \in Envelopes
      BY <2>1, <2>2, ElementOfSeq
    <3> QED
      BY <2>1, <3>1 DEF Envelopes
  <2> HIDE DEF v, q, n
  <2>4. /\ \A j \in 2 .. n : q[j].ids[v] = q[2].ids[v] + j - 2
        /\ n >= 2 /\ q[1].ev # Resync => q[2].ids[v] = q[1].ids[v] + 1
    BY <2>1, <2>2 DEF Consecutive, n
  <2>5. q[i + 1].ids[v] = q[i].ids[v] + 1
    <3>1. CASE i = 1
      BY <1>2, <2>2, <2>4, <3>1 DEF q
    <3>2. CASE i # 1
      <4>1. i \in 2 .. n
        BY <2>2, <3>2
      <4>2. q[i].ids[v] = q[2].ids[v] + i - 2 /\ q[i + 1].ids[v] = q[2].ids[v] + (i + 1) - 2
        BY <2>2, <2>4, <4>1
      <4> QED
        BY <2>3, <4>2
    <3> QED
      BY <3>1, <3>2
  <2> QED
    BY <2>5 DEF q, v
<1> QED
  BY <1>1, <1>2 DEF NoSilentGap, OwnNumbers

-----------------------------------------------------------------------------
(* The theorems.  A step of Serving is a step of one view, and none of the   *)
(* others.                                                                   *)

\* Each view by itself.
LEMMA OneViewMoves ==
    ASSUME [Next]_vars
    PROVE  [FeedNext]_feedVars /\ [MediaNext]_mediaVars /\ [PubNext]_pubVars /\ [EventNext]_eventVars
BY DEF Next, InFeed, InMedia, InListing, InEvents, vars, feedVars, mediaVars, pubVars, eventVars

\* The four invariants hold always.
LEMMA FeedAlways == Spec => []FeedInv
<1>1. Init => FeedInv
  BY FeedBegins DEF Init
<1>2. FeedInv /\ [Next]_vars => FeedInv'
  BY OneViewMoves, FeedKept
<1> QED
  BY <1>1, <1>2, PTL DEF Spec

LEMMA MediaAlways == Spec => []MediaInv
<1>1. Init => MediaInv
  BY MediaBegins DEF Init
<1>2. MediaInv /\ [Next]_vars => MediaInv'
  BY OneViewMoves, MediaKept
<1> QED
  BY <1>1, <1>2, PTL DEF Spec

LEMMA PubAlways == Spec => []PubInv
<1>1. Init => PubInv
  BY PubBegins DEF Init
<1>2. PubInv /\ [Next]_vars => PubInv'
  BY OneViewMoves, PubKept
<1> QED
  BY <1>1, <1>2, PTL DEF Spec

LEMMA EventsAlways == Spec => []EventInv
<1>1. Init => EventInv
  BY EventBegins DEF Init
<1>2. EventInv /\ [Next]_vars => EventInv'
  BY OneViewMoves, EventKept
<1> QED
  BY <1>1, <1>2, PTL DEF Spec

\* Whoever asks for the XML of a Feed is shown every change that was committed when the request
\* came, by a body of this installation, whatever replica, cache level, lock or earlier request it
\* comes from (public.py feed_xml, cache.py "a stale body is never served").  A client that
\* revalidates with a date alone misses a change only when one it misses is dated no later than the
\* second of the body it holds (render.py render_feed, public.py not_modified_since).
THEOREM FeedsAreFresh == Spec => []FreshServed
BY FeedAlways, FeedServed, PTL

\* An app's bytes are all of the version whose ETag it was told, over every range and every resumed
\* request, and an Episode that is there when its time is over is not refused (public.py media
\* route, objects.py stream).
THEOREM MediaIsOne == Spec => []OneEpisodeServed
BY MediaAlways, MediaServed, PTL

\* Whatever listings, archives, deletions, new Sources and rebuilds there were: numbers are unique,
\* every enclosure of the XML opens, and so does every transcript whose name is its own (render.py,
\* public.py, rebuild.py).
THEOREM ListedOpens == Spec => []WhatIsListedOpens
BY PubAlways, PubOpens, PTL

\* And an item keeps its number, the address of its enclosure and its Source's GUID at every step,
\* a rebuild included, for what a descriptor names (render.py, catalog.py, rebuild.py).
THEOREM IdentityIsKept == Spec => IdentityStands
<1>1. PubInv /\ PubInv' /\ [Next]_vars =>
        [\A i \in Items :
           rows[i] # None /\ rows'[i] # None /\ (remaining'.rebuilds # remaining.rebuilds => i \in Described) =>
             /\ Entry(i)'.number = Entry(i).number /\ Entry(i)'.ext = Entry(i).ext
             /\ Guid(i) = "source" /\ mirror'.kind = mirror.kind => Guid(i)' = "source"]_pubVars
  BY OneViewMoves, PubIdentity
<1> QED
  BY <1>1, PubAlways, PTL DEF Spec, IdentityStands

\* Whatever overflows, drops, disconnects or reconnects, an open stream owes its client every change
\* it may see: known, queued, on the wire or covered by a resync (events.py publish, offer,
\* subscribe, _listen).
THEOREM NothingIsMissed == Spec => []NoSilentGap
BY EventsAlways, EventsHold, PTL

\* The numbers on a Member's stream are consecutive whatever happens on the Feeds of others, but for
\* the gap a replay opens with (events.py publish, id_in).
THEOREM NumbersAreOwn == Spec => []OwnNumbers
BY EventsAlways, EventsHold, PTL
=============================================================================
