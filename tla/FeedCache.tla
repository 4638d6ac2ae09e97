----------------------------- MODULE FeedCache -----------------------------
(***************************************************************************)
(* GET /feeds/{id}.xml (adapters/api/routes/public.py) of one Feed at the  *)
(* api replicas: the row's revision is read, then the body of that         *)
(* revision is looked for in the process's own cache, in the Valkey all    *)
(* replicas share, and at last rendered from Postgres                      *)
(* (adapters/api/cache.py, FeedRendererAdapter in app.py).                 *)
(*                                                                         *)
(* A body is what it was rendered from: the number of changes of the       *)
(* Catalog it shows, the settings of the process (base_url, auth) and the  *)
(* instance secret.  Postgres runs at READ COMMITTED: the statements of    *)
(* one render each see what is committed by then.  The shared level may    *)
(* fail any call, and lose any key.                                        *)
(***************************************************************************)
EXTENDS Integers, FiniteSets

CONSTANTS
    Replicas,       \* api processes
    Clients,        \* podcast apps
    DatesOnly,      \* the clients that revalidate with If-Modified-Since alone
    Writers,        \* transactions that change the Feed at one time
    Changes,        \* bound: changes of the Feed
    Fetches,        \* bound: requests
    Misfortunes,    \* bound: restarts, lost cache entries and keys, failed calls
    Moves,          \* bound: settings changes and rebuilds
    FormatSince     \* RENDER_FORMAT_SINCE: no body is dated earlier

ASSUME FeedCacheAssumption ==
    /\ DatesOnly \subseteq Clients
    /\ Changes \in Nat /\ Fetches \in Nat /\ Misfortunes \in Nat /\ Moves \in Nat
    /\ FormatSince \in Nat \ {0}

VARIABLES
    feed,       \* the row: revision, changes committed, updated_at
    now,        \* the clock, in the whole seconds a Last-Modified has
    writer,     \* the second each open transaction began in, 0 for none
    change,     \* of each change the second it is dated and its installation (a history)
    install,    \* what a starting process reads: the instance secret and the settings
    replica,    \* each process: its entry of the Feed, the secret and settings it has
    shared,     \* the bodies in Valkey, by namespace and revision
    locks,      \* the render locks in Valkey
    get,        \* the request of each client
    held,       \* the last answer each client keeps
    spent       \* what was used of the bounds

feedVars == <<feed, now, writer, change, install, replica, shared, locks, get, held, spent>>

NoEntry == [rev |-> 0]
NoGet   == [at |-> "idle"]
Nothing == [rev |-> 0, shows |-> 0, since |-> 0]

FeedInit ==
    /\ feed = [rev |-> 1, shows |-> 0, updated |-> 0]
    /\ now = FormatSince
    /\ change = [k \in {0} |-> [at |-> 0, secret |-> 1]]
    /\ writer = [w \in Writers |-> 0]
    /\ install = [secret |-> 1, settings |-> 1]
    /\ replica = [p \in Replicas |-> [entry |-> NoEntry, secret |-> 1, settings |-> 1]]
    /\ shared = {} /\ locks = {}
    /\ get = [c \in Clients |-> NoGet]
    /\ held = [c \in Clients |-> Nothing]
    /\ spent = [begun |-> 0, asked |-> 0, bad |-> 0, moves |-> 0]

Misfortune == spent.bad < Misfortunes /\ spent' = [spent EXCEPT !.bad = @ + 1]
Move       == spent.moves < Moves /\ spent' = [spent EXCEPT !.moves = @ + 1]

-----------------------------------------------------------------------------
(* Whoever changes what the Feed shows bumps its revision in the same       *)
(* transaction.  updated_at is the time of the transaction's start.         *)

\* What is next done is done in the same second, or in the one after it.
Passes == now' \in {now, now + 1}

\* The change number feed.shows + 1 is in, dated t.
Changed(rev, t, secret) ==
    /\ feed' = [rev |-> rev, shows |-> feed.shows + 1, updated |-> t]
    /\ change' = [k \in 0 .. feed.shows + 1 |->
                    IF k <= feed.shows THEN change[k] ELSE [at |-> t, secret |-> secret]]

Begin(w) ==
    /\ writer[w] = 0 /\ spent.begun < Changes
    /\ spent' = [spent EXCEPT !.begun = @ + 1]
    /\ Passes /\ writer' = [writer EXCEPT ![w] = now']
    /\ UNCHANGED <<feed, change, install, replica, shared, locks, get, held>>

Commit(w) ==
    /\ writer[w] # 0
    /\ writer' = [writer EXCEPT ![w] = 0]
    /\ Changed(feed.rev + 1, writer[w], install.secret)
    /\ UNCHANGED <<now, install, replica, shared, locks, get, held, spent>>

-----------------------------------------------------------------------------
(* The request.                                                             *)
At(c, step)  == get[c].at = step
To(c, step)  == [get EXCEPT ![c].at = step]
Mine(c)      == replica[get[c].proc]

\* SharedFeedCache._key: the revision under a digest of the instance secret.
Key(p, rev)     == [ns |-> replica[p].secret, rev |-> rev]
Found(c)     == {e \in shared : e.key = Key(get[c].proc, get[c].rev)}

\* FeedCache._keep: one entry per Feed, whatever its revision.
Keep(c, body) == replica' = [replica EXCEPT ![get[c].proc].entry = body]

\* render_feed: last_modified, the row's updated_at in whole seconds, or the floor.
LastModified(t) == IF t < FormatSince THEN FormatSince ELSE t

\* 304 to a date that is not before the body's.  An answer by ETag shows the
\* body, whether it is a 304 or not.
NotModified(c, body) == c \in DatesOnly /\ held[c].rev # 0 /\ body.since <= held[c].since

\* Of the changes a body lacks, one is dated no later than the body.
Misdated(body) == \E k \in body.shows + 1 .. feed.shows : LastModified(change[k].at) <= body.since

\* What the client shows from now on; get[c].base is what was committed when
\* its request read the head.
Shown(c, body) == held' = [held EXCEPT ![c] = IF NotModified(c, body) THEN @ ELSE body]

\* feed_xml: the head, read again after the light Refresh, and what this process
\* has, without an await between them.
Fetch(c, p) ==
    /\ At(c, "idle") \/ At(c, "told")
    /\ spent.asked < Fetches /\ spent' = [spent EXCEPT !.asked = @ + 1]
    /\ LET hit == replica[p].entry.rev = feed.rev IN
       /\ get' = [get EXCEPT ![c] = [at |-> IF hit THEN "told" ELSE "shared", proc |-> p,
                                     rev |-> feed.rev, base |-> feed.shows, body |-> NoEntry]]
       /\ IF hit THEN Shown(c, replica[p].entry)
          ELSE held' = IF c \in DatesOnly THEN held ELSE [held EXCEPT ![c] = Nothing]
    /\ UNCHANGED <<feed, now, writer, change, install, replica, shared, locks>>

\* At the first look, and every 50 ms of the wait.
SharedHit(c) ==
    /\ At(c, "shared") \/ At(c, "wait")
    /\ \E e \in Found(c) : Keep(c, e.body) /\ Shown(c, e.body)
    /\ get' = To(c, "told")
    /\ UNCHANGED <<feed, now, writer, change, install, shared, locks, spent>>

\* The lock is SET NX, and expires.
SharedMiss(c) ==
    /\ At(c, "shared") /\ Found(c) = {}
    /\ LET k == Key(get[c].proc, get[c].rev) IN
       IF k \in locks THEN get' = To(c, "wait") /\ UNCHANGED locks
                      ELSE get' = To(c, "render") /\ locks' = locks \cup {k}
    /\ UNCHANGED <<feed, now, writer, change, install, replica, shared, held, spent>>

\* An error of get reads as a miss, one of the lock as won.
SharedFails(c) ==
    /\ At(c, "shared") /\ Misfortune
    /\ get' = To(c, "render")
    /\ UNCHANGED <<feed, now, writer, change, install, replica, shared, locks, held>>

\* mutant: only the lock's expiry ends the wait, and nobody asks for the lock again
WaitOverNever(c) == FALSE /\ UNCHANGED feedVars

\* After RENDER_WAIT_SECONDS the loser renders too.
WaitOver(c) ==
    /\ At(c, "wait")
    /\ get' = To(c, "render")
    /\ UNCHANGED <<feed, now, writer, change, install, replica, shared, locks, held, spent>>

\* mutant: the items are read before the Feed's row
RenderRowLate(c) ==
    /\ At(c, "render")
    /\ get' = [get EXCEPT ![c].at = "items",
                          ![c].body = [rev |-> 0, since |-> 0, shows |-> feed.shows,
                                       settings |-> Mine(c).settings, secret |-> Mine(c).secret]]
    /\ UNCHANGED <<feed, now, writer, change, install, replica, shared, locks, held, spent>>

\* render: the secret the process has, then the row, then its items.
RenderRow(c) ==
    /\ At(c, "render")
    /\ get' = [get EXCEPT ![c].at = "items",
                          ![c].body = [rev |-> feed.rev, since |-> LastModified(feed.updated), shows |-> 0,
                                       settings |-> Mine(c).settings, secret |-> Mine(c).secret]]
    /\ UNCHANGED <<feed, now, writer, change, install, replica, shared, locks, held, spent>>

RenderItems(c) ==
    /\ At(c, "items")
    /\ LET b == get[c].body
           whole == IF b.rev = 0 THEN [b EXCEPT !.rev = feed.rev, !.since = LastModified(feed.updated)]
                                 ELSE [b EXCEPT !.shows = feed.shows]
       IN  Keep(c, whole) /\ get' = [get EXCEPT ![c].body = whole, ![c].at = "put"]
    /\ UNCHANGED <<feed, now, writer, change, install, shared, locks, held, spent>>

Sent(c) == Shown(c, get[c].body) /\ get' = [get EXCEPT ![c].at = "told", ![c].body = NoEntry]

\* Under the revision that was rendered, not the one that was asked for.
Put(c) ==
    /\ At(c, "put")
    /\ LET k == Key(get[c].proc, get[c].body.rev)
       IN  shared' = {e \in shared : e.key # k} \cup {[key |-> k, body |-> get[c].body]}
    /\ Sent(c)
    /\ UNCHANGED <<feed, now, writer, change, install, replica, locks, spent>>

PutFails(c) ==
    /\ At(c, "put") /\ Misfortune
    /\ Sent(c)
    /\ UNCHANGED <<feed, now, writer, change, install, replica, shared, locks>>

-----------------------------------------------------------------------------
(* What goes wrong, and what the operator does.                             *)
Started == [entry |-> NoEntry, secret |-> install.secret, settings |-> install.settings]
Cut(S)  == [c \in Clients |-> IF ~At(c, "idle") /\ get[c].proc \in S THEN NoGet ELSE get[c]]

Restart(p) ==
    /\ Misfortune
    /\ replica' = [replica EXCEPT ![p] = Started]
    /\ get' = Cut({p})
    /\ UNCHANGED <<feed, now, writer, change, install, shared, locks, held>>

\* 128 other Feeds were asked for meanwhile.
Evict(p) ==
    /\ replica[p].entry # NoEntry /\ Misfortune
    /\ replica' = [replica EXCEPT ![p].entry = NoEntry]
    /\ UNCHANGED <<feed, now, writer, change, install, shared, locks, get, held>>

\* A key's time to live ends, or Valkey is restarted.
Expire ==
    /\ Misfortune
    /\ \/ \E e \in shared : shared' = shared \ {e} /\ UNCHANGED locks
       \/ \E k \in locks  : locks' = locks \ {k} /\ UNCHANGED shared
    /\ UNCHANGED <<feed, now, writer, change, install, replica, get, held>>

\* The operator edits config.toml (base_url, auth) and restarts the api.
Reconfigure ==
    /\ Move
    /\ install' = [install EXCEPT !.settings = @ + 1]
    /\ replica' = [p \in Replicas |-> [Started EXCEPT !.settings = @ + 1]]
    /\ get' = Cut(Replicas)
    /\ UNCHANGED <<feed, now, writer, change, shared, locks, held>>

\* copycast rebuild onto an empty database, and the restart the operations
\* guide asks for: a new secret, and revisions that start over.  It takes a
\* second at least.
Rebuild ==
    /\ Move /\ \A w \in Writers : writer[w] = 0
    /\ install' = [install EXCEPT !.secret = @ + 1]
    /\ replica' = [p \in Replicas |-> [Started EXCEPT !.secret = @ + 1]]
    /\ now' = now + 1 /\ \E n \in 1..feed.rev : Changed(n, now', install.secret + 1)
    /\ get' = Cut(Replicas)
    /\ UNCHANGED <<writer, shared, locks, held>>

-----------------------------------------------------------------------------
Request(c) == \/ SharedHit(c) \/ SharedMiss(c) \/ SharedFails(c) \/ WaitOver(c)
              \/ RenderRow(c) \/ RenderItems(c) \/ Put(c) \/ PutFails(c)

FeedNext == \/ \E w \in Writers : Begin(w) \/ Commit(w)
            \/ \E c \in Clients : Request(c) \/ \E p \in Replicas : Fetch(c, p)
            \/ \E p \in Replicas : Restart(p) \/ Evict(p)
            \/ Expire \/ Reconfigure \/ Rebuild

-----------------------------------------------------------------------------
\* Whoever asks for the Feed is shown at least every change that was committed
\* when the request came, by a body of this installation, whatever replica,
\* cache level or earlier request it comes from: "a stale body is never served".
\* An app that revalidates with a date alone is told 304 too early only when a
\* change it misses is dated no later than the second of the body it holds.
FreshServed == \A c \in Clients : At(c, "told") =>
                  \/ held[c].shows >= get[c].base /\ held[c].secret = install.secret
                  \/ c \in DatesOnly /\ Misdated(held[c])

\* Every request is answered, though the winner of the render lock dies or
\* Valkey does, unless its replica is restarted.
FeedAnswered == \A c \in Clients : At(c, "shared") ~> At(c, "told") \/ At(c, "idle")
=============================================================================
