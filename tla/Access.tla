------------------------------- MODULE Access -------------------------------
(***************************************************************************)
(* Who a request acts as and what it may reach: the cross-site guard, the  *)
(* Principal of a session, of an API key on /api or on /mcp and of open    *)
(* mode, the gates of the capability registry, the Scope of a unit of work *)
(* and the credentials under /feeds, while Users come and go with the      *)
(* configuration, keys are revoked, pairs rotated and Feeds reassigned.    *)
(***************************************************************************)
EXTENDS Integers, FiniteSets

CONSTANTS
    Users, LegacyOwner,
    Feeds,              \* ids, which a Feed created later may have again
    KeyIds, Calls, None,
    MaxPair, MaxRestarts, MaxRequests  \* bounds: pairs minted, starts of the api, requests

ASSUME AccessAssumption ==
    /\ LegacyOwner \in Users
    /\ None \notin Users \cup KeyIds \cup Feeds
    /\ None \notin [feed : Feeds, pair : 1..MaxPair] \cup [owner : Users, pair : 1..MaxPair]
    /\ Users \cap KeyIds = {} /\ "stranger" \notin Users \cup KeyIds
    /\ {MaxPair, MaxRestarts, MaxRequests} \subseteq Nat

VARIABLES
    mode, conf,     \* AuthMode, and each User's role in the configuration
    sessions,       \* the Users with a live session
    keys,           \* the table api_keys
    feeds,          \* each Feed: its Owner and pair, or None
    calls,          \* the requests under way
    pairs, restarts, requests,  \* how many there have been
    issued,          \* the ids given out to keys: a uuid4 comes once
    hands,          \* history: who has seen each pair, or changed its Feed under it
    entitled,       \* history: who had a right to do what since it was minted
    minted,         \* history: the Feed each pair was minted for, None once it is replaced or gone
    reprieved       \* history: the keys that ended, or changed hands, with a request under way

rightsHistory == <<hands, minted, reprieved>>
accessVars == <<mode, conf, sessions, keys, feeds, calls, pairs, restarts, requests, issued, rightsHistory,
                entitled>>

Modes == {"open", "legacy", "users"}
Confs(m) == IF m = "users" THEN {c \in [Users -> {"none", "member", "admin"}] : \E u \in Users : c[u] = "admin"}
            ELSE {[u \in Users |-> IF u = LegacyOwner THEN "admin" ELSE "none"]}
Configured(u) == conf[u] # "none"
Live(k) == keys[k] # None
Idle == [at |-> "idle"]
Persons == Users \cup KeyIds \cup {"stranger"}    \* a key is whoever holds it
Scopes == {"read", "write", "full"}     \* of a key; and what is done: seen, changed, deleted

AccessInit ==
    /\ mode \in Modes /\ conf \in Confs(mode)
    /\ sessions = {} /\ keys = [k \in KeyIds |-> None]
    /\ feeds = [f \in Feeds |-> None] /\ calls = [c \in Calls |-> Idle]
    /\ pairs = 0 /\ restarts = 0 /\ requests = 0 /\ issued = {} /\ reprieved = {}
    /\ hands = [n \in 1..MaxPair |-> {}] /\ entitled = hands /\ minted = [n \in 1..MaxPair |-> None]

-----------------------------------------------------------------------------
(* application/capabilities.py: one capability of each kind.                *)
Is(access, method, tool, reads) == [access |-> access, method |-> method, tool |-> tool, reads |-> reads]
Capability == [
    get_feed |-> Is("owner_of_feed", "GET", TRUE, TRUE),
    create_mirror |-> Is("member", "POST", TRUE, FALSE),
    update_mirror |-> Is("owner_of_feed", "PATCH", TRUE, FALSE),
    delete_feed |-> Is("owner_of_feed", "DELETE", TRUE, FALSE),
    rotate_feed_credentials |-> Is("owner_of_feed", "POST", FALSE, FALSE),
    create_api_key |-> Is("member", "POST", FALSE, FALSE),
    revoke_api_key |-> Is("member", "DELETE", FALSE, FALSE),
    purge_episodes |-> Is("admin", "POST", FALSE, FALSE),
    record_download |-> Is("system", "POST", FALSE, FALSE)]
Destructive == {"delete_feed"}
SystemOnly == {"record_download"}
Routed == DOMAIN Capability \ SystemOnly
Tools == {n \in Routed : Capability[n].tool}

Rank(scope) == CASE scope = "read" -> 0 [] scope = "write" -> 1 [] scope = "full" -> 2
ScopeAllows(granted, required) == Rank(granted) >= Rank(required)
RequiredScope(destructive, readOnly) ==
    IF destructive THEN "full" ELSE IF readOnly THEN "read" ELSE "write"

-----------------------------------------------------------------------------
(* adapters/api/security.py: what the sender of a request, a page of        *)
(* Copycast, of another site or of a name rebound to Copycast, or a client, *)
(* puts in its headers.  "named": base_url's name, an allowed one, localhost *)
(* or an IP literal; "own": base_url's origin or the request's.              *)
Senders == {"own_page", "other_page", "rebound_page", "client"}
Headers(sender, method) ==
    CASE sender = "client" -> [host : {"named"}, site : {"absent"}, origin : {"absent"}]
      [] sender = "own_page" ->
           [host : {"named"}, site : {"same-origin", "absent"},
            origin : IF method = "GET" THEN {"absent"} ELSE {"own"}]
      [] sender = "other_page" ->
           [host : {"named"}, site : {"cross-site", "absent"},
            origin : IF method = "GET" THEN {"absent"} ELSE {"other"}]
      [] sender = "rebound_page" ->
           [host : {"foreign"}, site : {"absent"},
            origin : IF method = "GET" THEN {"absent"} ELSE {"own"}]

ForeignHostRefusal(h) == h.host = "foreign"
CrossSiteRefusal(method, h) ==
    /\ method # "GET"
    /\ IF h.site # "absent" THEN h.site # "same-origin" ELSE h.origin = "other"
GuardRefuses(method, h) == ForeignHostRefusal(h) \/ CrossSiteRefusal(method, h)

-----------------------------------------------------------------------------
(* Principals: adapters/api/principal.py, adapters/mcp/auth.py.             *)
Nobody == [user |-> None, admin |-> FALSE, via |-> "none", key |-> None, scope |-> None]
Of(u, via, key, scope) ==
    IF ~Configured(u) THEN Nobody
    ELSE [user |-> u, admin |-> conf[u] = "admin", via |-> via, key |-> key, scope |-> scope]

ResolveKey(k) == IF k = None \/ ~Live(k) THEN Nobody ELSE Of(keys[k].owner, "api_key", k, keys[k].scope)
ResolveSession(u) == IF u \in sessions THEN Of(u, "session", None, None) ELSE Nobody

\* On /api the session comes first; a cookie that names none leaves the key.
ResolvePrincipal(surface, cookie, bearer) ==
    IF mode = "open" THEN Of(LegacyOwner, "open", None, None)
    ELSE IF surface = "mcp" THEN ResolveKey(bearer)
    ELSE IF ResolveSession(cookie) # Nobody \/ surface # "api" THEN ResolveSession(cookie)
    ELSE ResolveKey(bearer)

\* refuse_unfit_keys on /api, check_scope before a tool.
Fits(surface, p, name) ==
    LET cap == Capability[name] IN
    CASE surface = "api" ->
           p.via = "api_key" =>
             /\ name \in Tools
             /\ ScopeAllows(p.scope, RequiredScope(name \in Destructive, cap.method = "GET"))
      [] surface = "mcp" ->
           /\ name \in Tools
           /\ p.via = "api_key" => ScopeAllows(p.scope, RequiredScope(name \in Destructive, cap.reads))

\* A page of another site sends what its visitor's browser holds; the browser shows it
\* no answer, but one of a name rebound to Copycast is to the browser its own site.
Page(sender) == CASE sender = "other_page" -> "blind" [] sender = "rebound_page" -> "shown" [] OTHER -> "none"

\* What a request can be by what it carries; a cookie counts on /api only.
Principals(surface) ==
    {ResolvePrincipal(surface, cookie, bearer) :
        cookie \in Users \cup {None}, bearer \in KeyIds \cup {None}} \ {Nobody}

\* The middleware, the route or tool, and what it answers before a service runs.
Arrive(c, surface, sender, p, name, target, deleting) ==
    LET method == IF surface = "mcp" THEN "POST" ELSE Capability[name].method IN
    /\ calls[c] = Idle /\ Fits(surface, p, name)
    /\ requests < MaxRequests /\ requests' = requests + 1
    /\ {h \in Headers(sender, method) : ~GuardRefuses(method, h)} # {}
    /\ calls' = [calls EXCEPT ![c] = [at |-> "service", page |-> Page(sender), p |-> p, name |-> name,
                                      target |-> target, deleting |-> deleting]]
    /\ UNCHANGED <<mode, conf, sessions, keys, feeds, pairs, restarts, issued, rightsHistory>>

-----------------------------------------------------------------------------
(* The services, each one transaction in the Scope of its Principal.        *)
\* An Admin sees every Feed, also through a key.
VisibleToRole(p, f) == feeds[f] # None /\ (p.admin \/ feeds[f].owner = p.user)

\* Scope.for_principal and FeedRepository._visible.
Visible(p, f) ==
    /\ feeds[f] # None
    /\ \/ p.admin /\ p.via # "api_key"
       \/ feeds[f].owner = p.user

\* _enforce, and require_key_scope for an argument that deletes on a schedule.
Enforced(p, name, deleting) ==
    /\ Capability[name].access # "system"
    /\ Capability[name].access = "admin" => p.admin
    /\ (deleting /\ p.via = "api_key") => ScopeAllows(p.scope, "full")

Ends(c) == calls' = [calls EXCEPT ![c] = Idle]
Service(c, names) ==
    /\ calls[c].at = "service" /\ calls[c].name \in names
    /\ Enforced(calls[c].p, calls[c].name, calls[c].deleting)
    /\ Ends(c) /\ UNCHANGED <<mode, conf, sessions, restarts, requests>>

\* Whose doing it is.
Who(r) == IF r.page # "none" THEN "stranger" ELSE IF r.p.via = "api_key" THEN r.p.key ELSE r.p.user

\* The answer carries the pair while authentication is on.
Done(r, n, what) == hands' = [hands EXCEPT ![n] = @ \cup {<<Who(r), what>>}]
Showing(r, n) == IF mode = "open" \/ r.page = "blind" THEN hands' = hands ELSE Done(r, n, "read")

\* A Forbidden or a NotFound ends it, as the loss of the connection does.
Refused(c) ==
    /\ calls[c] # Idle /\ Ends(c)
    /\ UNCHANGED <<mode, conf, sessions, keys, feeds, pairs, restarts, requests, issued, rightsHistory>>

GetFeed(c) ==
    LET r == calls[c] IN
    /\ Service(c, {"get_feed"}) /\ Visible(r.p, r.target)
    /\ Showing(r, feeds[r.target].pair)
    /\ UNCHANGED <<keys, feeds, pairs, issued, minted, reprieved>>

\* update_mirror, and purge_episodes on one of the Feeds that its Scope shows.
Updates(c) ==
    LET r == calls[c] IN
    /\ Service(c, {"update_mirror", "purge_episodes"}) /\ Visible(r.p, r.target)
    /\ Done(r, feeds[r.target].pair, IF r.deleting THEN "full" ELSE "write")
    /\ UNCHANGED <<keys, feeds, pairs, issued, minted, reprieved>>

\* The id may be that of a Feed deleted before; the pair is always new.
CreateMirror(c) ==
    LET r == calls[c] IN
    /\ Service(c, {"create_mirror"}) /\ feeds[r.target] = None /\ pairs < MaxPair
    /\ feeds' = [feeds EXCEPT ![r.target] = [owner |-> r.p.user, pair |-> pairs + 1]]
    /\ pairs' = pairs + 1
    /\ Done(r, pairs + 1, "write") /\ minted' = [minted EXCEPT ![pairs + 1] = r.target]
    /\ UNCHANGED <<keys, issued, reprieved>>

DeleteFeed(c) ==
    LET r == calls[c] IN
    /\ Service(c, {"delete_feed"}) /\ Visible(r.p, r.target)
    /\ feeds' = [feeds EXCEPT ![r.target] = None]
    /\ Done(r, feeds[r.target].pair, "full") /\ minted' = [minted EXCEPT ![feeds[r.target].pair] = None]
    /\ UNCHANGED <<keys, pairs, issued, reprieved>>

Rotate(c) ==
    LET r == calls[c] IN
    /\ Service(c, {"rotate_feed_credentials"}) /\ Visible(r.p, r.target) /\ pairs < MaxPair
    /\ feeds' = [feeds EXCEPT ![r.target].pair = pairs + 1]
    /\ pairs' = pairs + 1 /\ Done(r, pairs + 1, "write")
    /\ minted' = [minted EXCEPT ![pairs + 1] = r.target, ![feeds[r.target].pair] = None]
    /\ UNCHANGED <<keys, issued, reprieved>>

CreateKey(c, k, scope) ==
    /\ Service(c, {"create_api_key"}) /\ k \notin issued /\ issued' = issued \cup {k}
    /\ keys' = [keys EXCEPT ![k] = [owner |-> calls[c].p.user, scope |-> scope]]
    /\ UNCHANGED <<feeds, pairs, rightsHistory>>

\* A key that ends, or changes hands, with requests of its own under way: they still
\* act as what they arrived as.
Reprieve(k) == {<<k, what>> : what \in {w \in Scopes :
    /\ \E c \in Calls : calls[c].at = "service" /\ calls[c].p.key = k
    /\ ScopeAllows(keys[k].scope, w)}}

\* An Admin revokes their own keys only, as everybody does.
RevokeKey(c, k) ==
    /\ Service(c, {"revoke_api_key"}) /\ Live(k) /\ keys[k].owner = calls[c].p.user
    /\ keys' = [keys EXCEPT ![k] = None] /\ reprieved' = reprieved \cup Reprieve(k)
    /\ UNCHANGED <<feeds, pairs, issued, hands, minted>>

Login(u) ==
    /\ mode # "open" /\ Configured(u) /\ sessions' = sessions \cup {u}
    /\ UNCHANGED <<mode, conf, keys, feeds, calls, pairs, restarts, requests, issued, rightsHistory>>
Logout(u) ==
    /\ u \in sessions /\ sessions' = sessions \ {u}
    /\ UNCHANGED <<mode, conf, keys, feeds, calls, pairs, restarts, requests, issued, rightsHistory>>

-----------------------------------------------------------------------------
(* /feeds: adapters/api/auth.py.  basic is the number of a pair, the         *)
(* operator's or none; the media key of a Feed is made of its id and pair.  *)
Operator == 0
NoPair == -1
Basics == {NoPair, Operator} \cup 1..MaxPair
MediaKeys == [feed : Feeds, pair : 1..MaxPair] \cup {None}

PairOk(f, basic) == feeds[f] # None /\ basic = feeds[f].pair
KeyOk(f, key) == feeds[f] # None /\ key = [feed |-> f, pair |-> feeds[f].pair]

\* require_feed_access reads the Feed once.
FeedAccess(f, xml, basic, key, cookie) ==
    LET p == ResolvePrincipal("feeds", cookie, None)
        known == feeds[f] # None /\ Configured(feeds[f].owner) IN
    \/ mode = "open"
    \/ mode = "legacy" /\ basic = Operator
    \/ known /\ xml /\ p # Nobody /\ (p.admin \/ p.user = feeds[f].owner)
    \/ known /\ (KeyOk(f, key) \/ PairOk(f, basic))

-----------------------------------------------------------------------------
\* The api starts with another configuration: the requests under way are gone,
\* and sync_users ended the sessions of those no longer in it (Accounts has the
\* sessions a changed credential ends).
Restart(m, users) ==
    /\ restarts < MaxRestarts /\ restarts' = restarts + 1
    /\ mode' = m /\ conf' = users
    /\ sessions' = {u \in sessions : users[u] # "none"}
    /\ calls' = [c \in Calls |-> Idle]
    /\ UNCHANGED <<keys, feeds, pairs, requests, issued, rightsHistory>>

\* copycast users reassign OLD NEW: ids and pairs stay; the keys of OLD stay
\* theirs unless they are the same person renamed.
Reassign(old, new, moveKeys) ==
    /\ old # new /\ Configured(new)
    /\ feeds' = [f \in Feeds |-> IF feeds[f] # None /\ feeds[f].owner = old
                                 THEN [feeds[f] EXCEPT !.owner = new] ELSE feeds[f]]
    /\ keys' = [k \in KeyIds |-> IF moveKeys /\ Live(k) /\ keys[k].owner = old
                                 THEN [keys[k] EXCEPT !.owner = new] ELSE keys[k]]
    /\ reprieved' = reprieved \cup UNION {Reprieve(k) : k \in {k \in KeyIds :
                        moveKeys /\ Live(k) /\ keys[k].owner = old}}
    /\ UNCHANGED <<mode, conf, sessions, calls, pairs, restarts, requests, issued, hands, minted>>

\* Who may do what with a Feed: its Owner and an Admin, while configured, and a key
\* of its Owner as far as its scope goes.
May(x, what, f) ==
    /\ feeds[f] # None
    /\ \/ x \in Users /\ Configured(x) /\ (x = feeds[f].owner \/ conf[x] = "admin")
       \/ x \in KeyIds /\ Live(x) /\ Configured(keys[x].owner) /\ keys[x].owner = feeds[f].owner
          /\ ScopeAllows(keys[x].scope, what)

\* The history of that.
Entitles == entitled' = [n \in 1..MaxPair |-> entitled[n] \cup
    {d \in Persons \X Scopes : \E f \in Feeds : (May(d[1], d[2], f) /\ feeds[f].pair = n)'}]

AccessStep ==
    \/ \E c \in Calls :
         \/ calls[c] = Idle /\ \E surface \in {"api", "mcp"}, name \in Routed, target \in Feeds :
              \E p \in Principals(surface), sender \in Senders,
                 deleting \in {FALSE} \cup {name = "update_mirror"} :
                Arrive(c, surface, sender, p, name, target, deleting)
         \/ GetFeed(c) \/ Updates(c) \/ CreateMirror(c) \/ DeleteFeed(c) \/ Rotate(c) \/ Refused(c)
         \/ \E k \in KeyIds : RevokeKey(c, k) \/ \E scope \in Scopes : CreateKey(c, k, scope)
    \/ \E u \in Users : Login(u) \/ Logout(u)
    \/ \E m \in Modes : \E users \in Confs(m) : Restart(m, users)
    \/ \E old, new \in Users, moveKeys \in BOOLEAN : Reassign(old, new, moveKeys)

AccessNext == AccessStep /\ Entitles

-----------------------------------------------------------------------------
\* "A key never widens what its owner's Feeds are" (context.py:96-97), "the next call
\* with it is refused" (keys.py:59), and nothing is another site's doing: who saw a pair
\* of a Feed, or changed the Feed under it, had a right to it at some time since the
\* pair was minted; or holds a key that was revoked, or given to another User, while a
\* request of its own was under way, which still acts as what it arrived as.
OnlyTheEntitled == \A n \in 1..MaxPair : hands[n] \subseteq entitled[n] \cup reprieved

\* "Every client holding the old one stops working" (feeds.py:103): a pair or a media
\* key opens the one Feed it was minted for, while its Owner is configured and until it
\* has another pair or is gone, and no Feed that has its id later; and a session opens
\* no more than the XML, for a User who had a right to the Feed since.
OpensByRight ==
    mode # "open" =>
    \A f \in Feeds, xml \in BOOLEAN :
      /\ \A n \in 1..MaxPair : FeedAccess(f, xml, n, None, None) => minted[n] = f /\ Configured(feeds[f].owner)
      /\ \A key \in MediaKeys \ {None} : FeedAccess(f, xml, NoPair, key, None) =>
           minted[key.pair] = f /\ key.feed = f /\ Configured(feeds[f].owner)
      /\ \A u \in Users : FeedAccess(f, xml, NoPair, None, u) => xml /\ <<u, "read">> \in entitled[feeds[f].pair]

\* Both: neither what a call does nor what a credential opens exceeds the rights
\* behind it, whatever became of the key, the pair, the session or the User since.
EffectsByRight == OnlyTheEntitled /\ OpensByRight
=============================================================================
