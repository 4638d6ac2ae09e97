------------------------------ MODULE Accounts ------------------------------
(***************************************************************************)
(* Sign-in (application/services/auth.py): the slots a login waits for,    *)
(* the attempt it claims before its password is looked at, the one-time    *)
(* code, the session it opens; the legacy operator pair on a Feed, which   *)
(* is throttled by the same row (adapters/api/auth.py); and sync_users,    *)
(* with which the api and the worker start, each with the configuration it *)
(* has read, to end what a changed credential had opened.                  *)
(***************************************************************************)
EXTENDS Integers, Sequences, FiniteSets, SequencesExt

CONSTANTS
    Names,                  \* the names somebody types
    Browsers,               \* each has one login under way, and one cookie
    Secret,                 \* the TOTP secret of each version of the credentials, 0 for none
    AdminOnHttps,           \* the Users are Admins and base_url is https
    HASH_SLOTS, HASH_QUEUE_MAX,
    LOCK_THRESHOLD, LOCK_BASE_SECONDS, LOCK_MAX_SECONDS, PRUNE_AFTER,
    WINDOW, SESSION, SESSION_TOUCH_SECONDS,
    Scenarios               \* bounds of a behaviour: ticks, logins, edits of the file, starts

Versions == DOMAIN Secret
Processes == {"api", "worker"}

ASSUME AccountsAssumption ==
    /\ Names # {} /\ IsFiniteSet(Browsers) /\ Len(Secret) \in Nat /\ Versions = 1..Len(Secret)
    /\ Scenarios \subseteq [ticks : Nat, tries : Nat, edits : Nat, starts : Nat]
    /\ {HASH_SLOTS, HASH_QUEUE_MAX, LOCK_THRESHOLD, LOCK_BASE_SECONDS, LOCK_MAX_SECONDS,
        PRUNE_AFTER, WINDOW, SESSION, SESSION_TOUCH_SECONDS} \subseteq Nat
    /\ LOCK_BASE_SECONDS > 0 /\ LOCK_MAX_SECONDS > 0 /\ LOCK_MAX_SECONDS <= PRUNE_AFTER

VARIABLES
    authMode,   \* AuthMode: "users", or "legacy" with its one password
    clock,      \* one unit is one TOTP step, and one unit of the locks
    file,       \* [auth.users] as it is on disk: the version of each User, 0 for no entry
    proc,       \* the processes: what they read of the file, and where their startup is
    users,      \* the table: credential_digest and totp_last_step
    attempts,   \* the table: login_attempts
    live,       \* the table: the sessions; history: whether the digest stored when one was
                \* opened was already another's
    browser,    \* the login and the cookie of each browser
    queue, borrowers,   \* HASH_LIMITER: who waits, who holds a slot
    allowed,    \* history: when the attempts on a name since its last reset were allowed
    accepted,   \* history: the steps whose codes were accepted since the last reset
    made,       \* how many tokens were minted, and versions of credentials configured
    budget      \* what is left of the bounds

hashing == <<queue, borrowers>>
accountVars == <<authMode, clock, file, proc, users, attempts, live, browser, hashing,
                allowed, accepted, made, budget>>

Keys == Names \X BOOLEAN        \* the name of a User, or the HMAC of one that is no User
NoRow == [count |-> 0, until |-> 0, at |-> 0]
NoLogin == [at |-> "idle", user |-> CHOOSE u \in Names : TRUE, code |-> 0, now |-> 0]

AccountsInit ==
    /\ authMode \in {"users", "legacy"}
    /\ clock = 1
    /\ file = [u \in Names |-> 1]
    /\ proc = [p \in Processes |-> [at |-> "up", conf |-> file, read |-> file]]
    /\ users = [u \in Names |-> [digest |-> 1, step |-> 0]]
    /\ attempts = [k \in Keys |-> NoRow]
    /\ live = {}
    /\ browser = [b \in Browsers |-> [login |-> NoLogin, cookie |-> 0]]
    /\ queue = <<>> /\ borrowers = {}
    /\ allowed = [k \in Keys |-> <<>>]
    /\ accepted = [u \in Names |-> <<>>]
    /\ made = [tokens |-> 0, version |-> 1]
    /\ budget \in Scenarios

Conf(u) == proc["api"].conf[u]
InConf(u) == Conf(u) # 0
Use(what) == budget[what] > 0 /\ budget' = [budget EXCEPT ![what] = @ - 1]
Serving == proc["api"].at = "up"
LoginOf(b) == browser[b].login
LoginAt(b, step) == Serving /\ LoginOf(b).at = step
Continues(b, step) ==
    browser' = [browser EXCEPT ![b].login = IF step = "idle" THEN NoLogin ELSE [@ EXCEPT !.at = step]]

\* UserDirectory: the TOTP secret, of users mode only.
SecretOf(v) == IF authMode = "users" THEN Secret[v] ELSE 0

\* Whether an Admin without TOTP on an https site is refused.
AdminLoginRefused(v) == authMode = "users" /\ AdminOnHttps /\ Secret[v] = 0

LockSeconds(failed) ==
    IF failed < LOCK_THRESHOLD THEN 0
    ELSE Min({LOCK_BASE_SECONDS * 2 ^ Min({failed - LOCK_THRESHOLD, 16}), LOCK_MAX_SECONDS})

-----------------------------------------------------------------------------
(* The slots.  A slot that is given back goes to the head of the queue.     *)
Grants(set, q) ==
    IF q # <<>> /\ Cardinality(set) < HASH_SLOTS
    THEN borrowers' = set \cup {Head(q)} /\ queue' = Tail(q)
    ELSE borrowers' = set /\ queue' = q

Release(b) == Grants(borrowers \ {b}, queue)
LeaveQueue(b) == \E i \in DOMAIN queue : queue[i] = b /\ queue' = RemoveAt(queue, i) /\ UNCHANGED borrowers

Pending == {b \in Browsers : LoginOf(b).at \in {"wait", "hold", "verify", "dummy"}}

AskSlot(b, u) ==
    /\ LoginAt(b, "idle") /\ Use("tries")
    /\ Cardinality(Pending) < HASH_SLOTS + HASH_QUEUE_MAX
    /\ browser' = [browser EXCEPT ![b].login = [NoLogin EXCEPT !.at = "wait", !.user = u]]
    /\ Grants(borrowers, Append(queue, b))
    /\ UNCHANGED <<authMode, clock, file, proc, users, attempts, live, allowed, accepted, made>>

\* No slot within HASH_WAIT_SECONDS: busy, and nothing is counted.  A slot that
\* was granted as the wait ran out is given back.
WaitedOut(b) ==
    /\ LoginAt(b, "wait")
    /\ Continues(b, "idle")
    /\ IF b \in borrowers THEN Release(b) ELSE LeaveQueue(b)
    /\ UNCHANGED <<authMode, clock, file, proc, users, attempts, live, allowed, accepted, made, budget>>

\* The slot is there; the clock is read before the row is locked.
Resume(b) ==
    /\ LoginAt(b, "wait") /\ b \in borrowers
    /\ browser' = [browser EXCEPT ![b].login.at = "hold", ![b].login.now = clock]
    /\ UNCHANGED <<authMode, clock, file, proc, users, attempts, live, hashing, allowed, accepted, made, budget>>

-----------------------------------------------------------------------------
(* LoginAttemptRepository: one locked row.                                  *)
Forgettable(row, now) == row.until < now /\ row.at < now - PRUNE_AFTER

Prunes(rows, now) == [k \in Keys |-> IF Forgettable(rows[k], now) THEN NoRow ELSE rows[k]]

\* For the history a name is forgotten that long after its last attempt.
Forgotten(tries, now) ==
    [k \in Keys |-> IF tries[k] # <<>> /\ Last(tries[k]) < now - PRUNE_AFTER THEN <<>> ELSE tries[k]]

Locked(k, now) == attempts[k].until > now

Counted(k, now) ==
    LET failed == attempts[k].count + 1 IN
    [count |-> failed, at |-> now,
     until |-> IF LockSeconds(failed) = 0 THEN 0 ELSE now + LockSeconds(failed)]

KeyOf(u) == <<u, InConf(u)>>

\* The lock is checked and the failure counted at once, before the verify; every
\* ten minutes a login also prunes.
Claim(b, prunes) ==
    LET l == LoginOf(b)  k == KeyOf(l.user)
        rows == IF Locked(k, l.now) THEN attempts ELSE [attempts EXCEPT ![k] = Counted(k, l.now)]
        tries == IF Locked(k, l.now) THEN allowed ELSE [allowed EXCEPT ![k] = Append(@, l.now)]
    IN
    /\ LoginAt(b, "hold")
    /\ Continues(b, IF Locked(k, l.now) THEN "dummy" ELSE "verify")
    /\ attempts' = IF prunes THEN Prunes(rows, l.now) ELSE rows
    /\ allowed' = IF prunes THEN Forgotten(tries, l.now) ELSE tries
    /\ UNCHANGED <<authMode, clock, file, proc, users, live, hashing, accepted, made, budget>>

\* A locked name is answered after a verify that decides nothing.
RefuseLocked(b) ==
    /\ LoginAt(b, "dummy")
    /\ Continues(b, "idle")
    /\ Release(b)
    /\ UNCHANGED <<authMode, clock, file, proc, users, attempts, live, allowed, accepted, made, budget>>

\* The argon2 verify, in a thread, and what follows it without a call.
Verify(b, right) ==
    LET v == Conf(LoginOf(b).user) IN
    /\ LoginAt(b, "verify") /\ (right => v # 0)
    /\ Continues(b, IF ~right \/ AdminLoginRefused(v) THEN "idle"
               ELSE IF SecretOf(v) = 0 THEN "open" ELSE "code")
    /\ Release(b)
    /\ UNCHANGED <<authMode, clock, file, proc, users, attempts, live, allowed, accepted, made, budget>>

\* The step of the code is matched against the last one read ...
Match(b, code) ==
    LET l == LoginOf(b) IN
    /\ LoginAt(b, "code")
    /\ IF code \in clock - WINDOW .. clock + WINDOW /\ code > users[l.user].step
       THEN browser' = [browser EXCEPT ![b].login.at = "spend", ![b].login.code = code]
       ELSE Continues(b, "idle")
    /\ UNCHANGED <<authMode, clock, file, proc, users, attempts, live, hashing, allowed, accepted, made, budget>>

\* ... and claimed only while it is still later than the last one stored.
Spend(b) ==
    LET l == LoginOf(b) IN
    /\ LoginAt(b, "spend")
    /\ IF users[l.user].step < l.code
       THEN /\ users' = [users EXCEPT ![l.user].step = l.code]
            /\ accepted' = [accepted EXCEPT ![l.user] = Append(@, l.code)]
            /\ Continues(b, "open")
       ELSE Continues(b, "idle") /\ UNCHANGED <<users, accepted>>
    /\ UNCHANGED <<authMode, clock, file, proc, attempts, live, hashing, allowed, made, budget>>

\* The row of the name goes, the session of the cookie too; a new one is there.
OpenSession(b) ==
    LET l == LoginOf(b)
        fresh == [id |-> made.tokens + 1, user |-> l.user, version |-> Conf(l.user),
                  overtaken |-> users[l.user].digest # Conf(l.user),
                  seen |-> clock, expires |-> clock + SESSION]
    IN
    /\ LoginAt(b, "open")
    /\ live' = {s \in live : s.id # browser[b].cookie /\ s.expires >= clock} \cup {fresh}
    /\ browser' = [browser EXCEPT ![b] = [login |-> NoLogin, cookie |-> fresh.id]]
    /\ made' = [made EXCEPT !.tokens = @ + 1]
    /\ attempts' = [attempts EXCEPT ![KeyOf(l.user)] = NoRow]
    /\ allowed' = [allowed EXCEPT ![KeyOf(l.user)] = <<>>]
    /\ UNCHANGED <<authMode, clock, file, proc, users, hashing, accepted, budget>>

-----------------------------------------------------------------------------
(* What the credentials are for.                                            *)
\* Mutant: a wrong pair counts nothing.
PairUncounted(u, right, now) ==
    LET k == KeyOf(u) IN
    /\ Serving /\ InConf(u) /\ authMode = "legacy" /\ Use("tries")
    /\ ~Locked(k, now)
    /\ attempts' = [attempts EXCEPT ![k] = IF right THEN NoRow ELSE @]
    /\ allowed' = [allowed EXCEPT ![k] = IF right THEN <<>> ELSE Append(@, now)]
    /\ UNCHANGED <<authMode, clock, file, proc, users, live, browser, hashing, accepted, made>>

\* A podcast app shows the operator pair of legacy mode: the claim, the
\* comparison and the reset are one transaction on the row of the sign-in.
Pair(u, right, now) ==
    LET k == KeyOf(u) IN
    /\ Serving /\ InConf(u) /\ authMode = "legacy" /\ Use("tries")
    /\ ~Locked(k, now)
    /\ attempts' = [attempts EXCEPT ![k] = IF right THEN NoRow ELSE Counted(k, now)]
    /\ allowed' = [allowed EXCEPT ![k] = IF right THEN <<>> ELSE Append(@, now)]
    /\ UNCHANGED <<authMode, clock, file, proc, users, live, browser, hashing, accepted, made>>

\* authenticate_session: one that expired, or of a User no longer configured,
\* goes; a live one slides, at most once a minute.
UseSession(b) ==
    \E s \in live :
        /\ Serving /\ s.id = browser[b].cookie
        /\ IF s.expires <= clock \/ ~InConf(s.user) THEN live' = live \ {s}
           ELSE /\ clock - s.seen >= SESSION_TOUCH_SECONDS
                /\ live' = (live \ {s}) \cup
                                 {[s EXCEPT !.seen = clock, !.expires = clock + SESSION]}
        /\ UNCHANGED <<authMode, clock, file, proc, users, attempts, browser, hashing,
                       allowed, accepted, made, budget>>

SignOut(b) ==
    /\ Serving /\ browser[b].cookie # 0
    /\ live' = {s \in live : s.id # browser[b].cookie}
    /\ browser' = [browser EXCEPT ![b].cookie = 0]
    /\ UNCHANGED <<authMode, clock, file, proc, users, attempts, hashing, allowed, accepted, made, budget>>

-----------------------------------------------------------------------------
(* The operator, and the start of a process.                                *)
\* An entry is removed, put back, or has a new password or TOTP secret.
EditCredentials(u, v) ==
    /\ Use("edits") /\ v \in Versions \cup {0} /\ v # file[u]
    /\ v = 0 \/ v \in {made.version, made.version + 1}
    /\ file' = [file EXCEPT ![u] = v]
    /\ made' = [made EXCEPT !.version = IF v = 0 THEN @ ELSE v]
    /\ UNCHANGED <<authMode, clock, proc, users, attempts, live, browser, hashing, allowed, accepted>>

\* A process stops or dies, whatever it is doing, and starts again: what it had
\* in memory is gone, and it reads the file.
StartSync(p) ==
    /\ Use("starts")
    /\ proc' = [proc EXCEPT ![p] = [at |-> "ensure", conf |-> file, read |-> file]]
    /\ IF p = "api"
       THEN /\ browser' = [b \in Browsers |-> [browser[b] EXCEPT !.login = NoLogin]]
            /\ queue' = <<>> /\ borrowers' = {}
       ELSE UNCHANGED <<browser, hashing>>
    /\ UNCHANGED <<authMode, clock, file, users, attempts, live, allowed, accepted, made>>

\* sync_users, its first transaction: the digests as they are stored.
Ensure(p) ==
    /\ proc[p].at = "ensure"
    /\ proc' = [proc EXCEPT ![p].at = "sync", ![p].read = [u \in Names |-> users[u].digest]]
    /\ UNCHANGED <<authMode, clock, file, users, attempts, live, browser, hashing,
                   allowed, accepted, made, budget>>

\* Mutant: the digest is of the TOTP secret alone.
ChangedSecrets(p) ==
    {u \in Names : proc[p].conf[u] # 0 /\ SecretOf(proc[p].read[u]) # SecretOf(proc[p].conf[u])}

ChangedCredentials(p) ==
    {u \in Names : proc[p].conf[u] # 0 /\ proc[p].read[u] # proc[p].conf[u]}

\* Its second one.  What it found changed it computed between the two.
Sync(p) ==
    LET changed == ChangedCredentials(p) IN
    /\ proc[p].at = "sync"
    /\ proc' = [proc EXCEPT ![p].at = "up"]
    /\ live' = {s \in live : /\ s.user \notin changed
                                     /\ proc[p].conf[s.user] # 0
                                     /\ s.expires >= clock}
    /\ users' = [u \in Names |-> IF u \in changed THEN [digest |-> proc[p].conf[u], step |-> 0]
                                 ELSE users[u]]
    /\ accepted' = [u \in Names |-> IF u \in changed THEN <<>> ELSE accepted[u]]
    /\ attempts' = Prunes(attempts, clock)
    /\ allowed' = Forgotten(allowed, clock)
    /\ UNCHANGED <<authMode, clock, file, browser, hashing, made, budget>>

TimePasses ==
    /\ Use("ticks") /\ clock' = clock + 1
    /\ UNCHANGED <<authMode, file, proc, users, attempts, live, browser, hashing,
                   allowed, accepted, made>>

Answer(b) ==
    \/ Resume(b) \/ RefuseLocked(b) \/ Spend(b) \/ OpenSession(b)
    \/ \E prunes \in BOOLEAN : Claim(b, prunes)
    \/ \E right \in BOOLEAN : Verify(b, right)
    \/ \E code \in 0..clock + WINDOW : Match(b, code)

AccountsNext ==
    \/ \E b \in Browsers :
         \/ \E u \in Names : AskSlot(b, u)
         \/ WaitedOut(b) \/ Answer(b) \/ UseSession(b) \/ SignOut(b)
    \/ \E u \in Names, right \in BOOLEAN : Pair(u, right, clock)
    \/ \E u \in Names, v \in Versions \cup {0} : EditCredentials(u, v)
    \/ \E p \in Processes : StartSync(p) \/ Ensure(p) \/ Sync(p)
    \/ TimePasses

-----------------------------------------------------------------------------
\* "a burst of guesses, from any number of processes, never verifies more of
\* them than the lock allows" (auth.py:11-13): from the threshold on, each attempt
\* that reaches the password comes a whole lock after the one before, whether it
\* came through the sign-in or through a Feed, and whatever was pruned meanwhile.
GuessesSpaced ==
    \A k \in Keys : \A i \in 1..Len(allowed[k]) - 1 :
        allowed[k][i + 1] >= allowed[k][i] + LockSeconds(i) \/ i < LOCK_THRESHOLD

\* A TOTP code is good once: of two logins with one code, or with one that is
\* older, the later is refused, though both had matched it.
CodeGoodOnce ==
    \A u \in Names : \A i, j \in DOMAIN accepted[u] : i < j => accepted[u][i] < accepted[u][j]

\* "the restart signs that user out of every session, so nobody keeps a session
\* opened with the old password" (docs/operations.md:740-741): while the api serves, no
\* session was opened with credentials it does not have, in whatever order the two
\* processes start, with whatever file, and wherever they die; but for one opened with
\* the old password after the worker had stored the new one, which the api that starts
\* next takes for current.
NobodyKeepsASession ==
    Serving => \A s \in live : s.version = Conf(s.user) \/ s.overtaken

\* No more slots are held than there are, each by a login that is still there to give it
\* back, and nobody waits for a slot that is free.
NoSlotLost ==
    /\ Cardinality(borrowers) <= HASH_SLOTS
    /\ \A b \in borrowers : LoginOf(b).at \in {"wait", "hold", "verify", "dummy"}
    /\ queue # <<>> => Cardinality(borrowers) = HASH_SLOTS

\* All three: what a login may do is bounded, however logins and requests race.
LoginsAreBounded == GuessesSpaced /\ CodeGoodOnce /\ NoSlotLost
=============================================================================
