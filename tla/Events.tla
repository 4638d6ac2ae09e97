------------------------------- MODULE Events -------------------------------
(***************************************************************************)
(* The EventHub of one api process (adapters/api/events.py) and the event  *)
(* streams it serves (adapters/api/routes/events.py): what transactions    *)
(* NOTIFY after their commit is numbered once for the instance and once    *)
(* for its Owner, kept for replay, and fanned out to bounded queues.  A    *)
(* client that reconnects names the last number it saw.                    *)
(*                                                                         *)
(* Frames carry no data here but the number of the committed change they   *)
(* announce; a resync, number 0, tells the client to fetch everything.     *)
(***************************************************************************)
EXTENDS Integers, Sequences, FiniteSets

CONSTANTS
    Owners,       \* Users whose Feeds change
    All,          \* the instance view, of Admins
    NoOwner,      \* of an event about no Feed and nobody's job
    Streamers,
    Watched,      \* the views clients may have, at first: Owners and All
    BufferSize,   \* events kept per view for replay
    QueueSize,    \* events a subscription holds
    EventBudgets  \* bounds: changes committed, and mishaps: drops, restarts,
                  \* cuts and sign-outs

ASSUME EventsAssumption ==
    /\ All \notin Owners /\ NoOwner \notin Owners \cup {All}
    /\ Watched \subseteq Owners \cup {All}
    /\ BufferSize \in Nat \ {0} /\ QueueSize \in Nat \ {0}
    /\ \A b \in EventBudgets : b.changes \in Nat /\ b.mishaps \in Nat

VARIABLES
    sent,     \* the Owner of each committed change, in commit order
    wire,     \* the notifications on their way to the hub
    hub,      \* the process: its incarnation, its LISTEN connection
    view,     \* per view: its next number and its replay buffer
    sub,      \* the subscription of each client
    client,   \* what each client knows and the last number it was sent
    left      \* what remains of a member of EventBudgets

eventVars == <<sent, wire, hub, view, sub, client, left>>

Views  == Owners \cup {All}
Pays   == left.mishaps > 0 /\ left' = [left EXCEPT !.mishaps = @ - 1]
Resync == 0
NoNumber == -1

\* visible_to: a resync, everything for an Admin, one's own events.
Sees(v, e) == e = Resync \/ v = All \/ sent[e] = v

NoView  == [on |-> FALSE, next |-> 1, buf |-> <<>>]
NoSub   == [open |-> FALSE, closed |-> FALSE, queue |-> <<>>]
StartedViews == [v \in Views |-> [NoView EXCEPT !.on = (v = All)]]

\* A browser fetches everything whenever it reconnects, another client does not.
ClientStarts == [watch : Watched, reloads : BOOLEAN, last : {NoNumber}, run : {1},
                 seen : {{}}, early : {FALSE}, valid : {TRUE}]

EventInit ==
    /\ sent = <<>> /\ wire = <<>>
    /\ hub = [run |-> 1, listening |-> FALSE, ever |-> FALSE]
    /\ view = StartedViews
    /\ sub = [c \in Streamers |-> NoSub]
    /\ client \in [Streamers -> ClientStarts]
    /\ left \in EventBudgets

-----------------------------------------------------------------------------
(* EventHub.publish: number, buffer, fan out.                               *)

\* deque(maxlen)
Kept(buf) == IF Len(buf) > BufferSize THEN Tail(buf) ELSE buf

\* The views an event belongs to; an Owner's exists from its first event.
ViewsOf(e) == {All} \cup IF e = Resync THEN {v \in Owners : view[v].on}
                         ELSE {sent[e]} \cap Owners

\* mutant: one numbering for everybody
EnvelopeGlobal(e) ==
    [ev |-> e, ids |-> [v \in Views |-> IF v \in ViewsOf(e) THEN view[All].next ELSE 0]]

\* The envelope of e: its number in every view it belongs to.
Envelope(e) == [ev |-> e, ids |-> [v \in Views |-> IF v \in ViewsOf(e) THEN view[v].next ELSE 0]]

\* mutant: a queue that is full drops the event
OfferDrops(s, envelope) ==
    IF s.closed \/ Len(s.queue) = QueueSize THEN s
    ELSE [s EXCEPT !.queue = Append(@, envelope)]

\* offer: a queue that is full ends its stream.
Offer(s, envelope) ==
    IF s.closed THEN s
    ELSE IF Len(s.queue) = QueueSize THEN [s EXCEPT !.closed = TRUE]
    ELSE [s EXCEPT !.queue = Append(@, envelope)]

Publish(e) ==
    LET envelope == Envelope(e)
    IN  /\ view' = [v \in Views |->
                       IF v \in ViewsOf(e)
                       THEN [on |-> TRUE, next |-> view[v].next + 1,
                             buf |-> Kept(Append(view[v].buf, envelope))]
                       ELSE view[v]]
        /\ sub' = [c \in Streamers |->
                      IF sub[c].open /\ Sees(client[c].watch, e) THEN Offer(sub[c], envelope) ELSE sub[c]]

-----------------------------------------------------------------------------
(* Transactions, Postgres and the LISTEN connection.                        *)

\* UnitOfWork.publish: a NOTIFY of the transaction, delivered with its commit to
\* whoever listens then.
Announce(o) ==
    /\ Len(sent) < left.changes
    /\ sent' = Append(sent, o)
    /\ wire' = IF hub.listening THEN Append(wire, Len(sent) + 1) ELSE wire
    /\ UNCHANGED <<hub, view, sub, client, left>>

Handle ==
    /\ wire # <<>>
    /\ Publish(Head(wire))
    /\ wire' = Tail(wire)
    /\ UNCHANGED <<sent, hub, client, left>>

\* mutant: a reconnection is not announced
ListenQuietly ==
    /\ ~hub.listening
    /\ hub' = [hub EXCEPT !.listening = TRUE, !.ever = TRUE]
    /\ UNCHANGED <<sent, wire, view, sub, client, left>>

\* _listen: every connection but the first announces that events may be missing.
Listen ==
    /\ ~hub.listening
    /\ hub' = [hub EXCEPT !.listening = TRUE, !.ever = TRUE]
    /\ IF hub.ever THEN Publish(Resync) ELSE UNCHANGED <<view, sub>>
    /\ UNCHANGED <<sent, wire, client, left>>

\* The connection drops with what was on it.
Drop ==
    /\ hub.listening /\ Pays
    /\ hub' = [hub EXCEPT !.listening = FALSE]
    /\ wire' = <<>>
    /\ UNCHANGED <<sent, view, sub, client>>

\* A new process, which numbers from one.
HubRestarts ==
    /\ Pays
    /\ hub' = [run |-> hub.run + 1, listening |-> FALSE, ever |-> FALSE]
    /\ wire' = <<>>
    /\ view' = StartedViews
    /\ sub' = [c \in Streamers |-> NoSub]
    /\ UNCHANGED <<sent, client>>

-----------------------------------------------------------------------------
(* Streams.                                                                 *)

\* What of a buffer is numbered after last: the end of it, as the numbers ascend.
After(buf, v, last) ==
    LET told == CHOOSE n \in 0 .. Len(buf) : \A k \in DOMAIN buf : buf[k].ids[v] > last <=> k > n
    IN  SubSeq(buf, told + 1, Len(buf))

\* What subscribe replays after the number last of view v, after a resync when
\* that number is older than the buffer or not given yet.
Replay(v, last) ==
    LET buf    == view[v].buf
        next   == view[v].next
        oldest == IF buf = <<>> THEN next ELSE buf[1].ids[v]
        gap    == [ev |-> Resync, ids |-> [w \in Views |-> IF w = v THEN next - 1 ELSE 0]]
    IN  (IF last + 1 < oldest \/ last >= next THEN <<gap>> ELSE <<>>) \o After(buf, v, last)

\* What fits; the rest ends the stream, and the client asks again.
Filled(frames) ==
    [open |-> TRUE, closed |-> Len(frames) > QueueSize,
     queue |-> SubSeq(frames, 1, IF Len(frames) > QueueSize THEN QueueSize ELSE Len(frames))]

\* A first stream starts with what the client loaded; a later one resumes after
\* the last number it was sent.
Connect(c) ==
    LET v     == client[c].watch
        last  == client[c].last
        fresh == last = NoNumber \/ client[c].reloads
    IN  /\ ~sub[c].open /\ client[c].valid
        /\ view' = [view EXCEPT ![v].on = TRUE]
        /\ sub' = [sub EXCEPT ![c] = Filled(IF last = NoNumber THEN <<>> ELSE Replay(v, last))]
        /\ client' = [client EXCEPT ![c].seen  = IF fresh THEN DOMAIN sent ELSE @,
                                    ![c].run   = IF fresh THEN hub.run ELSE @,
                                    ![c].early = ~hub.ever \/ (@ /\ ~fresh)]
        /\ UNCHANGED <<sent, wire, hub, left>>

\* One frame; a resync has the client fetch everything.
Deliver(c) ==
    LET envelope == Head(sub[c].queue)
    IN  /\ sub[c].open /\ sub[c].queue # <<>>
        /\ sub' = [sub EXCEPT ![c].queue = Tail(@)]
        /\ client' = [client EXCEPT
              ![c].last  = envelope.ids[client[c].watch],
              ![c].seen  = IF envelope.ev = Resync THEN DOMAIN sent ELSE @ \cup {envelope.ev},
              ![c].run   = IF envelope.ev = Resync THEN hub.run ELSE @,
              ![c].early = ~hub.ever \/ (@ /\ envelope.ev # Resync)]
        /\ UNCHANGED <<sent, wire, hub, view, left>>

StreamEnds(c) ==
    /\ sub[c].open /\ sub[c].closed /\ sub[c].queue = <<>>
    /\ sub' = [sub EXCEPT ![c] = NoSub]
    /\ UNCHANGED <<sent, wire, hub, view, client, left>>

\* The network or the browser: what was queued is gone.
Breaks(c) ==
    /\ sub[c].open /\ Pays
    /\ sub' = [sub EXCEPT ![c] = NoSub]
    /\ UNCHANGED <<sent, wire, hub, view, client>>

\* The session is signed out or expires, or its User is removed.
SignOut(c) ==
    /\ client[c].valid /\ Pays
    /\ client' = [client EXCEPT ![c].valid = FALSE]
    /\ UNCHANGED <<sent, wire, hub, view, sub>>

\* _recheck: every minute, while the stream is open.
Recheck(c) ==
    /\ sub[c].open /\ ~sub[c].closed /\ ~client[c].valid
    /\ sub' = [sub EXCEPT ![c].closed = TRUE]
    /\ UNCHANGED <<sent, wire, hub, view, client, left>>

-----------------------------------------------------------------------------
StreamStep(c) == Deliver(c) \/ StreamEnds(c)

EventNext ==
    \/ \E o \in Owners \cup {NoOwner} : Announce(o)
    \/ Handle \/ Listen \/ Drop \/ HubRestarts
    \/ \E c \in Streamers : Connect(c) \/ StreamStep(c) \/ Breaks(c) \/ SignOut(c) \/ Recheck(c)

-----------------------------------------------------------------------------
\* What an open stream will still bring its client without a reconnection.
Coming(c, e) ==
    \/ \E k \in DOMAIN sub[c].queue : sub[c].queue[k].ev \in {e, Resync}
    \/ \E k \in DOMAIN wire : wire[k] = e
    \/ ~hub.listening /\ hub.ever

Due(c) == {e \in DOMAIN sent \ client[c].seen : Sees(client[c].watch, e)}

\* Whatever overflows, disconnects or reconnects, an open stream owes its client
\* every change it may see: known, queued, on the wire, or covered by a resync; a
\* stream that cannot is closed, and the client asks again.  Clients from before
\* a restart of the process or before its first LISTEN are left out (see below).
NoSilentGap ==
    \A c \in Streamers :
        (sub[c].open /\ ~sub[c].closed /\ client[c].run = hub.run /\ ~client[c].early)
            => \A e \in Due(c) : Coming(c, e)

\* A Member's frames are numbered by the Member's own events: the numbers on one
\* stream are consecutive, whatever anybody else does, but for a replay gap.
OwnNumbers ==
    \A c \in Streamers : client[c].watch # All =>
        \A k \in 1 .. Len(sub[c].queue) - 1 :
            LET id(n) == sub[c].queue[n].ids[client[c].watch]
            IN  sub[c].queue[k].ev # Resync => id(k + 1) = id(k) + 1

\* A client that is signed in has been brought every change it may see (those
\* left out above excepted); one that is not has no stream.
Settled(c) ==
    IF client[c].valid
    THEN Due(c) = {} \/ client[c].early \/ client[c].run # hub.run
    ELSE ~sub[c].open

\* Every change reaches every client that may see it and stays signed in, as a
\* frame or through a resync, and no stream outlives the sign-in it was opened
\* with for ever.
StreamsSettle == \A c \in Streamers : []<>Settled(c)
=============================================================================
