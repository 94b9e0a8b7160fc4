-------------------------- MODULE SessionEventBus --------------------------
(***************************************************************************)
(* The per-session event bus of bharatcode-server and the SSE stream that  *)
(* drains it: crates/bharatcode-server/src/session_event_bus.rs and the    *)
(* GET /sessions/{id}/events handler of routes/session_events.rs.          *)
(*                                                                         *)
(* publish has two steps, because the buffer lock is released before the   *)
(* broadcast: Push (number and store the event) and Broadcast (hand it to  *)
(* the live receivers).  subscribe has two steps as well: Connect creates  *)
(* the live receiver, Snapshot reads the replay buffer.  An event is its   *)
(* sequence number: no property here depends on a payload.                 *)
(***************************************************************************)
EXTENDS Integers, Sequences, FiniteSets, Functions

CONSTANTS
    Publishers,     \* reply tasks that publish to the bus
    Clients,        \* SSE clients, one connection each at a time
    ReplayCap,      \* REPLAY_BUFFER_CAPACITY
    BroadcastCap,   \* BROADCAST_CAPACITY
    OutCap,         \* frames between the streaming task and the client
    MaxSeq,         \* bound: events published by one server process
    MaxDrops,       \* bound: connections the clients lose
    MaxRestarts     \* bound: restarts of the server process

ASSUME BusAssumption ==
    /\ ReplayCap \in Nat \ {0}
    /\ BroadcastCap \in Nat \ {0}
    /\ OutCap \in Nat \ {0}
    /\ MaxSeq \in Nat
    /\ MaxDrops \in Nat
    /\ MaxRestarts \in Nat

VARIABLES
    next_seq,       \* the number of the next event
    buffer,         \* the replay buffer, oldest first
    sending,        \* publisher -> event stored but not broadcast yet, or 0
    phase,          \* client -> phase of its connection
    rx,             \* client -> live events its receiver holds
    lagged,         \* client -> the receiver has lost its oldest events
    replay,         \* client -> replayed events still to be sent
    replay_max_seq, \* client -> live events up to here are duplicates
    out,            \* client -> frames sent and not yet received
    cursor,         \* client -> its Last-Event-ID, 0 when it has none
    drops, restarts,
    \* History variables, read by the properties only.
    start,          \* client -> the newest event the connection need not carry
    sent,           \* client -> events put on the current connection
    stale,          \* client -> cursor was issued by an earlier process
    overtaken       \* an event was broadcast before one numbered earlier

busVars    == <<next_seq, buffer, sending, overtaken>>
streamVars == <<phase, rx, lagged, replay, replay_max_seq, out, start, sent>>
clientVars == <<cursor, stale>>
faultVars  == <<drops, restarts>>
vars == <<busVars, streamVars, clientVars, faultVars>>

KeepAll(s, n) == s                                             \* mutant of LastN

\* The last n elements of s: what is left after popping the front down to n.
LastN(s, n) == IF Len(s) > n THEN SubSeq(s, Len(s) - n + 1, Len(s)) ELSE s

-----------------------------------------------------------------------------
Init ==
    /\ next_seq = 1
    /\ buffer = <<>>
    /\ sending = [p \in Publishers |-> 0]
    /\ phase = [c \in Clients |-> "closed"]
    /\ rx = [c \in Clients |-> <<>>]
    /\ lagged = [c \in Clients |-> FALSE]
    /\ replay = [c \in Clients |-> <<>>]
    /\ replay_max_seq = [c \in Clients |-> 0]
    /\ out = [c \in Clients |-> <<>>]
    /\ cursor = [c \in Clients |-> 0]
    /\ drops = 0
    /\ restarts = 0
    /\ start = [c \in Clients |-> 0]
    /\ sent = [c \in Clients |-> {}]
    /\ stale = [c \in Clients |-> FALSE]
    /\ overtaken = FALSE

(***************************************************************************)
(* publish, first half: under the buffer lock the event takes the next     *)
(* number, enters the buffer and evicts the oldest ones.                   *)
(***************************************************************************)
Push(p) ==
    /\ sending[p] = 0
    /\ next_seq <= MaxSeq
    /\ buffer' = LastN(Append(buffer, next_seq), ReplayCap)
    /\ sending' = [sending EXCEPT ![p] = next_seq]
    /\ next_seq' = next_seq + 1
    /\ UNCHANGED <<overtaken, streamVars, clientVars, faultVars>>

\* The connections whose receiver exists.
Receivers == {c \in Clients : phase[c] \in {"subscribing", "streaming"}}

(***************************************************************************)
(* publish, second half: the broadcast channel.  A receiver that falls     *)
(* more than its capacity behind loses its oldest event and is told so.    *)
(***************************************************************************)
Broadcast(p) ==
    /\ sending[p] # 0
    /\ rx' = [c \in Clients |->
                IF c \in Receivers
                THEN LastN(Append(rx[c], sending[p]), BroadcastCap)
                ELSE rx[c]]
    /\ lagged' = [c \in Clients |->
                    \/ lagged[c]
                    \/ c \in Receivers /\ Len(rx[c]) >= BroadcastCap]
    /\ sending' = [sending EXCEPT ![p] = 0]
    /\ overtaken' = \/ overtaken
                     \/ \E q \in Publishers : sending[q] \in 1..(sending[p] - 1)
    /\ UNCHANGED <<next_seq, buffer, phase, replay, replay_max_seq, out,
                   start, sent, clientVars, faultVars>>

-----------------------------------------------------------------------------
\* The receiver and what was to be replayed go with the task that held them.
DropReceiver(c) ==
    /\ rx' = [rx EXCEPT ![c] = <<>>]
    /\ lagged' = [lagged EXCEPT ![c] = FALSE]
    /\ replay' = [replay EXCEPT ![c] = <<>>]
    /\ replay_max_seq' = [replay_max_seq EXCEPT ![c] = 0]

\* subscribe, first half: the live receiver is created before the snapshot.
Connect(c) ==
    /\ phase[c] = "closed"
    /\ phase' = [phase EXCEPT ![c] = "subscribing"]
    /\ UNCHANGED <<busVars, rx, lagged, replay, replay_max_seq, out, start,
                   sent, clientVars, faultVars>>

BufMin == IF buffer = <<>> THEN 0 ELSE buffer[1]
BufMax == IF buffer = <<>> THEN 0 ELSE buffer[Len(buffer)]
Lesser(a, b) == IF a < b THEN a ELSE b

\* The events after id; the buffer is in order, so they are its last ones.
Newer(id) == LastN(buffer, Cardinality({i \in DOMAIN buffer : buffer[i] > id}))

NeverTooFar(id) == FALSE                                \* mutant of TooFarBehind

TooFarBehind(id) == id > 0 /\ BufMin > 0 /\ id < BufMin

\* Mutants of ReplayMax: not clamped to the buffer, the entry before the last.
Unclamped(id) == IF Newer(id) # <<>> THEN BufMax ELSE id
OneTooLow(id) == IF Newer(id) # <<>> THEN BufMax - 1 ELSE Lesser(id, BufMax)
TooLow(id) == Lesser(id, BufMax) - 1

ReplayMax(id) ==
    IF Newer(id) # <<>> THEN Newer(id)[Len(Newer(id))] ELSE Lesser(id, BufMax)

FrameWithCursor(c) == cursor[c]                           \* mutant of ErrorSeq

\* The id of the "Client too far behind" frame.
ErrorSeq(c) == 0

\* subscribe refuses a cursor older than the buffer: one Error frame, id 0.
Refuse(c) ==
    /\ phase[c] = "subscribing"
    /\ TooFarBehind(cursor[c])
    /\ phase' = [phase EXCEPT ![c] = "ending"]
    /\ out' = [out EXCEPT ![c] = <<ErrorSeq(c)>>]
    /\ DropReceiver(c)
    /\ UNCHANGED <<busVars, start, sent, clientVars, faultVars>>

\* subscribe, second half: under the buffer lock, what to replay and where
\* the live events start.
Snapshot(c) ==
    /\ phase[c] = "subscribing"
    /\ ~TooFarBehind(cursor[c])
    /\ phase' = [phase EXCEPT ![c] = "streaming"]
    /\ replay' = [replay EXCEPT ![c] = Newer(cursor[c])]
    /\ replay_max_seq' = [replay_max_seq EXCEPT ![c] = ReplayMax(cursor[c])]
    /\ start' = [start EXCEPT ![c] =
                    IF cursor[c] = 0 /\ buffer # <<>> THEN BufMin - 1
                    ELSE Lesser(cursor[c], next_seq - 1)]
    /\ sent' = [sent EXCEPT ![c] = {}]
    /\ UNCHANGED <<busVars, rx, lagged, out, clientVars, faultVars>>

-----------------------------------------------------------------------------
Emit(c, s) ==
    /\ Len(out[c]) < OutCap
    /\ out' = [out EXCEPT ![c] = Append(@, s)]
    /\ sent' = [sent EXCEPT ![c] = @ \cup {s}]

\* The streaming task sends the replayed events first ...
SendReplay(c) ==
    /\ phase[c] = "streaming"
    /\ replay[c] # <<>>
    /\ Emit(c, Head(replay[c]))
    /\ replay' = [replay EXCEPT ![c] = Tail(@)]
    /\ UNCHANGED <<busVars, phase, rx, lagged, replay_max_seq, start,
                   clientVars, faultVars>>

\* ... and then the live ones, of which it skips those it has replayed.
SendLive(c) ==
    /\ phase[c] = "streaming"
    /\ replay[c] = <<>>
    /\ ~lagged[c]
    /\ rx[c] # <<>>
    /\ IF Head(rx[c]) <= replay_max_seq[c]
       THEN UNCHANGED <<out, sent>>
       ELSE Emit(c, Head(rx[c]))
    /\ rx' = [rx EXCEPT ![c] = Tail(@)]
    /\ UNCHANGED <<busVars, phase, lagged, replay, replay_max_seq, start,
                   clientVars, faultVars>>

\* A receiver that lagged ends the stream, so that the client reconnects.
Lagged(c) ==
    /\ phase[c] = "streaming"
    /\ replay[c] = <<>>
    /\ lagged[c]
    /\ phase' = [phase EXCEPT ![c] = "ending"]
    /\ DropReceiver(c)
    /\ UNCHANGED <<busVars, out, start, sent, clientVars, faultVars>>

-----------------------------------------------------------------------------
\* The client remembers the id of every frame it receives.
Deliver(c) ==
    /\ out[c] # <<>>
    /\ cursor' = [cursor EXCEPT ![c] = Head(out[c])]
    /\ stale' = [stale EXCEPT ![c] = FALSE]
    /\ out' = [out EXCEPT ![c] = Tail(@)]
    /\ UNCHANGED <<busVars, phase, rx, lagged, replay, replay_max_seq, start,
                   sent, faultVars>>

\* The client has read the last frame of a stream the server has ended.
EndOfStream(c) ==
    /\ phase[c] = "ending"
    /\ out[c] = <<>>
    /\ phase' = [phase EXCEPT ![c] = "closed"]
    /\ UNCHANGED <<busVars, rx, lagged, replay, replay_max_seq, out, start,
                   sent, clientVars, faultVars>>

\* The connection breaks: the frames on it are lost.
Disconnect(c) ==
    /\ phase[c] # "closed"
    /\ drops < MaxDrops
    /\ drops' = drops + 1
    /\ phase' = [phase EXCEPT ![c] = "closed"]
    /\ out' = [out EXCEPT ![c] = <<>>]
    /\ DropReceiver(c)
    /\ UNCHANGED <<busVars, start, sent, clientVars, restarts>>

\* A new server process starts with an empty bus; the clients keep cursors.
Restart ==
    /\ restarts < MaxRestarts
    /\ restarts' = restarts + 1
    /\ next_seq' = 1
    /\ buffer' = <<>>
    /\ sending' = [p \in Publishers |-> 0]
    /\ overtaken' = FALSE
    /\ phase' = [c \in Clients |-> "closed"]
    /\ out' = [c \in Clients |-> <<>>]
    /\ rx' = [c \in Clients |-> <<>>]
    /\ lagged' = [c \in Clients |-> FALSE]
    /\ replay' = [c \in Clients |-> <<>>]
    /\ replay_max_seq' = [c \in Clients |-> 0]
    /\ stale' = [c \in Clients |-> cursor[c] # 0]
    /\ UNCHANGED <<start, sent, cursor, drops>>

-----------------------------------------------------------------------------
Stream(c) ==
    \/ Connect(c)    \/ Refuse(c)   \/ Snapshot(c)
    \/ SendReplay(c) \/ SendLive(c) \/ Lagged(c)
    \/ Deliver(c)    \/ EndOfStream(c)

Next ==
    \/ \E p \in Publishers : Push(p) \/ Broadcast(p)
    \/ \E c \in Clients : Stream(c) \/ Disconnect(c)
    \/ Restart

Spec == Init /\ [][Next]_vars

\* A publisher that stored an event goes on to broadcast it; the streaming
\* task runs; a client reads its stream and reconnects when it ends.
Fairness ==
    /\ \A p \in Publishers : WF_vars(Broadcast(p))
    /\ \A c \in Clients : WF_vars(Stream(c))

FairSpec == Spec /\ Fairness

-----------------------------------------------------------------------------
\* Types of the variables.
TypeOK ==
    /\ next_seq \in Nat \ {0}
    /\ buffer \in Seq(Nat)
    /\ sending \in [Publishers -> Nat]
    /\ phase \in [Clients -> {"closed", "subscribing", "streaming", "ending"}]
    /\ rx \in [Clients -> Seq(Nat)]
    /\ lagged \in [Clients -> BOOLEAN]
    /\ replay \in [Clients -> Seq(Nat)]
    /\ replay_max_seq \in [Clients -> Nat]
    /\ out \in [Clients -> Seq(Nat)]
    /\ cursor \in [Clients -> Nat]
    /\ drops \in Nat
    /\ restarts \in Nat
    /\ start \in [Clients -> Int]
    /\ sent \in [Clients -> SUBSET Nat]
    /\ stale \in [Clients -> BOOLEAN]
    /\ overtaken \in BOOLEAN

\* The replay buffer holds exactly the newest events, in order and without a
\* hole, as many as its capacity allows (publish numbers under the lock).
BufferHoldsNewest ==
    /\ Len(buffer) = Lesser(next_seq - 1, ReplayCap)
    /\ \A i \in 1..Len(buffer) : buffer[i] = next_seq - 1 - Len(buffer) + i

\* Events on their way to connection c.
InFlight(c) ==
    sent[c] \cup Range(replay[c]) \cup Range(rx[c])
        \cup {sending[p] : p \in Publishers}

\* "no event can fall into the gap" between the live receiver and the
\* snapshot (subscribe): every event after the client's cursor that was ever
\* published is on the connection or on its way to it, whatever publishers
\* do between the steps of subscribe, unless the receiver lagged.
NoGapAtHandoff ==
    \A c \in Clients :
        phase[c] = "streaming" /\ ~lagged[c] =>
            \A s \in 1..(next_seq - 1) : s > start[c] => s \in InFlight(c)

\* The replay/live handoff of session_events sends no event twice on one
\* connection.
NoDuplicateFrame ==
    [][\A c \in Clients :
         Len(out'[c]) > Len(out[c]) /\ phase'[c] = "streaming" =>
            out'[c][Len(out'[c])] \notin sent[c]]_vars

\* As long as no publisher has overtaken another between its two steps, a
\* client sees every event once and in order, across lost connections, lags
\* and reconnects with Last-Event-ID: a cursor of this process only moves to
\* the next event, or back to 0 after the server told it to reload.
ContiguousDelivery ==
    [][\A c \in Clients :
         cursor'[c] # cursor[c] /\ cursor[c] # 0 /\ ~stale[c] /\ ~overtaken =>
            cursor'[c] \in {cursor[c] + 1, 0}]_vars

\* publish's comment says concurrent callers cannot reorder events, "seq=2
\* published before seq=1": a receiver's live events are in order.
LiveInOrder ==
    \A c \in Clients : \A i, j \in 1..Len(rx[c]) :
        i < j => rx[c][i] < rx[c][j]

\* Every published event reaches every client that keeps reconnecting, unless
\* publishers overtake each other or the process restarts first.  (A cursor of
\* an earlier process covers the numbers up to it: subscribe cannot tell, and
\* what is in the buffer by then is not replayed.)
EventuallyDelivered ==
    \A c \in Clients : \A s \in 1..MaxSeq :
        (next_seq > s) ~> (cursor[c] >= s \/ next_seq <= s \/ overtaken)
=============================================================================
