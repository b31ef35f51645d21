-------------------------------- MODULE Hub ---------------------------------
(***************************************************************************)
(* The fan-out of broadcasts to the browsers connected to one topic,       *)
(* internal/controlplane/ws/hub.go.  Broadcast runs in the goroutine of    *)
(* whoever has something to tell; a connection has a goroutine that writes *)
(* (ServeTopic, writePump) and one that reads; they share the channel      *)
(* client.send and a closeOnce.  Topics share nothing, so there is one.    *)
(*                                                                         *)
(* A lock held only to copy or change the set of subscribers makes that    *)
(* one action; every channel operation and every network write is one.     *)
(* Pings that succeed change nothing and are left out.                     *)
(***************************************************************************)
EXTENDS Naturals, Sequences

CONSTANTS
    Clients,          \* the connections that may be made, each used once
    Broadcasters,     \* the goroutines that broadcast
    SendBuffer,       \* capacity of client.send
    MaxBroadcasts     \* bound on the broadcasts of each goroutine

ASSUME HubAssumption ==
    /\ SendBuffer \in Nat \ {0}
    /\ MaxBroadcasts \in Nat

VARIABLES
    subs,         \* h.topics[topic]
    send,         \* client -> the messages in its channel
    closed,       \* the clients whose channel is closed
    pump,         \* client -> where ServeTopic is
    writing,      \* client -> the message being written, at most one
    reader,       \* client -> whether the read pump runs
    network,      \* client -> whether the browser is still there
    cast,         \* broadcaster -> the broadcast it is in
    made,         \* broadcaster -> how many broadcasts it has begun
    received,     \* observer: client -> what its browser got, in order
    joined        \* observer: client -> made when it subscribed

vars == <<subs, send, closed, pump, writing, reader, network, cast, made, received, joined>>

Messages == [from : Broadcasters, number : 1..MaxBroadcasts]

\* new: not connected.  ready: in the select of writePump.  writing: in
\* WriteMessage.  left: writePump has returned.  unsubscribed, done: so has
\* unsubscribe, and then conn.Close.
PumpStates == {"new", "ready", "writing", "left", "unsubscribed", "done"}

\* todo: clients of the copied list not tried yet; full: the one whose
\* trySend has just failed.
Idle == [todo |-> {}, full |-> {}, active |-> FALSE]

Casts == [todo : SUBSET Clients, full : SUBSET Clients, active : BOOLEAN]

HubTypeOK ==
    /\ subs \subseteq Clients
    /\ send \in [Clients -> Seq(Messages)]
    /\ \A c \in Clients : Len(send[c]) <= SendBuffer
    /\ closed \subseteq Clients
    /\ pump \in [Clients -> PumpStates]
    /\ writing \in [Clients -> Seq(Messages)]
    /\ \A c \in Clients : Len(writing[c]) <= 1
    /\ reader \in [Clients -> {"new", "running", "done"}]
    /\ network \in [Clients -> {"up", "gone"}]
    /\ cast \in [Broadcasters -> Casts]
    /\ made \in [Broadcasters -> 0..MaxBroadcasts]
    /\ received \in [Clients -> Seq(Messages)]
    /\ joined \in [Clients -> [Broadcasters -> 0..MaxBroadcasts]]

Closed(c) == c \in closed

Message(b) == [from |-> b, number |-> made[b]]

\* c.closeOnce.Do(close(c.send)): of several goroutines that want to close it
\* one does.
CloseSend(c) == closed' = closed \cup {c}

-----------------------------------------------------------------------------
(* Broadcast.                                                              *)

\* The list of clients is copied under the read lock.
BeginBroadcast(b) ==
    /\ ~cast[b].active
    /\ made[b] < MaxBroadcasts
    /\ made' = [made EXCEPT ![b] = @ + 1]
    /\ cast' = [cast EXCEPT ![b] = [todo |-> subs, full |-> {}, active |-> TRUE]]
    /\ UNCHANGED <<subs, send, closed, pump, writing, reader, network, received, joined>>

\* Mutant: the oldest message makes room for the new one.
TrySendEvicting(b, c) ==
    LET fits == ~Closed(c)
        kept == IF Len(send[c]) < SendBuffer THEN send[c] ELSE Tail(send[c])
    IN  /\ c \in cast[b].todo
        /\ cast[b].full = {}
        /\ send' = IF fits THEN [send EXCEPT ![c] = Append(kept, Message(b))] ELSE send
        /\ cast' = [cast EXCEPT ![b].todo = @ \ {c},
                                ![b].full = IF fits THEN {} ELSE {c}]
        /\ UNCHANGED <<subs, closed, pump, writing, reader, network, made, received, joined>>

\* Mutant: the send waits for room.
TrySendWaiting(b, c) ==
    /\ c \in cast[b].todo
    /\ cast[b].full = {}
    /\ Closed(c) \/ Len(send[c]) < SendBuffer
    /\ send' = IF Closed(c) THEN send ELSE [send EXCEPT ![c] = Append(@, Message(b))]
    /\ cast' = [cast EXCEPT ![b].todo = @ \ {c},
                            ![b].full = IF Closed(c) THEN {c} ELSE {}]
    /\ UNCHANGED <<subs, closed, pump, writing, reader, network, made, received, joined>>

\* Mutant: what does not fit is queued.
TrySendQueueing(b, c) ==
    /\ c \in cast[b].todo
    /\ cast[b].full = {}
    /\ send' = IF Closed(c) THEN send ELSE [send EXCEPT ![c] = Append(@, Message(b))]
    /\ cast' = [cast EXCEPT ![b].todo = @ \ {c},
                            ![b].full = IF Closed(c) THEN {c} ELSE {}]
    /\ UNCHANGED <<subs, closed, pump, writing, reader, network, made, received, joined>>

\* trySend: a full channel fails, and so does a closed one (the recovered
\* panic).
TrySend(b, c) ==
    LET fits == ~Closed(c) /\ Len(send[c]) < SendBuffer
    IN  /\ c \in cast[b].todo
        /\ cast[b].full = {}
        /\ send' = IF fits THEN [send EXCEPT ![c] = Append(@, Message(b))] ELSE send
        /\ cast' = [cast EXCEPT ![b].todo = @ \ {c},
                                ![b].full = IF fits THEN {} ELSE {c}]
        /\ UNCHANGED <<subs, closed, pump, writing, reader, network, made, received, joined>>

\* Mutant: the client is told off in the log and kept.
DropLeniently(b, c) ==
    /\ c \in cast[b].full
    /\ cast' = [cast EXCEPT ![b].full = {}]
    /\ UNCHANGED <<subs, send, closed, pump, writing, reader, network, made, received, joined>>

\* The client whose send failed is dropped.
Drop(b, c) ==
    /\ c \in cast[b].full
    /\ CloseSend(c)
    /\ cast' = [cast EXCEPT ![b].full = {}]
    /\ UNCHANGED <<subs, send, pump, writing, reader, network, made, received, joined>>

EndBroadcast(b) ==
    /\ cast[b].active
    /\ cast[b].todo = {}
    /\ cast[b].full = {}
    /\ cast' = [cast EXCEPT ![b] = Idle]
    /\ UNCHANGED <<subs, send, closed, pump, writing, reader, network, made, received, joined>>

BroadcastStep(b) ==
    \/ \E c \in Clients : TrySend(b, c) \/ Drop(b, c)
    \/ EndBroadcast(b)

-----------------------------------------------------------------------------
(* ServeTopic and writePump.                                               *)

\* The upgrade succeeds, the client subscribes, and its two goroutines run.
Connect(c) ==
    /\ pump[c] = "new"
    /\ subs' = subs \cup {c}
    /\ pump' = [pump EXCEPT ![c] = "ready"]
    /\ reader' = [reader EXCEPT ![c] = "running"]
    /\ joined' = [joined EXCEPT ![c] = made]
    /\ UNCHANGED <<send, closed, writing, network, cast, made, received>>

\* A receive gets what is buffered even when the channel is closed.
Take(c) ==
    /\ pump[c] = "ready"
    /\ send[c] # <<>>
    /\ writing' = [writing EXCEPT ![c] = <<Head(send[c])>>]
    /\ send' = [send EXCEPT ![c] = Tail(@)]
    /\ pump' = [pump EXCEPT ![c] = "writing"]
    /\ UNCHANGED <<subs, closed, reader, network, cast, made, received, joined>>

\* A write to a browser that has gone may still succeed.
WriteSucceeds(c) ==
    /\ pump[c] = "writing"
    /\ received' = [received EXCEPT ![c] = IF network[c] = "up" THEN @ \o writing[c] ELSE @]
    /\ writing' = [writing EXCEPT ![c] = <<>>]
    /\ pump' = [pump EXCEPT ![c] = "ready"]
    /\ UNCHANGED <<subs, send, closed, reader, network, cast, made, joined>>

\* It fails, after writeWait at the latest.
WriteFails(c) ==
    /\ pump[c] = "writing"
    /\ writing' = [writing EXCEPT ![c] = <<>>]
    /\ pump' = [pump EXCEPT ![c] = "left"]
    /\ UNCHANGED <<subs, send, closed, reader, network, cast, made, received, joined>>

PingFails(c) ==
    /\ pump[c] = "ready"
    /\ pump' = [pump EXCEPT ![c] = "left"]
    /\ UNCHANGED <<subs, send, closed, writing, reader, network, cast, made, received, joined>>

\* The channel is closed and drained.
SeeClosed(c) ==
    /\ pump[c] = "ready"
    /\ send[c] = <<>>
    /\ Closed(c)
    /\ pump' = [pump EXCEPT ![c] = "left"]
    /\ UNCHANGED <<subs, send, closed, writing, reader, network, cast, made, received, joined>>

Unsubscribe(c) ==
    /\ pump[c] = "left"
    /\ subs' = subs \ {c}
    /\ pump' = [pump EXCEPT ![c] = "unsubscribed"]
    /\ UNCHANGED <<send, closed, writing, reader, network, cast, made, received, joined>>

CloseConn(c) ==
    /\ pump[c] = "unsubscribed"
    /\ pump' = [pump EXCEPT ![c] = "done"]
    /\ UNCHANGED <<subs, send, closed, writing, reader, network, cast, made, received, joined>>

PumpStep(c) ==
    \/ Take(c)
    \/ WriteSucceeds(c)
    \/ WriteFails(c)
    \/ SeeClosed(c)
    \/ Unsubscribe(c)
    \/ CloseConn(c)

-----------------------------------------------------------------------------
(* The read pump, and the network under it.                                *)

\* Mutant: this exit route leaves the channel open.
ReadFailsQuietly(c) ==
    /\ reader[c] = "running"
    /\ network[c] = "gone" \/ pump[c] = "done"
    /\ reader' = [reader EXCEPT ![c] = "done"]
    /\ UNCHANGED <<subs, send, closed, pump, writing, network, cast, made, received, joined>>

\* ReadMessage fails: the browser has gone, at the latest when no pong came
\* within pongWait, or the connection was closed here.
ReadFails(c) ==
    /\ reader[c] = "running"
    /\ network[c] = "gone" \/ pump[c] = "done"
    /\ reader' = [reader EXCEPT ![c] = "done"]
    /\ CloseSend(c)
    /\ UNCHANGED <<subs, send, pump, writing, network, cast, made, received, joined>>

\* The browser leaves, or can no longer be reached.
Disconnect(c) ==
    /\ network[c] = "up"
    /\ pump[c] # "new"
    /\ network' = [network EXCEPT ![c] = "gone"]
    /\ UNCHANGED <<subs, send, closed, pump, writing, reader, cast, made, received, joined>>

-----------------------------------------------------------------------------
HubInit ==
    /\ subs = {}
    /\ send = [c \in Clients |-> <<>>]
    /\ closed = {}
    /\ pump = [c \in Clients |-> "new"]
    /\ writing = [c \in Clients |-> <<>>]
    /\ reader = [c \in Clients |-> "new"]
    /\ network = [c \in Clients |-> "up"]
    /\ cast = [b \in Broadcasters |-> Idle]
    /\ made = [b \in Broadcasters |-> 0]
    /\ received = [c \in Clients |-> <<>>]
    /\ joined = [c \in Clients |-> [b \in Broadcasters |-> 0]]

HubNext ==
    \/ \E b \in Broadcasters : BeginBroadcast(b) \/ BroadcastStep(b)
    \/ \E c \in Clients :
          Connect(c) \/ PumpStep(c) \/ PingFails(c) \/ ReadFails(c) \/ Disconnect(c)

\* Goroutines run: a broadcast goes on, a pump takes what is there, a write
\* ends by its deadline, a read fails by its own.  Nothing makes a browser
\* connect or leave, a ping fail or a broadcast begin.
HubFairness ==
    /\ \A b \in Broadcasters : WF_vars(BroadcastStep(b))
    /\ \A c \in Clients : WF_vars(PumpStep(c)) /\ WF_vars(ReadFails(c))

HubSpec == HubInit /\ [][HubNext]_vars /\ HubFairness

-----------------------------------------------------------------------------
(* Properties.                                                             *)

\* In s, each message of b comes after all those b broadcast since the one
\* numbered first, and after no later one: no gap, no repetition, no swap.
Gapless(b, s, first) ==
    \A i \in DOMAIN s : s[i].from = b =>
        /\ s[i].number >= first
        /\ \A n \in first..(s[i].number - 1) :
              \E j \in 1..(i - 1) : s[j] = [from |-> b, number |-> n]
        /\ \A j \in 1..(i - 1) : s[j].from = b => s[j].number < s[i].number

\* And the messages of b in s go as far as the one numbered last.
Complete(b, s, first, last) ==
    /\ Gapless(b, s, first)
    /\ \A n \in first..last : \E i \in DOMAIN s : s[i] = [from |-> b, number |-> n]
    /\ \A i \in DOMAIN s : s[i].from = b => s[i].number <= last

\* What a browser got from one broadcaster has no gap in it and starts with
\* the first broadcast after it subscribed: a client that misses a message
\* gets none of that broadcaster's later ones (hub.go:92-97).
NoSilentGap ==
    \A c \in Clients, b \in Broadcasters : Gapless(b, received[c], joined[c][b] + 1)

\* A client that is still served has every message broadcast since it
\* subscribed, delivered or on the way, but the one being sent.
StillServed(c) == pump[c] \in {"ready", "writing"} /\ network[c] = "up" /\ ~Closed(c)

\* Delivered, being written, and in the channel.
Stream(c) == received[c] \o writing[c] \o send[c]

Untold(b, c) == IF c \in cast[b].todo \cup cast[b].full THEN 1 ELSE 0

ServedInFull ==
    \A c \in Clients, b \in Broadcasters :
        StillServed(c) =>
            Complete(b, Stream(c), joined[c][b] + 1, made[b] - Untold(b, c))

\* A broadcast never waits for a client: its next step is always possible,
\* whatever the pumps do (sendBuffer, hub.go:36-42).
NeverWaits == \A b \in Broadcasters : cast[b].active => ENABLED BroadcastStep(b)

\* A client that has left, was dropped or could not be written to is
\* unsubscribed in the end, and both its goroutines finish (hub.go:9-12,
\* 177-183).
Lost(c) == network[c] = "gone" \/ Closed(c) \/ pump[c] = "left"

Reclaimed(c) == c \notin subs /\ pump[c] = "done" /\ reader[c] = "done"

NoLeak == \A c \in Clients : Lost(c) ~> Reclaimed(c)
=============================================================================
