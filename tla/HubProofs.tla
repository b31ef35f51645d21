------------------------------ MODULE HubProofs -----------------------------
(***************************************************************************)
(* Proofs about the fan-out, for any number of clients and broadcasters    *)
(* and any buffer: no channel is closed twice, no browser sees a gap in    *)
(* what one broadcaster sends, and a client still served misses nothing.   *)
(*                                                                         *)
(* ServedInFull says nothing of a client whose channel is closed, yet what *)
(* is buffered there is still delivered.  The invariant therefore carries  *)
(* the order of the whole stream to a browser, and where a client can be   *)
(* in the list of a broadcaster.                                           *)
(*                                                                         *)
(* Of what must happen in the end, the safety half: a broadcast ends in a  *)
(* bounded number of its own steps, and so does a client that is lost.     *)
(***************************************************************************)
EXTENDS Hub, FiniteSetTheorems, SequenceTheorems, TLAPS

\* A client is in the topic from Connect to Unsubscribe.
SubscribedWhileServed ==
    \A c \in Clients : c \in subs <=> pump[c] \in {"ready", "writing", "left"}

\* A connection not made yet has no trace anywhere.
NewIsUntouched ==
    \A c \in Clients : pump[c] = "new" =>
        /\ send[c] = <<>> /\ writing[c] = <<>> /\ received[c] = <<>>
        /\ \A b \in Broadcasters : c \notin cast[b].todo \cup cast[b].full

\* A broadcast drops a client before it tries the next, and forgets its list.
CastsAreOrderly ==
    \A b \in Broadcasters :
        /\ \A c \in cast[b].full : cast[b].full = {c} /\ c \notin cast[b].todo
        /\ cast[b].active \/ cast[b].todo \cup cast[b].full = {}

JoinedBefore ==
    \A c \in Clients, b \in Broadcasters : joined[c][b] + Untold(b, c) <= made[b]

WritingInPump == \A c \in Clients : pump[c] # "writing" => writing[c] = <<>>

\* What a browser that can still be reached has got and will get is in order,
\* also after its channel was closed.
Reachable(c) == pump[c] \in {"new", "ready", "writing"} /\ network[c] = "up"

InOrder(c, b) ==
    /\ Reachable(c) => Gapless(b, Stream(c), joined[c][b] + 1)
    /\ Gapless(b, received[c], joined[c][b] + 1)
    /\ StillServed(c) =>
          Complete(b, Stream(c), joined[c][b] + 1, made[b] - Untold(b, c))

StreamInOrder == \A c \in Clients, b \in Broadcasters : InOrder(c, b)

HubInv ==
    /\ HubTypeOK
    /\ SubscribedWhileServed
    /\ NewIsUntouched
    /\ CastsAreOrderly
    /\ JoinedBefore
    /\ WritingInPump
    /\ StreamInOrder

-----------------------------------------------------------------------------
(* Streams of messages.                                                    *)

\* A message of another broadcaster changes nothing for b.
LEMMA AppendOther ==
    ASSUME NEW b, NEW s \in Seq(Messages), NEW msg \in Messages, msg.from # b,
           NEW first \in Nat, NEW last \in Int
    PROVE  /\ Gapless(b, s, first) => Gapless(b, Append(s, msg), first)
           /\ Complete(b, s, first, last) => Complete(b, Append(s, msg), first, last)
<1> DEFINE t == Append(s, msg)
<1>1. /\ DOMAIN s = 1..Len(s) /\ DOMAIN t = 1..(Len(s) + 1) /\ Len(s) \in Nat
      /\ \A i \in 1..Len(s) : t[i] = s[i]
      /\ t[Len(s) + 1] = msg
  BY AppendProperties, LenProperties
<1> HIDE DEF t
<1>2. ASSUME Gapless(b, s, first) PROVE Gapless(b, t, first)
  <2> SUFFICES ASSUME NEW i \in DOMAIN t, t[i].from = b
               PROVE  /\ t[i].number >= first
                      /\ \A n \in first..(t[i].number - 1) :
                            \E j \in 1..(i - 1) : t[j] = [from |-> b, number |-> n]
                      /\ \A j \in 1..(i - 1) : t[j].from = b => t[j].number < t[i].number
    BY DEF Gapless
  <2>1. /\ t[i] = s[i] /\ i \in DOMAIN s
        /\ \A j \in 1..(i - 1) : t[j] = s[j]
    BY <1>1
  <2>2. /\ s[i].number >= first
        /\ \A n \in first..(s[i].number - 1) :
              \E j \in 1..(i - 1) : s[j] = [from |-> b, number |-> n]
        /\ \A j \in 1..(i - 1) : s[j].from = b => s[j].number < s[i].number
    BY <1>2, <2>1 DEF Gapless
  <2> QED BY <2>1, <2>2
<1>3. Complete(b, s, first, last) => Complete(b, t, first, last)
  BY <1>1, <1>2 DEF Complete
<1> QED BY <1>2, <1>3 DEF t

\* The next message of b extends a complete stream.
LEMMA AppendNext ==
    ASSUME NEW b \in Broadcasters, NEW s \in Seq(Messages), NEW msg \in Messages,
           NEW first \in Nat, NEW last \in Nat, first <= last + 1,
           msg = [from |-> b, number |-> last + 1],
           Complete(b, s, first, last)
    PROVE  Complete(b, Append(s, msg), first, last + 1)
<1> DEFINE t == Append(s, msg)
<1>1. /\ DOMAIN s = 1..Len(s) /\ DOMAIN t = 1..(Len(s) + 1) /\ Len(s) \in Nat
      /\ \A i \in 1..Len(s) : t[i] = s[i] /\ s[i] \in Messages
      /\ t[Len(s) + 1] = msg
  BY AppendProperties, LenProperties, ElementOfSeq
<1> HIDE DEF t
<1>2. \A i \in 1..Len(s) : s[i].from = b => s[i].number \in 1..last
  BY <1>1 DEF Complete, Messages
<1>3. Gapless(b, t, first)
  <2> SUFFICES ASSUME NEW i \in DOMAIN t, t[i].from = b
               PROVE  /\ t[i].number >= first
                      /\ \A n \in first..(t[i].number - 1) :
                            \E j \in 1..(i - 1) : t[j] = [from |-> b, number |-> n]
                      /\ \A j \in 1..(i - 1) : t[j].from = b => t[j].number < t[i].number
    BY DEF Gapless
  <2>1. CASE i \in 1..Len(s)
    <3>1. /\ t[i] = s[i] /\ i \in DOMAIN s
          /\ \A j \in 1..(i - 1) : j \in 1..Len(s) /\ t[j] = s[j]
      BY <1>1, <2>1
    <3>2. /\ s[i].number >= first
          /\ \A n \in first..(s[i].number - 1) :
                \E j \in 1..(i - 1) : s[j] = [from |-> b, number |-> n]
          /\ \A j \in 1..(i - 1) : s[j].from = b => s[j].number < s[i].number
      BY <3>1 DEF Complete, Gapless
    <3> QED BY <3>1, <3>2
  <2>2. CASE i = Len(s) + 1
    BY <1>1, <1>2, <2>2 DEF Complete
  <2> QED BY <1>1, <2>1, <2>2
<1>4. ASSUME NEW n \in first..(last + 1)
      PROVE  \E i \in DOMAIN t : t[i] = [from |-> b, number |-> n]
  <2>1. CASE n = last + 1
    BY <1>1, <2>1
  <2>2. CASE n \in first..last
    BY <1>1, <2>2 DEF Complete
  <2> QED BY <2>1, <2>2
<1>5. \A i \in DOMAIN t : t[i].from = b => t[i].number <= last + 1
  BY <1>1, <1>2
<1> QED BY <1>3, <1>4, <1>5 DEF Complete, t

\* What comes first in a stream without gaps has none.
LEMMA GaplessPrefix ==
    ASSUME NEW b, NEW s \in Seq(Messages), NEW t \in Seq(Messages), NEW first \in Nat,
           Gapless(b, s \o t, first)
    PROVE  Gapless(b, s, first)
<1> DEFINE u == s \o t
<1>1. /\ DOMAIN s = 1..Len(s) /\ Len(s) \in Nat
      /\ DOMAIN u = 1..(Len(s) + Len(t)) /\ Len(t) \in Nat
      /\ \A i \in 1..Len(s) : u[i] = s[i]
  BY ConcatProperties, LenProperties
<1>2. Gapless(b, u, first)
  OBVIOUS
<1> HIDE DEF u
<1> QED BY <1>1, <1>2 DEF Gapless

LEMMA GaplessEmpty ==
    ASSUME NEW b, NEW first \in Nat
    PROVE  /\ Gapless(b, <<>>, first)
           /\ Complete(b, <<>>, first, first - 1)
<1> QED BY DEF Gapless, Complete

\* What the channel operations of a pump and a broadcaster do to the stream.
LEMMA StreamAppend ==
    ASSUME NEW r \in Seq(Messages), NEW w \in Seq(Messages), NEW q \in Seq(Messages),
           NEW msg \in Messages
    PROVE  r \o w \o Append(q, msg) = Append(r \o w \o q, msg)
<1>1. r \o w \in Seq(Messages) /\ r \o w \o q \in Seq(Messages) /\ <<msg>> \in Seq(Messages)
  BY ConcatProperties
<1>2. r \o w \o Append(q, msg) = (r \o w) \o (q \o <<msg>>)
  BY AppendIsConcat
<1>3. (r \o w) \o (q \o <<msg>>) = (r \o w \o q) \o <<msg>>
  BY <1>1, ConcatAssociative
<1>4. Append(r \o w \o q, msg) = (r \o w \o q) \o <<msg>>
  BY <1>1, AppendIsConcat
<1> QED BY <1>2, <1>3, <1>4

LEMMA ConcatAt ==
    ASSUME NEW h \in Seq(Messages), NEW u \in Seq(Messages), Len(h) = 1
    PROVE  \A i \in 1..(1 + Len(u)) : (h \o u)[i] = IF i <= 1 THEN h[i] ELSE u[i - 1]
<1>1. \A i \in 1..(Len(h) + Len(u)) : (h \o u)[i] = IF i <= Len(h) THEN h[i] ELSE u[i - Len(h)]
  BY ConcatProperties, Zenon
<1> QED BY <1>1

LEMMA FirstAndRest ==
    ASSUME NEW q \in Seq(Messages), NEW h \in Seq(Messages), NEW u \in Seq(Messages),
           Len(h) = 1, Len(q) = Len(u) + 1, h[1] = q[1],
           \A i \in 1..Len(u) : u[i] = q[i + 1]
    PROVE  h \o u = q
<1> DEFINE v == h \o u
<1>0. Len(u) \in Nat
  BY LenProperties
<1>1. v \in Seq(Messages) /\ Len(v) = Len(h) + Len(u)
  BY ConcatProperties
<1>2. \A i \in 1..(1 + Len(u)) : v[i] = IF i <= 1 THEN h[i] ELSE u[i - 1]
  BY ConcatAt, Zenon
<1> HIDE DEF v
<1>3. ASSUME NEW i \in 1..Len(q) PROVE v[i] = q[i]
  <2>1. CASE i = 1
    BY <1>0, <1>2, <2>1
  <2>2. CASE i - 1 \in 1..Len(u)
    <3>1. v[i] = u[i - 1]
      BY <1>0, <1>2, <2>2
    <3>2. u[i - 1] = q[(i - 1) + 1]
      BY <2>2
    <3> QED BY <3>1, <3>2
  <2> QED BY <1>0, <2>1, <2>2
<1>4. Len(v) = Len(q)
  BY <1>0, <1>1
<1> QED BY <1>1, <1>3, <1>4, SeqEqual DEF v

LEMMA StreamTake ==
    ASSUME NEW r \in Seq(Messages), NEW q \in Seq(Messages), q # <<>>
    PROVE  r \o <<Head(q)>> \o Tail(q) = r \o <<>> \o q
<1>1. /\ Head(q) \in Messages /\ Tail(q) \in Seq(Messages)
      /\ Len(Tail(q)) = Len(q) - 1 /\ Len(q) \in Nat
      /\ \A i \in 1..Len(Tail(q)) : Tail(q)[i] = q[i + 1]
      /\ Head(q) = q[1]
  BY HeadTailProperties, LenProperties
<1>2. <<Head(q)>> \in Seq(Messages) /\ Len(<<Head(q)>>) = 1 /\ <<Head(q)>>[1] = q[1]
  BY <1>1
<1>3. <<Head(q)>> \o Tail(q) = q
  BY <1>1, <1>2, FirstAndRest
<1>4. (r \o <<Head(q)>>) \o Tail(q) = r \o (<<Head(q)>> \o Tail(q))
  BY <1>1, <1>2, ConcatAssociative
<1>5. r \o <<>> = r
  BY ConcatEmptySeq
<1> QED BY <1>3, <1>4, <1>5

-----------------------------------------------------------------------------
(* Types, and where a client can be.                                       *)

LEMMA MessageType ==
    ASSUME HubTypeOK, JoinedBefore, NEW b \in Broadcasters, NEW c \in Clients,
           c \in cast[b].todo
    PROVE  Message(b) \in Messages /\ Message(b).from = b /\ made[b] \in 1..MaxBroadcasts
<1>1. Untold(b, c) = 1 /\ joined[c][b] \in Nat /\ made[b] \in 0..MaxBroadcasts
  BY HubAssumption DEF Untold, HubTypeOK
<1>2. made[b] \in 1..MaxBroadcasts
  BY <1>1, HubAssumption DEF JoinedBefore
<1> QED BY <1>2 DEF Message, Messages

LEMMA CastType ==
    ASSUME HubTypeOK, NEW b \in Broadcasters, NEW todo \in SUBSET Clients,
           NEW full \in SUBSET Clients
    PROVE  /\ [cast EXCEPT ![b] = [todo |-> todo, full |-> full, active |-> TRUE]]
                \in [Broadcasters -> Casts]
           /\ [cast EXCEPT ![b] = Idle] \in [Broadcasters -> Casts]
           /\ [cast EXCEPT ![b].todo = todo, ![b].full = full] \in [Broadcasters -> Casts]
           /\ [cast EXCEPT ![b].full = full] \in [Broadcasters -> Casts]
<1>1. cast \in [Broadcasters -> Casts] /\ cast[b] \in Casts
  BY DEF HubTypeOK
<1>2. /\ [todo |-> todo, full |-> full, active |-> TRUE] \in Casts /\ Idle \in Casts
      /\ [cast[b] EXCEPT !.todo = todo, !.full = full] \in Casts
      /\ [cast[b] EXCEPT !.full = full] \in Casts
  BY <1>1 DEF Casts, Idle
<1>3. \A r \in Casts : [cast EXCEPT ![b] = r] \in [Broadcasters -> Casts]
  BY <1>1
<1>4. /\ [cast EXCEPT ![b].todo = todo, ![b].full = full]
           = [cast EXCEPT ![b] = [cast[b] EXCEPT !.todo = todo, !.full = full]]
      /\ [cast EXCEPT ![b].full = full] = [cast EXCEPT ![b] = [cast[b] EXCEPT !.full = full]]
  BY <1>1
<1> QED BY <1>2, <1>3, <1>4

LEMMA TypeStep ==
    ASSUME HubTypeOK, JoinedBefore, [HubNext]_vars
    PROVE  HubTypeOK'
<1> USE HubAssumption
<1>1. ASSUME NEW b \in Broadcasters, BeginBroadcast(b) PROVE HubTypeOK'
  <2>1. cast' \in [Broadcasters -> Casts]
    BY <1>1, CastType DEF BeginBroadcast, HubTypeOK
  <2>2. made' \in [Broadcasters -> 0..MaxBroadcasts]
    BY <1>1 DEF BeginBroadcast, HubTypeOK
  <2> QED BY <1>1, <2>1, <2>2 DEF BeginBroadcast, HubTypeOK
<1>2. ASSUME NEW b \in Broadcasters, NEW c \in Clients, TrySend(b, c) PROVE HubTypeOK'
  <2>1. Message(b) \in Messages
    BY <1>2, MessageType DEF TrySend
  <2>2. /\ Append(send[c], Message(b)) \in Seq(Messages)
        /\ Len(Append(send[c], Message(b))) = Len(send[c]) + 1
        /\ Len(send[c]) \in Nat
    BY <2>1, AppendProperties, LenProperties DEF HubTypeOK
  <2>3. send' \in [Clients -> Seq(Messages)] /\ \A d \in Clients : Len(send'[d]) <= SendBuffer
    BY <1>2, <2>2 DEF TrySend, HubTypeOK
  <2>4. cast' \in [Broadcasters -> Casts]
    <3> DEFINE fits == ~Closed(c) /\ Len(send[c]) < SendBuffer
               full == IF fits THEN {} ELSE {c}
    <3>1. full \in SUBSET Clients /\ cast[b].todo \ {c} \in SUBSET Clients
      BY DEF HubTypeOK, Casts
    <3>2. cast' = [cast EXCEPT ![b].todo = cast[b].todo \ {c}, ![b].full = full]
      BY <1>2 DEF TrySend, HubTypeOK
    <3> HIDE DEF full
    <3> QED BY <3>1, <3>2, CastType
  <2> QED BY <1>2, <2>3, <2>4 DEF TrySend, HubTypeOK
<1>3. ASSUME NEW b \in Broadcasters, NEW c \in Clients, Drop(b, c) PROVE HubTypeOK'
  <2>1. cast' \in [Broadcasters -> Casts]
    BY <1>3, CastType DEF Drop
  <2>2. closed' \subseteq Clients
    BY <1>3 DEF Drop, CloseSend, HubTypeOK
  <2> QED BY <1>3, <2>1, <2>2 DEF Drop, HubTypeOK
<1>4. ASSUME NEW b \in Broadcasters, EndBroadcast(b) PROVE HubTypeOK'
  <2>1. cast' \in [Broadcasters -> Casts]
    BY <1>4, CastType DEF EndBroadcast
  <2> QED BY <1>4, <2>1 DEF EndBroadcast, HubTypeOK
<1>5. ASSUME NEW c \in Clients, Connect(c) PROVE HubTypeOK'
  BY <1>5 DEF Connect, HubTypeOK, PumpStates
<1>6. ASSUME NEW c \in Clients, Take(c) PROVE HubTypeOK'
  <2>1. /\ Tail(send[c]) \in Seq(Messages)
        /\ Len(Tail(send[c])) = Len(send[c]) - 1 /\ Len(send[c]) \in Nat
        /\ <<Head(send[c])>> \in Seq(Messages) /\ Len(<<Head(send[c])>>) = 1
    BY <1>6, HeadTailProperties, LenProperties DEF Take, HubTypeOK
  <2>2. send' \in [Clients -> Seq(Messages)] /\ \A d \in Clients : Len(send'[d]) <= SendBuffer
    BY <1>6, <2>1 DEF Take, HubTypeOK
  <2>3. writing' \in [Clients -> Seq(Messages)] /\ \A d \in Clients : Len(writing'[d]) <= 1
    BY <1>6, <2>1 DEF Take, HubTypeOK
  <2>4. pump' \in [Clients -> PumpStates]
    BY <1>6 DEF Take, HubTypeOK, PumpStates
  <2> QED BY <1>6, <2>2, <2>3, <2>4 DEF Take, HubTypeOK
<1>7. ASSUME NEW c \in Clients, WriteSucceeds(c) PROVE HubTypeOK'
  <2>1. received[c] \o writing[c] \in Seq(Messages) /\ <<>> \in Seq(Messages) /\ Len(<<>>) = 0
    BY ConcatProperties, EmptySeq DEF HubTypeOK
  <2>2. received' \in [Clients -> Seq(Messages)]
    BY <1>7, <2>1 DEF WriteSucceeds, HubTypeOK
  <2>3. writing' \in [Clients -> Seq(Messages)] /\ \A d \in Clients : Len(writing'[d]) <= 1
    BY <1>7, <2>1 DEF WriteSucceeds, HubTypeOK
  <2>4. pump' \in [Clients -> PumpStates]
    BY <1>7 DEF WriteSucceeds, HubTypeOK, PumpStates
  <2> QED BY <1>7, <2>2, <2>3, <2>4 DEF WriteSucceeds, HubTypeOK
<1>8. ASSUME NEW c \in Clients, WriteFails(c) PROVE HubTypeOK'
  <2>1. <<>> \in Seq(Messages) /\ Len(<<>>) = 0
    BY EmptySeq
  <2>2. writing' \in [Clients -> Seq(Messages)] /\ \A d \in Clients : Len(writing'[d]) <= 1
    BY <1>8, <2>1 DEF WriteFails, HubTypeOK
  <2>3. pump' \in [Clients -> PumpStates]
    BY <1>8 DEF WriteFails, HubTypeOK, PumpStates
  <2> QED BY <1>8, <2>2, <2>3 DEF WriteFails, HubTypeOK
<1>9. ASSUME NEW c \in Clients, PingFails(c) \/ SeeClosed(c) \/ Unsubscribe(c) \/ CloseConn(c)
      PROVE  HubTypeOK'
  BY <1>9 DEF PingFails, SeeClosed, Unsubscribe, CloseConn, HubTypeOK, PumpStates
<1>10. ASSUME NEW c \in Clients, ReadFails(c) PROVE HubTypeOK'
  BY <1>10 DEF ReadFails, CloseSend, HubTypeOK
<1>11. ASSUME NEW c \in Clients, Disconnect(c) PROVE HubTypeOK'
  BY <1>11 DEF Disconnect, HubTypeOK
<1>12. CASE UNCHANGED vars
  BY <1>12 DEF vars, HubTypeOK
<1> QED BY <1>1, <1>2, <1>3, <1>4, <1>5, <1>6, <1>7, <1>8, <1>9, <1>10, <1>11, <1>12
        DEF HubNext, BroadcastStep, PumpStep

LEMMA SubscribedStep ==
    ASSUME HubTypeOK, SubscribedWhileServed, [HubNext]_vars
    PROVE  SubscribedWhileServed'
<1>1. ASSUME NEW c \in Clients,
             \/ Connect(c) \/ Take(c) \/ WriteSucceeds(c) \/ WriteFails(c)
             \/ PingFails(c) \/ SeeClosed(c) \/ Unsubscribe(c) \/ CloseConn(c)
      PROVE  SubscribedWhileServed'
  <2>1. Connect(c) => SubscribedWhileServed'
    BY DEF Connect, SubscribedWhileServed, HubTypeOK
  <2>2. Take(c) \/ WriteSucceeds(c) \/ WriteFails(c) => SubscribedWhileServed'
    BY DEF Take, WriteSucceeds, WriteFails, SubscribedWhileServed, HubTypeOK
  <2>3. PingFails(c) \/ SeeClosed(c) \/ CloseConn(c) => SubscribedWhileServed'
    BY DEF PingFails, SeeClosed, CloseConn, SubscribedWhileServed, HubTypeOK
  <2>4. Unsubscribe(c) => SubscribedWhileServed'
    BY DEF Unsubscribe, SubscribedWhileServed, HubTypeOK
  <2> QED BY <1>1, <2>1, <2>2, <2>3, <2>4
<1>2. CASE UNCHANGED <<subs, pump>>
  BY <1>2 DEF SubscribedWhileServed
<1> QED BY <1>1, <1>2 DEF HubNext, BroadcastStep, PumpStep, vars, BeginBroadcast, TrySend,
        Drop, EndBroadcast, ReadFails, Disconnect

\* What a step of a broadcast does to the list it works through.
LEMMA CastStep ==
    ASSUME HubTypeOK, CastsAreOrderly, NEW b \in Broadcasters, NEW c \in Clients
    PROVE  /\ TrySend(b, c) =>
                /\ cast'[b].todo = cast[b].todo \ {c}
                /\ cast'[b].full = IF ~Closed(c) /\ Len(send[c]) < SendBuffer THEN {} ELSE {c}
                /\ cast'[b].active = cast[b].active
                /\ cast[b].full = {} /\ c \in cast[b].todo
           /\ Drop(b, c) =>
                /\ cast'[b].todo = cast[b].todo
                /\ cast'[b].full = {}
                /\ cast'[b].active = cast[b].active
                /\ cast[b].full = {c}
           /\ EndBroadcast(b) =>
                /\ cast'[b].todo = {} /\ cast'[b].full = {}
                /\ cast[b].todo = {} /\ cast[b].full = {}
           /\ BeginBroadcast(b) =>
                /\ cast'[b].todo = subs /\ cast'[b].full = {} /\ cast'[b].active
                /\ cast[b].todo = {} /\ cast[b].full = {}
           /\ TrySend(b, c) \/ Drop(b, c) \/ EndBroadcast(b) \/ BeginBroadcast(b) =>
                \A d \in Broadcasters : d # b => cast'[d] = cast[d]
<1>1. cast \in [Broadcasters -> Casts] /\ cast[b] \in Casts
  BY DEF HubTypeOK
<1>2. TrySend(b, c) =>
        /\ cast'[b].todo = cast[b].todo \ {c}
        /\ cast'[b].full = IF ~Closed(c) /\ Len(send[c]) < SendBuffer THEN {} ELSE {c}
        /\ cast'[b].active = cast[b].active
        /\ cast[b].full = {} /\ c \in cast[b].todo
        /\ \A d \in Broadcasters : d # b => cast'[d] = cast[d]
  BY <1>1 DEF TrySend, Casts
<1>3. Drop(b, c) =>
        /\ cast'[b].todo = cast[b].todo
        /\ cast'[b].full = {}
        /\ cast'[b].active = cast[b].active
        /\ cast[b].full = {c}
        /\ \A d \in Broadcasters : d # b => cast'[d] = cast[d]
  BY <1>1 DEF Drop, Casts, CastsAreOrderly
<1>4. EndBroadcast(b) =>
        /\ cast'[b].todo = {} /\ cast'[b].full = {}
        /\ cast[b].todo = {} /\ cast[b].full = {}
        /\ \A d \in Broadcasters : d # b => cast'[d] = cast[d]
  BY <1>1 DEF EndBroadcast, Idle
<1>5. BeginBroadcast(b) =>
        /\ cast'[b].todo = subs /\ cast'[b].full = {} /\ cast'[b].active
        /\ cast[b].todo = {} /\ cast[b].full = {}
        /\ \A d \in Broadcasters : d # b => cast'[d] = cast[d]
  BY <1>1 DEF BeginBroadcast, CastsAreOrderly
<1> QED BY <1>2, <1>3, <1>4, <1>5

LEMMA OrderlyStep ==
    ASSUME HubTypeOK, CastsAreOrderly, [HubNext]_vars
    PROVE  CastsAreOrderly'
<1>1. ASSUME NEW b \in Broadcasters, NEW c \in Clients, TrySend(b, c) PROVE CastsAreOrderly'
  <2>1. /\ cast'[b].todo = cast[b].todo \ {c}
        /\ cast'[b].full = {} \/ cast'[b].full = {c}
        /\ cast'[b].active = cast[b].active
        /\ c \in cast[b].todo
        /\ \A d \in Broadcasters : d # b => cast'[d] = cast[d]
    BY <1>1, CastStep
  <2> QED BY <2>1 DEF CastsAreOrderly
<1>2. ASSUME NEW b \in Broadcasters, NEW c \in Clients, Drop(b, c) PROVE CastsAreOrderly'
  <2>1. /\ cast'[b].todo = cast[b].todo
        /\ cast'[b].full = {}
        /\ cast'[b].active = cast[b].active
        /\ \A d \in Broadcasters : d # b => cast'[d] = cast[d]
    BY <1>2, CastStep
  <2> QED BY <2>1 DEF CastsAreOrderly
<1>3. ASSUME NEW b \in Broadcasters, EndBroadcast(b) PROVE CastsAreOrderly'
  <2>1. cast' = [cast EXCEPT ![b] = Idle] /\ cast \in [Broadcasters -> Casts]
    BY <1>3 DEF EndBroadcast, HubTypeOK
  <2> QED BY <2>1 DEF CastsAreOrderly, Idle
<1>4. ASSUME NEW b \in Broadcasters, BeginBroadcast(b) PROVE CastsAreOrderly'
  <2>1. /\ cast' = [cast EXCEPT ![b] = [todo |-> subs, full |-> {}, active |-> TRUE]]
        /\ cast \in [Broadcasters -> Casts]
    BY <1>4 DEF BeginBroadcast, HubTypeOK
  <2> QED BY <2>1 DEF CastsAreOrderly
<1>5. CASE UNCHANGED cast
  BY <1>5 DEF CastsAreOrderly
<1> QED BY <1>1, <1>2, <1>3, <1>4, <1>5 DEF HubNext, BroadcastStep, PumpStep, vars,
        Connect, Take, WriteSucceeds, WriteFails, PingFails, SeeClosed, Unsubscribe,
        CloseConn, ReadFails, Disconnect

LEMMA WritingStep ==
    ASSUME HubTypeOK, WritingInPump, [HubNext]_vars
    PROVE  WritingInPump'
<1>1. ASSUME NEW c \in Clients, Connect(c) \/ Take(c) \/ WriteSucceeds(c) \/ WriteFails(c)
      PROVE  WritingInPump'
  <2>1. Connect(c) => WritingInPump'
    BY DEF Connect, WritingInPump, HubTypeOK
  <2>2. Take(c) => WritingInPump'
    BY DEF Take, WritingInPump, HubTypeOK
  <2>3. WriteSucceeds(c) \/ WriteFails(c) => WritingInPump'
    BY DEF WriteSucceeds, WriteFails, WritingInPump, HubTypeOK
  <2> QED BY <1>1, <2>1, <2>2, <2>3
<1>2. ASSUME NEW c \in Clients,
             PingFails(c) \/ SeeClosed(c) \/ Unsubscribe(c) \/ CloseConn(c)
      PROVE  WritingInPump'
  BY <1>2 DEF PingFails, SeeClosed, Unsubscribe, CloseConn, WritingInPump, HubTypeOK
<1>3. CASE UNCHANGED <<pump, writing>>
  BY <1>3 DEF WritingInPump
<1> QED BY <1>1, <1>2, <1>3 DEF HubNext, BroadcastStep, PumpStep, vars, BeginBroadcast,
        TrySend, Drop, EndBroadcast, ReadFails, Disconnect

LEMMA NewStep ==
    ASSUME HubTypeOK, SubscribedWhileServed, CastsAreOrderly, NewIsUntouched, [HubNext]_vars
    PROVE  NewIsUntouched'
<1> SUFFICES ASSUME NEW c \in Clients, pump'[c] = "new"
             PROVE  /\ send'[c] = <<>> /\ writing'[c] = <<>> /\ received'[c] = <<>>
                    /\ \A b \in Broadcasters : c \notin cast'[b].todo \cup cast'[b].full
  BY DEF NewIsUntouched
<1> DEFINE Untouched == /\ send[c] = <<>> /\ writing[c] = <<>> /\ received[c] = <<>>
                        /\ \A b \in Broadcasters : c \notin cast[b].todo \cup cast[b].full
<1>1. ASSUME NEW b \in Broadcasters, NEW d \in Clients, TrySend(b, d) PROVE Untouched'
  <2>1. Untouched /\ d # c
    BY <1>1 DEF TrySend, NewIsUntouched
  <2>2. send'[c] = send[c]
    BY <1>1, <2>1 DEF TrySend, HubTypeOK
  <2>3. /\ cast'[b].todo = cast[b].todo \ {d}
        /\ cast'[b].full = {} \/ cast'[b].full = {d}
        /\ \A e \in Broadcasters : e # b => cast'[e] = cast[e]
    BY <1>1, CastStep
  <2>4. writing' = writing /\ received' = received
    BY <1>1 DEF TrySend
  <2>5. ASSUME NEW e \in Broadcasters PROVE c \notin cast'[e].todo \cup cast'[e].full
    BY <2>1, <2>3
  <2> QED BY <2>1, <2>2, <2>4, <2>5
<1>2. ASSUME NEW b \in Broadcasters, NEW d \in Clients, Drop(b, d) PROVE Untouched'
  <2>1. Untouched
    BY <1>2 DEF Drop, NewIsUntouched
  <2> QED BY <1>2, <2>1, CastStep DEF Drop
<1>3. ASSUME NEW b \in Broadcasters, EndBroadcast(b) \/ BeginBroadcast(b) PROVE Untouched'
  <2>1. Untouched /\ c \notin subs
    BY <1>3 DEF EndBroadcast, BeginBroadcast, NewIsUntouched, SubscribedWhileServed
  <2> QED BY <1>3, <2>1, CastStep DEF EndBroadcast, BeginBroadcast
<1>4. ASSUME NEW d \in Clients,
             \/ Connect(d) \/ Take(d) \/ WriteSucceeds(d) \/ WriteFails(d)
             \/ PingFails(d) \/ SeeClosed(d) \/ Unsubscribe(d) \/ CloseConn(d)
      PROVE  Untouched'
  <2>1. pump'[d] # "new" /\ d # c /\ pump[c] = "new" /\ UNCHANGED cast
    BY <1>4 DEF Connect, Take, WriteSucceeds, WriteFails, PingFails, SeeClosed, Unsubscribe,
                CloseConn, HubTypeOK
  <2>2. send'[c] = send[c] /\ writing'[c] = writing[c] /\ received'[c] = received[c]
    BY <1>4, <2>1 DEF Connect, Take, WriteSucceeds, WriteFails, PingFails, SeeClosed,
                Unsubscribe, CloseConn, HubTypeOK
  <2> QED BY <2>1, <2>2 DEF NewIsUntouched
<1>5. ASSUME UNCHANGED <<pump, send, writing, received, cast>> PROVE Untouched'
  BY <1>5 DEF NewIsUntouched
<1> QED BY <1>1, <1>2, <1>3, <1>4, <1>5 DEF HubNext, BroadcastStep, PumpStep, vars,
        ReadFails, Disconnect

-----------------------------------------------------------------------------
(* What a client has not been told yet.                                    *)

LEMMA UntoldStep ==
    ASSUME HubTypeOK, CastsAreOrderly,
           NEW a \in Broadcasters, NEW b \in Broadcasters,
           NEW c \in Clients, NEW d \in Clients
    PROVE  /\ UNCHANGED cast => Untold(b, c)' = Untold(b, c)
           /\ TrySend(a, d) =>
                IF a = b /\ c = d
                THEN /\ Untold(b, c) = 1
                     /\ Untold(b, c)' = IF ~Closed(c) /\ Len(send[c]) < SendBuffer THEN 0 ELSE 1
                ELSE Untold(b, c)' = Untold(b, c)
           /\ Drop(a, d) =>
                IF a = b /\ c = d
                THEN Untold(b, c) = 1 /\ Untold(b, c)' = 0
                ELSE Untold(b, c)' = Untold(b, c)
           /\ EndBroadcast(a) => Untold(b, c)' = Untold(b, c)
           /\ BeginBroadcast(a) =>
                IF a = b
                THEN Untold(b, c) = 0 /\ Untold(b, c)' = IF c \in subs THEN 1 ELSE 0
                ELSE Untold(b, c)' = Untold(b, c)
<1> DEFINE fits == ~Closed(d) /\ Len(send[d]) < SendBuffer
<1>1. UNCHANGED cast => Untold(b, c)' = Untold(b, c)
  BY DEF Untold
<1>2. ASSUME TrySend(a, d)
      PROVE  IF a = b /\ c = d
             THEN Untold(b, c) = 1 /\ Untold(b, c)' = IF fits THEN 0 ELSE 1
             ELSE Untold(b, c)' = Untold(b, c)
  <2>1. /\ cast'[a].todo = cast[a].todo \ {d}
        /\ cast'[a].full = IF fits THEN {} ELSE {d}
        /\ cast[a].full = {} /\ d \in cast[a].todo
        /\ \A e \in Broadcasters : e # a => cast'[e] = cast[e]
    BY <1>2, CastStep
  <2> HIDE DEF fits
  <2> QED BY <2>1 DEF Untold
<1>3. ASSUME Drop(a, d)
      PROVE  IF a = b /\ c = d
             THEN Untold(b, c) = 1 /\ Untold(b, c)' = 0
             ELSE Untold(b, c)' = Untold(b, c)
  <2>1. /\ cast'[a].todo = cast[a].todo /\ cast'[a].full = {}
        /\ cast[a].full = {d}
        /\ \A e \in Broadcasters : e # a => cast'[e] = cast[e]
    BY <1>3, CastStep
  <2>2. d \notin cast[a].todo
    BY <2>1 DEF CastsAreOrderly
  <2> QED BY <2>1, <2>2 DEF Untold
<1>4. ASSUME EndBroadcast(a) PROVE Untold(b, c)' = Untold(b, c)
  <2>1. /\ cast'[a].todo = {} /\ cast'[a].full = {}
        /\ cast[a].todo = {} /\ cast[a].full = {}
        /\ \A e \in Broadcasters : e # a => cast'[e] = cast[e]
    BY <1>4, CastStep
  <2> QED BY <2>1 DEF Untold
<1>5. ASSUME BeginBroadcast(a)
      PROVE  IF a = b
             THEN Untold(b, c) = 0 /\ Untold(b, c)' = IF c \in subs THEN 1 ELSE 0
             ELSE Untold(b, c)' = Untold(b, c)
  <2>1. /\ cast'[a].todo = subs /\ cast'[a].full = {}
        /\ cast[a].todo = {} /\ cast[a].full = {}
        /\ \A e \in Broadcasters : e # a => cast'[e] = cast[e]
    BY <1>5, CastStep
  <2> QED BY <2>1 DEF Untold
<1> QED BY <1>1, <1>2, <1>3, <1>4, <1>5

LEMMA JoinedStep ==
    ASSUME HubTypeOK, SubscribedWhileServed, NewIsUntouched, CastsAreOrderly, JoinedBefore,
           [HubNext]_vars
    PROVE  JoinedBefore'
<1> SUFFICES ASSUME NEW c \in Clients, NEW b \in Broadcasters
             PROVE  joined'[c][b] + Untold(b, c)' <= made'[b]
  BY DEF JoinedBefore
<1> DEFINE Before == joined[c][b] + Untold(b, c) <= made[b]
<1>0. /\ Before /\ joined[c][b] \in Nat /\ made[b] \in Nat
      /\ Untold(b, c) \in {0, 1} /\ Untold(b, c)' \in {0, 1}
  BY HubAssumption DEF JoinedBefore, HubTypeOK, Untold
<1>1. ASSUME NEW a \in Broadcasters, NEW d \in Clients, TrySend(a, d) \/ Drop(a, d)
      PROVE  Before'
  <2>1. Untold(b, c)' <= Untold(b, c)
    BY <1>0, <1>1, UntoldStep
  <2>2. UNCHANGED <<joined, made>>
    BY <1>1 DEF TrySend, Drop
  <2> QED BY <1>0, <2>1, <2>2
<1>2. ASSUME NEW a \in Broadcasters, EndBroadcast(a) PROVE Before'
  <2>1. UNCHANGED <<joined, made>>
    BY <1>2 DEF EndBroadcast
  <2>2. Untold(b, c)' = Untold(b, c)
    BY <1>2, UntoldStep
  <2> QED BY <1>0, <2>1, <2>2
<1>3. ASSUME NEW a \in Broadcasters, BeginBroadcast(a) PROVE Before'
  <2>1. joined' = joined /\ made' = [made EXCEPT ![a] = made[a] + 1]
    BY <1>3 DEF BeginBroadcast
  <2>2. CASE a = b
    <3>1. made'[b] = made[b] + 1
      BY <2>1, <2>2 DEF HubTypeOK
    <3> QED BY <1>0, <1>3, <2>1, <2>2, <3>1, UntoldStep
  <2>3. CASE a # b
    BY <1>0, <1>3, <2>1, <2>3, UntoldStep DEF HubTypeOK
  <2> QED BY <2>2, <2>3
<1>4. ASSUME NEW d \in Clients, Connect(d) PROVE Before'
  <2>1. UNCHANGED <<cast, made>> /\ Untold(b, c)' = Untold(b, c)
    BY <1>4, UntoldStep DEF Connect
  <2>2. CASE d = c
    <3>1. joined'[c] = made /\ Untold(b, c) = 0
      BY <1>4, <2>2 DEF Connect, NewIsUntouched, HubTypeOK, Untold
    <3> QED BY <1>0, <2>1, <3>1
  <2>3. CASE d # c
    <3>1. joined'[c] = joined[c]
      BY <1>4, <2>3 DEF Connect, HubTypeOK
    <3> QED BY <1>0, <2>1, <3>1
  <2> QED BY <2>2, <2>3
<1>5. ASSUME UNCHANGED <<joined, made, cast>> PROVE Before'
  BY <1>0, <1>5, UntoldStep
<1> QED BY <1>1, <1>2, <1>3, <1>4, <1>5 DEF HubNext, BroadcastStep, PumpStep, vars, Take,
        WriteSucceeds, WriteFails, PingFails, SeeClosed, Unsubscribe, CloseConn, ReadFails,
        Disconnect

-----------------------------------------------------------------------------
(* The order of a stream.                                                  *)

\* Nothing the stream of c from b depends on has changed, or c is less served.
LEMMA InOrderFrame ==
    ASSUME HubTypeOK, NEW c \in Clients, NEW b \in Broadcasters, InOrder(c, b),
           received'[c] = received[c], joined'[c][b] = joined[c][b],
           Reachable(c)' => Reachable(c) /\ Stream(c)' = Stream(c),
           StillServed(c)' => /\ StillServed(c) /\ Stream(c)' = Stream(c)
                              /\ made'[b] - Untold(b, c)' = made[b] - Untold(b, c)
    PROVE  InOrder(c, b)'
<1>1. Gapless(b, received[c], joined[c][b] + 1)'
  BY DEF InOrder, Gapless
<1>2. Reachable(c)' => Gapless(b, Stream(c), joined[c][b] + 1)'
  BY DEF InOrder, Gapless
<1>3. StillServed(c)' =>
        Complete(b, Stream(c), joined[c][b] + 1, made[b] - Untold(b, c))'
  <2> SUFFICES ASSUME StillServed(c)'
               PROVE  Complete(b, Stream(c), joined[c][b] + 1, made[b] - Untold(b, c))'
    OBVIOUS
  <2> QED BY DEF InOrder, Complete, Gapless
<1> QED BY <1>1, <1>2, <1>3 DEF InOrder

LEMMA StreamType ==
    ASSUME HubTypeOK, NEW c \in Clients
    PROVE  /\ received[c] \in Seq(Messages) /\ writing[c] \in Seq(Messages)
           /\ send[c] \in Seq(Messages) /\ received[c] \o writing[c] \in Seq(Messages)
           /\ Stream(c) \in Seq(Messages)
<1>1. received[c] \in Seq(Messages) /\ writing[c] \in Seq(Messages) /\ send[c] \in Seq(Messages)
  BY DEF HubTypeOK
<1>2. received[c] \o writing[c] \in Seq(Messages)
  BY <1>1, ConcatProperties
<1> QED BY <1>1, <1>2, ConcatProperties DEF Stream

\* A step that touches other clients only, and tells none of them anything.
LEMMA OtherClient ==
    ASSUME HubTypeOK, NEW c \in Clients, NEW b \in Broadcasters, InOrder(c, b),
           received'[c] = received[c], writing'[c] = writing[c], send'[c] = send[c],
           pump'[c] = pump[c], network'[c] = network[c], c \in closed' <=> c \in closed,
           joined'[c] = joined[c], made'[b] - Untold(b, c)' = made[b] - Untold(b, c)
    PROVE  InOrder(c, b)'
<1>1. Stream(c)' = Stream(c)
  BY DEF Stream
<1>2. Reachable(c)' <=> Reachable(c)
  BY DEF Reachable
<1>3. StillServed(c)' <=> StillServed(c)
  BY DEF StillServed, Closed
<1> QED BY <1>1, <1>2, <1>3, InOrderFrame

\* What enters the channel comes last.
LEMMA StreamGrows ==
    ASSUME HubTypeOK, NEW c \in Clients, NEW msg \in Messages,
           received'[c] = received[c], writing'[c] = writing[c],
           send'[c] = Append(send[c], msg)
    PROVE  Stream(c)' = Append(Stream(c), msg)
<1>1. /\ received[c] \in Seq(Messages) /\ writing[c] \in Seq(Messages)
      /\ send[c] \in Seq(Messages)
  BY StreamType
<1>2. received[c] \o writing[c] \o Append(send[c], msg)
        = Append(received[c] \o writing[c] \o send[c], msg)
  BY <1>1, StreamAppend
<1>3. Stream(c)' = received'[c] \o writing'[c] \o send'[c]
  BY Zenon DEF Stream
<1>4. received'[c] \o writing'[c] \o send'[c]
        = received[c] \o writing[c] \o Append(send[c], msg)
  BY Zenon
<1> QED BY <1>2, <1>3, <1>4, Zenon DEF Stream

LEMMA TrySendInOrder ==
    ASSUME HubInv, NEW a \in Broadcasters, NEW d \in Clients, TrySend(a, d),
           NEW c \in Clients, NEW b \in Broadcasters
    PROVE  InOrder(c, b)'
<1> USE DEF HubInv
<1>0. InOrder(c, b) /\ HubTypeOK
  BY DEF StreamInOrder
<1>1. UNCHANGED <<received, writing, pump, network, closed, joined, made>>
  BY DEF TrySend
<1> DEFINE fits == ~Closed(d) /\ Len(send[d]) < SendBuffer
<1>2. CASE ~fits
  <2>1. send' = send
    BY <1>2 DEF TrySend
  <2>2. Untold(b, c)' = Untold(b, c)
    BY <1>2, UntoldStep
  <2> QED BY <1>0, <1>1, <2>1, <2>2, OtherClient
<1>3. CASE fits /\ d # c
  <2>1. send'[c] = send[c]
    BY <1>3 DEF TrySend, HubTypeOK
  <2>2. Untold(b, c)' = Untold(b, c)
    BY <1>3, UntoldStep
  <2> QED BY <1>0, <1>1, <2>1, <2>2, OtherClient
<1>4. CASE fits /\ d = c
  <2> DEFINE msg == Message(a)
  <2>1. msg \in Messages /\ msg.from = a /\ c \in cast[a].todo /\ made[a] \in 1..MaxBroadcasts
    BY <1>4, MessageType DEF TrySend
  <2>2. msg = [from |-> a, number |-> made[a]]
    BY DEF Message
  <2>3. /\ received[c] \in Seq(Messages) /\ writing[c] \in Seq(Messages)
        /\ send[c] \in Seq(Messages) /\ Stream(c) \in Seq(Messages)
    BY StreamType
  <2>4. send'[c] = Append(send[c], msg)
    BY <1>4 DEF TrySend, HubTypeOK
  <2> HIDE DEF msg
  <2>5. Stream(c)' = Append(Stream(c), msg)
    <3>1. received'[c] = received[c] /\ writing'[c] = writing[c]
      BY <1>1
    <3> QED BY <1>0, <2>1, <2>4, <3>1, StreamGrows
  <2>6. /\ joined[c][b] + 1 \in Nat /\ joined[c][b] \in Nat
        /\ made[b] \in Nat /\ made[b] - Untold(b, c) \in Int
    <3>1. joined[c][b] \in 0..MaxBroadcasts /\ made[b] \in 0..MaxBroadcasts
      BY <1>0 DEF HubTypeOK
    <3>2. Untold(b, c) \in {0, 1}
      BY DEF Untold
    <3> QED BY <3>1, <3>2, HubAssumption
  <2>7. Reachable(c)' => StillServed(c)
    BY <1>1, <1>4, <2>1 DEF Reachable, StillServed, NewIsUntouched
  <2>8. StillServed(c)' => StillServed(c)
    BY <1>1 DEF StillServed, Closed
  <2>9. StillServed(c) =>
          Complete(b, Stream(c), joined[c][b] + 1, made[b] - Untold(b, c))'
    <3> SUFFICES ASSUME StillServed(c)
                 PROVE  Complete(b, Append(Stream(c), msg), joined[c][b] + 1,
                                 made[b] - Untold(b, c)')
      BY <1>1, <2>5 DEF Complete, Gapless
    <3>0. Complete(b, Stream(c), joined[c][b] + 1, made[b] - Untold(b, c))
      BY <1>0 DEF InOrder
    <3>1. CASE a # b
      <4>1. Untold(b, c)' = Untold(b, c)
        BY <1>4, <3>1, UntoldStep
      <4> QED BY <2>1, <2>3, <2>6, <3>0, <3>1, <4>1, AppendOther
    <3>2. CASE a = b
      <4>1. Untold(b, c) = 1 /\ Untold(b, c)' = 0
        BY <1>4, <3>2, UntoldStep
      <4>2. /\ made[b] - 1 \in Nat /\ joined[c][b] + 1 <= (made[b] - 1) + 1
            /\ (made[b] - 1) + 1 = made[b] - Untold(b, c)' /\ made[b] = (made[b] - 1) + 1
        BY <2>1, <2>6, <3>2, <4>1, HubAssumption DEF JoinedBefore
      <4>3. msg = [from |-> b, number |-> (made[b] - 1) + 1]
        BY <2>2, <3>2, <4>2 DEF msg
      <4>4. Complete(b, Stream(c), joined[c][b] + 1, made[b] - 1)
        BY <3>0, <4>1
      <4>5. Complete(b, Append(Stream(c), msg), joined[c][b] + 1, (made[b] - 1) + 1)
        BY <2>1, <2>3, <2>6, <4>2, <4>3, <4>4, AppendNext
      <4> QED BY <4>2, <4>5
    <3> QED BY <3>1, <3>2
  <2>10. Gapless(b, received[c], joined[c][b] + 1)'
    BY <1>0, <1>1 DEF InOrder, Gapless
  <2> QED BY <2>7, <2>8, <2>9, <2>10 DEF InOrder, Complete, Gapless
<1> QED BY <1>2, <1>3, <1>4

LEMMA BroadcastInOrder ==
    ASSUME HubInv, NEW a \in Broadcasters, NEW d \in Clients,
           BeginBroadcast(a) \/ Drop(a, d) \/ EndBroadcast(a),
           NEW c \in Clients, NEW b \in Broadcasters
    PROVE  InOrder(c, b)'
<1> USE DEF HubInv
<1>0. InOrder(c, b) /\ HubTypeOK
  BY DEF StreamInOrder
<1>1. UNCHANGED <<received, writing, send, pump, network, joined>>
  BY DEF BeginBroadcast, Drop, EndBroadcast
<1>2. Stream(c)' = Stream(c) /\ (Reachable(c)' <=> Reachable(c))
  BY <1>1 DEF Stream, Reachable
<1>3. CASE BeginBroadcast(a)
  <2>1. StillServed(c)' <=> StillServed(c)
    BY <1>3 DEF BeginBroadcast, StillServed, Closed
  <2>2. StillServed(c) => c \in subs
    BY DEF StillServed, SubscribedWhileServed
  <2>3. made' = [made EXCEPT ![a] = made[a] + 1] /\ made[b] \in Nat
    BY <1>3, HubAssumption DEF BeginBroadcast, HubTypeOK
  <2>4. CASE a = b
    <3>1. made'[b] = made[b] + 1
      BY <2>3, <2>4 DEF HubTypeOK
    <3>2. Untold(b, c) = 0 /\ Untold(b, c)' = IF c \in subs THEN 1 ELSE 0
      BY <1>3, <2>4, UntoldStep
    <3>3. StillServed(c) => made'[b] - Untold(b, c)' = made[b] - Untold(b, c)
      BY <2>2, <2>3, <3>1, <3>2
    <3> QED BY <1>0, <1>1, <1>2, <2>1, <3>3, InOrderFrame
  <2>5. CASE a # b
    <3>1. made'[b] = made[b]
      BY <2>3, <2>5 DEF HubTypeOK
    <3>2. Untold(b, c)' = Untold(b, c)
      BY <1>3, <2>5, UntoldStep
    <3> QED BY <1>0, <1>1, <1>2, <2>1, <3>1, <3>2, InOrderFrame
  <2> QED BY <2>4, <2>5
<1>4. CASE Drop(a, d)
  <2>1. made' = made /\ closed' = closed \cup {d}
    BY <1>4 DEF Drop, CloseSend
  <2>2. StillServed(c)' => StillServed(c) /\ d # c
    BY <1>1, <2>1 DEF StillServed, Closed, HubTypeOK
  <2>3. d # c => Untold(b, c)' = Untold(b, c)
    BY <1>4, UntoldStep
  <2> QED BY <1>0, <1>1, <1>2, <2>1, <2>2, <2>3, InOrderFrame
<1>5. CASE EndBroadcast(a)
  <2>1. made' = made /\ closed' = closed
    BY <1>5 DEF EndBroadcast
  <2>2. Untold(b, c)' = Untold(b, c)
    BY <1>5, UntoldStep
  <2> QED BY <1>0, <1>1, <2>1, <2>2, OtherClient
<1> QED BY <1>3, <1>4, <1>5

LEMMA ConnectInOrder ==
    ASSUME HubInv, NEW d \in Clients, Connect(d),
           NEW c \in Clients, NEW b \in Broadcasters
    PROVE  InOrder(c, b)'
<1> USE DEF HubInv
<1>0. InOrder(c, b) /\ HubTypeOK
  BY DEF StreamInOrder
<1>1. UNCHANGED <<received, writing, send, network, closed, cast, made>>
  BY DEF Connect
<1>2. Untold(b, c)' = Untold(b, c)
  BY <1>1, UntoldStep
<1>3. CASE d # c
  <2>1. pump'[c] = pump[c] /\ joined'[c] = joined[c]
    BY <1>3 DEF Connect, HubTypeOK
  <2> QED BY <1>0, <1>1, <1>2, <2>1, OtherClient
<1>4. CASE d = c
  <2>1. /\ received[c] = <<>> /\ writing[c] = <<>> /\ send[c] = <<>>
        /\ Untold(b, c) = 0 /\ joined'[c] = made
    BY <1>4 DEF Connect, NewIsUntouched, HubTypeOK, Untold
  <2>2. Stream(c) = <<>> /\ Stream(c)' = <<>>
    <3>1. (<<>> \o <<>>) \o <<>> = <<>>
      BY ConcatEmptySeq, EmptySeq
    <3> QED BY <1>1, <2>1, <3>1 DEF Stream
  <2>3. made[b] \in Nat
    BY HubAssumption DEF HubTypeOK
  <2>4. Gapless(b, <<>>, made[b] + 1) /\ Complete(b, <<>>, made[b] + 1, made[b])
    <3>1. made[b] + 1 \in Nat /\ (made[b] + 1) - 1 = made[b]
      BY <2>3
    <3> QED BY <3>1, GaplessEmpty
  <2>5. made[b] - 0 = made[b]
    BY <2>3
  <2> QED BY <1>1, <1>2, <2>1, <2>2, <2>4, <2>5 DEF InOrder, Gapless, Complete
<1> QED BY <1>3, <1>4

LEMMA WritingInOrder ==
    ASSUME HubInv, NEW d \in Clients, Take(d) \/ WriteSucceeds(d),
           NEW c \in Clients, NEW b \in Broadcasters
    PROVE  InOrder(c, b)'
<1> USE DEF HubInv
<1>0. InOrder(c, b) /\ HubTypeOK
  BY DEF StreamInOrder
<1>1. UNCHANGED <<network, closed, cast, made, joined>> /\ Untold(b, c)' = Untold(b, c)
  BY UntoldStep DEF Take, WriteSucceeds
<1>2. CASE d # c
  <2>1. /\ pump'[c] = pump[c] /\ received'[c] = received[c]
        /\ writing'[c] = writing[c] /\ send'[c] = send[c]
    BY <1>2 DEF Take, WriteSucceeds, HubTypeOK
  <2> QED BY <1>0, <1>1, <2>1, OtherClient
<1>3. CASE d = c /\ Take(d)
  <2>1. /\ received'[c] = received[c] /\ writing'[c] = <<Head(send[c])>>
        /\ send'[c] = Tail(send[c]) /\ send[c] # <<>>
        /\ pump[c] = "ready" /\ pump'[c] = "writing" /\ writing[c] = <<>>
    BY <1>3 DEF Take, HubTypeOK, WritingInPump
  <2>2. received[c] \in Seq(Messages) /\ send[c] \in Seq(Messages)
    BY StreamType
  <2>3. received[c] \o <<Head(send[c])>> \o Tail(send[c]) = received[c] \o <<>> \o send[c]
    BY <2>1, <2>2, StreamTake
  <2>4. Stream(c)' = Stream(c)
    BY <2>1, <2>3 DEF Stream
  <2>5. Reachable(c)' <=> Reachable(c)
    BY <1>1, <2>1 DEF Reachable
  <2>6. StillServed(c)' <=> StillServed(c)
    BY <1>1, <2>1 DEF StillServed, Closed
  <2> QED BY <1>0, <1>1, <2>1, <2>4, <2>5, <2>6, InOrderFrame
<1>4. CASE d = c /\ WriteSucceeds(d)
  <2>1. /\ received'[c] = IF network[c] = "up" THEN received[c] \o writing[c] ELSE received[c]
        /\ writing'[c] = <<>> /\ send'[c] = send[c]
        /\ pump[c] = "writing" /\ pump'[c] = "ready"
    BY <1>4 DEF WriteSucceeds, HubTypeOK
  <2>2. Reachable(c)' => network[c] = "up" /\ Reachable(c)
    BY <1>1, <2>1 DEF Reachable
  <2>3. StillServed(c)' => network[c] = "up" /\ StillServed(c)
    BY <1>1, <2>1 DEF StillServed, Closed
  <2>4. CASE network[c] # "up"
    BY <1>0, <1>1, <2>1, <2>2, <2>3, <2>4, InOrderFrame
  <2>5. CASE network[c] = "up"
    <3>1. /\ received[c] \o writing[c] \in Seq(Messages) /\ send[c] \in Seq(Messages)
          /\ (received[c] \o writing[c]) \o <<>> = received[c] \o writing[c]
      BY StreamType, ConcatEmptySeq
    <3>2. Stream(c)' = Stream(c)
      BY <2>1, <2>5, <3>1 DEF Stream
    <3>3. Gapless(b, Stream(c), joined[c][b] + 1)
      BY <2>1, <2>5, <1>0 DEF InOrder, Reachable
    <3>4. joined[c][b] + 1 \in Nat
      BY HubAssumption DEF HubTypeOK
    <3>5. Gapless(b, received[c] \o writing[c], joined[c][b] + 1)
      BY <3>1, <3>3, <3>4, GaplessPrefix DEF Stream
    <3>6. Gapless(b, received[c], joined[c][b] + 1)'
      <4>1. received'[c] = received[c] \o writing[c] /\ joined' = joined
        BY <1>1, <2>1, <2>5
      <4>2. Gapless(b, received'[c], joined'[c][b] + 1)
        BY <3>5, <4>1, Zenon
      <4> QED BY <4>2 DEF Gapless
    <3>7. Reachable(c)' => Gapless(b, Stream(c), joined[c][b] + 1)'
      BY <1>1, <3>2, <3>3 DEF Gapless
    <3>8. StillServed(c)' =>
            Complete(b, Stream(c), joined[c][b] + 1, made[b] - Untold(b, c))'
      <4>1. StillServed(c) =>
              Complete(b, Stream(c), joined[c][b] + 1, made[b] - Untold(b, c))
        BY <1>0 DEF InOrder
      <4> QED BY <1>1, <2>3, <3>2, <4>1 DEF Gapless, Complete
    <3> QED BY <3>6, <3>7, <3>8 DEF InOrder
  <2> QED BY <2>4, <2>5
<1> QED BY <1>2, <1>3, <1>4

LEMMA LeavingInOrder ==
    ASSUME HubInv, NEW d \in Clients,
           \/ WriteFails(d) \/ PingFails(d) \/ SeeClosed(d) \/ Unsubscribe(d)
           \/ CloseConn(d) \/ ReadFails(d) \/ Disconnect(d),
           NEW c \in Clients, NEW b \in Broadcasters
    PROVE  InOrder(c, b)'
<1> USE DEF HubInv
<1>0. InOrder(c, b) /\ HubTypeOK
  BY DEF StreamInOrder
<1>1. UNCHANGED <<received, send, cast, made, joined>> /\ Untold(b, c)' = Untold(b, c)
  BY UntoldStep DEF WriteFails, PingFails, SeeClosed, Unsubscribe, CloseConn, ReadFails,
                    Disconnect
<1>2. CASE d # c
  <2>1. pump'[c] = pump[c] /\ writing'[c] = writing[c]
    BY <1>2 DEF WriteFails, PingFails, SeeClosed, Unsubscribe, CloseConn, ReadFails,
                Disconnect, HubTypeOK
  <2>2. network'[c] = network[c]
    BY <1>2 DEF WriteFails, PingFails, SeeClosed, Unsubscribe, CloseConn, ReadFails,
                Disconnect, HubTypeOK
  <2>3. c \in closed' <=> c \in closed
    BY <1>2 DEF WriteFails, PingFails, SeeClosed, Unsubscribe, CloseConn, ReadFails,
                CloseSend, Disconnect, HubTypeOK
  <2> QED BY <1>0, <1>1, <2>1, <2>2, <2>3, OtherClient
<1>3. CASE d = c /\ ReadFails(d)
  <2>1. UNCHANGED <<pump, network, writing>> /\ Stream(c)' = Stream(c)
    BY <1>1, <1>3 DEF ReadFails, Stream
  <2>2. c \in closed'
    BY <1>3 DEF ReadFails, CloseSend, Closed, HubTypeOK
  <2>3. Reachable(c)' <=> Reachable(c)
    BY <2>1 DEF Reachable
  <2>4. ~StillServed(c)'
    BY <2>2 DEF StillServed, Closed
  <2> QED BY <1>0, <1>1, <2>1, <2>3, <2>4, InOrderFrame
<1>4. CASE d = c /\ ~ReadFails(d)
  <2>1. pump'[c] \in {"left", "unsubscribed", "done"} \/ network'[c] = "gone"
    BY <1>4 DEF WriteFails, PingFails, SeeClosed, Unsubscribe, CloseConn, Disconnect, HubTypeOK
  <2>2. ~Reachable(c)' /\ ~StillServed(c)'
    BY <2>1 DEF Reachable, StillServed
  <2> QED BY <1>0, <1>1, <2>2, InOrderFrame
<1> QED BY <1>2, <1>3, <1>4

LEMMA InOrderStep ==
    ASSUME HubInv, [HubNext]_vars
    PROVE  StreamInOrder'
<1> SUFFICES ASSUME NEW c \in Clients, NEW b \in Broadcasters PROVE InOrder(c, b)'
  BY DEF StreamInOrder
<1>1. CASE UNCHANGED vars
  <2>1. InOrder(c, b) /\ HubTypeOK
    BY DEF HubInv, StreamInOrder
  <2>2. UNCHANGED <<received, writing, send, pump, network, closed, joined, made, cast>>
    BY <1>1 DEF vars
  <2>3. Untold(b, c)' = Untold(b, c)
    BY <2>2 DEF Untold
  <2> QED BY <2>1, <2>2, <2>3, OtherClient
<1> QED BY <1>1, TrySendInOrder, BroadcastInOrder, ConnectInOrder, WritingInOrder,
           LeavingInOrder
        DEF HubNext, BroadcastStep, PumpStep

LEMMA HubInitially == HubInit => HubInv
<1> SUFFICES ASSUME HubInit PROVE HubInv
  OBVIOUS
<1> USE HubAssumption DEF HubInit
<1>1. <<>> \in Seq(Messages) /\ Len(<<>>) = 0
  BY EmptySeq
<1>2. HubTypeOK
  BY <1>1 DEF HubTypeOK, PumpStates, Casts, Idle
<1>3. SubscribedWhileServed /\ NewIsUntouched /\ CastsAreOrderly /\ WritingInPump
  BY DEF SubscribedWhileServed, NewIsUntouched, CastsAreOrderly, WritingInPump, Idle
<1>4. JoinedBefore
  BY DEF JoinedBefore, Untold, Idle
<1>5. ASSUME NEW c \in Clients, NEW b \in Broadcasters PROVE InOrder(c, b)
  <2>1. received[c] = <<>> /\ Stream(c) = <<>> /\ joined[c][b] = 0 /\ ~StillServed(c)
    <3>1. (<<>> \o <<>>) \o <<>> = <<>>
      BY ConcatEmptySeq, <1>1
    <3>2. received[c] = <<>> /\ writing[c] = <<>> /\ send[c] = <<>>
      OBVIOUS
    <3>3. joined[c][b] = 0 /\ pump[c] = "new"
      OBVIOUS
    <3> QED BY <3>1, <3>2, <3>3 DEF Stream, StillServed
  <2>2. Gapless(b, <<>>, 0 + 1)
    BY GaplessEmpty
  <2> QED BY <2>1, <2>2 DEF InOrder
<1> QED BY <1>2, <1>3, <1>4, <1>5 DEF HubInv, StreamInOrder

-----------------------------------------------------------------------------
(* How a broadcast comes to its end: what NeverWaits leaves to be said.    *)

\* How many steps a broadcast has left at most: two for each client to try.
StepsOfCast(b) ==
    IF ~cast[b].active THEN 0
    ELSE IF cast[b].full = {} THEN 2 * Cardinality(cast[b].todo) + 1
    ELSE 2 * Cardinality(cast[b].todo) + 2

\* Each step of the broadcast lowers that number, and nobody else's touches
\* its list.
BroadcastProceeds(b) ==
    /\ BeginBroadcast(b) => StepsOfCast(b)' <= 2 * Cardinality(Clients) + 1
    /\ BroadcastStep(b) => StepsOfCast(b)' < StepsOfCast(b)
    /\ cast[b].active /\ ~BroadcastStep(b) => cast'[b] = cast[b]

LEMMA CastShrinks ==
    ASSUME HubInv, IsFiniteSet(Clients), NEW b \in Broadcasters
    PROVE  /\ BeginBroadcast(b) => StepsOfCast(b)' <= 2 * Cardinality(Clients) + 1
           /\ BroadcastStep(b) => StepsOfCast(b)' < StepsOfCast(b)
<1> USE DEF HubInv
<1>0. cast[b] \in Casts /\ subs \subseteq Clients
  BY DEF HubTypeOK
<1>1. IsFiniteSet(cast[b].todo) /\ Cardinality(cast[b].todo) \in Nat
  <2>1. cast[b].todo \in SUBSET Clients
    BY <1>0 DEF Casts
  <2>2. IsFiniteSet(cast[b].todo)
    BY <2>1, FS_Subset
  <2> QED BY <2>2, FS_CardinalityType
<1>2. BeginBroadcast(b) => StepsOfCast(b)' <= 2 * Cardinality(Clients) + 1
  <2> SUFFICES ASSUME BeginBroadcast(b)
               PROVE  StepsOfCast(b)' <= 2 * Cardinality(Clients) + 1
    OBVIOUS
  <2>1. cast'[b] = [todo |-> subs, full |-> {}, active |-> TRUE]
    BY DEF BeginBroadcast, HubTypeOK
  <2>2. StepsOfCast(b)' = 2 * Cardinality(subs) + 1
    BY <2>1 DEF StepsOfCast
  <2>3. subs \in SUBSET Clients
    BY <1>0
  <2>4. IsFiniteSet(subs) /\ Cardinality(subs) <= Cardinality(Clients)
    BY <2>3, FS_Subset
  <2>5. Cardinality(subs) \in Nat /\ Cardinality(Clients) \in Nat
    BY <2>4, FS_CardinalityType
  <2> QED BY <2>2, <2>4, <2>5
<1>3. ASSUME NEW c \in Clients, TrySend(b, c) PROVE StepsOfCast(b)' < StepsOfCast(b)
  <2>1. /\ cast'[b].todo = cast[b].todo \ {c} /\ cast'[b].active = cast[b].active
        /\ cast[b].full = {} /\ c \in cast[b].todo
    BY <1>3, CastStep
  <2>2. cast[b].active
    BY <2>1 DEF CastsAreOrderly
  <2>3. Cardinality(cast'[b].todo) = Cardinality(cast[b].todo) - 1
    <3>1. Cardinality(cast[b].todo \ {c}) = Cardinality(cast[b].todo) - 1
      BY <1>1, <2>1, FS_RemoveElement
    <3> QED BY <2>1, <3>1
  <2>4. StepsOfCast(b) = 2 * Cardinality(cast[b].todo) + 1
    BY <2>1, <2>2 DEF StepsOfCast
  <2>5. \/ StepsOfCast(b)' = 2 * Cardinality(cast'[b].todo) + 1
        \/ StepsOfCast(b)' = 2 * Cardinality(cast'[b].todo) + 2
    BY <2>1, <2>2 DEF StepsOfCast
  <2> QED BY <1>1, <2>3, <2>4, <2>5
<1>4. ASSUME NEW c \in Clients, Drop(b, c) PROVE StepsOfCast(b)' < StepsOfCast(b)
  <2>1. /\ cast'[b].todo = cast[b].todo /\ cast'[b].active = cast[b].active
        /\ cast[b].full = {c} /\ cast'[b].full = {}
    BY <1>4, CastStep
  <2>2. cast[b].active
    BY <2>1 DEF CastsAreOrderly
  <2>3. StepsOfCast(b) = 2 * Cardinality(cast[b].todo) + 2
    BY <2>1, <2>2 DEF StepsOfCast
  <2>4. StepsOfCast(b)' = 2 * Cardinality(cast[b].todo) + 1
    BY <2>1, <2>2 DEF StepsOfCast
  <2> QED BY <1>1, <2>3, <2>4
<1>5. ASSUME EndBroadcast(b) PROVE StepsOfCast(b)' < StepsOfCast(b)
  <2>1. cast[b].active /\ cast'[b] = Idle /\ cast[b].full = {}
    BY <1>5 DEF EndBroadcast, HubTypeOK
  <2>2. StepsOfCast(b)' = 0 /\ StepsOfCast(b) = 2 * Cardinality(cast[b].todo) + 1
    BY <2>1 DEF StepsOfCast, Idle
  <2> QED BY <1>1, <2>2
<1> QED BY <1>2, <1>3, <1>4, <1>5 DEF BroadcastStep

LEMMA CastKept ==
    ASSUME HubInv, [HubNext]_vars, NEW b \in Broadcasters, cast[b].active, ~BroadcastStep(b)
    PROVE  cast'[b] = cast[b]
<1> USE DEF HubInv
<1>1. ASSUME NEW d \in Broadcasters, BeginBroadcast(d) PROVE cast'[b] = cast[b]
  BY <1>1 DEF BeginBroadcast, HubTypeOK
<1>2. ASSUME NEW d \in Broadcasters, d # b, BroadcastStep(d) PROVE cast'[b] = cast[b]
  BY <1>2 DEF BroadcastStep, TrySend, Drop, EndBroadcast, HubTypeOK
<1>3. CASE UNCHANGED cast
  BY <1>3
<1> QED BY <1>1, <1>2, <1>3 DEF HubNext, PumpStep, vars, Connect, Take, WriteSucceeds,
       WriteFails, PingFails, SeeClosed, Unsubscribe, CloseConn, ReadFails, Disconnect

-----------------------------------------------------------------------------
(* How a client comes to its end: the safety half of NoLeak.  HasWork says *)
(* in the guards' own words that one of the client's two goroutines can    *)
(* move, so that what is left to fairness is only that it does.            *)

\* The pump and the reader start together, and no connection is lost before
\* it is made.  A reader that has ended has closed the channel.
StartTogether ==
    \A c \in Clients :
        /\ reader[c] = "new" <=> pump[c] = "new"
        /\ pump[c] = "new" => network[c] = "up" /\ ~Closed(c)
        /\ reader[c] = "done" => Closed(c)

\* A client that is Lost or was, and is to be reclaimed.
Doomed(c) == Lost(c) \/ pump[c] \in {"unsubscribed", "done"}

\* One whose pump takes no new message any more.
Draining(c) == Closed(c) \/ pump[c] \in {"left", "unsubscribed", "done"}

\* A step of PumpStep(c) or ReadFails(c) can be taken.
HasWork(c) ==
    \/ pump[c] = "ready" /\ (send[c] # <<>> \/ Closed(c))
    \/ pump[c] \in {"writing", "left", "unsubscribed"}
    \/ reader[c] = "running" /\ (network[c] = "gone" \/ pump[c] = "done")

\* How many steps the goroutines of a draining client have left at most.
StepsOfPump(c) ==
    IF pump[c] = "done" THEN 0
    ELSE IF pump[c] = "unsubscribed" THEN 1
    ELSE IF pump[c] = "left" THEN 2
    ELSE IF pump[c] = "writing" THEN 4 + 2 * Len(send[c])
    ELSE 3 + 2 * Len(send[c])

StepsLeft(c) == IF reader[c] = "running" THEN StepsOfPump(c) + 1 ELSE StepsOfPump(c)

\* Whoever is to be reclaimed is so already, or has a step to take.
DoomedHaveWork == \A c \in Clients : Doomed(c) => Reclaimed(c) \/ HasWork(c)

\* No step of anyone brings a client back or gives it more to do, and every
\* step of its own brings it nearer to its end.
DoomedDrain(c) ==
    /\ Doomed(c) => Doomed(c)'
    /\ Doomed(c) /\ ReadFails(c) => Draining(c)'
    /\ Draining(c) =>
          /\ Draining(c)'
          /\ StepsLeft(c)' <= StepsLeft(c)
          /\ PumpStep(c) \/ ReadFails(c) => StepsLeft(c)' < StepsLeft(c)

LEMMA StartTogetherStep ==
    ASSUME HubInv, StartTogether, [HubNext]_vars
    PROVE  StartTogether'
<1> USE DEF HubTypeOK
<1>0. HubTypeOK
  BY DEF HubInv
<1>1. ASSUME NEW c \in Clients, Connect(c) PROVE StartTogether'
  BY <1>0, <1>1 DEF Connect, StartTogether, Closed
<1>2. ASSUME NEW c \in Clients, PumpStep(c) \/ PingFails(c) PROVE StartTogether'
  <2>1. UNCHANGED <<reader, network, closed>>
    BY <1>2 DEF PumpStep, PingFails, Take, WriteSucceeds, WriteFails, SeeClosed, Unsubscribe,
                CloseConn
  <2>2. pump[c] # "new" /\ pump'[c] # "new" /\ \A d \in Clients : d # c => pump'[d] = pump[d]
    BY <1>0, <1>2 DEF PumpStep, PingFails, Take, WriteSucceeds, WriteFails, SeeClosed,
                      Unsubscribe, CloseConn
  <2> QED BY <2>1, <2>2 DEF StartTogether, Closed
<1>3. ASSUME NEW c \in Clients, ReadFails(c) PROVE StartTogether'
  <2>1. UNCHANGED <<pump, network>> /\ pump[c] # "new"
    BY <1>3 DEF ReadFails, StartTogether
  <2>2. reader'[c] = "done" /\ c \in closed'
    BY <1>0, <1>3 DEF ReadFails, CloseSend, Closed
  <2>3. \A d \in Clients : d # c => reader'[d] = reader[d] /\ (d \in closed' <=> d \in closed)
    BY <1>0, <1>3 DEF ReadFails, CloseSend
  <2> QED BY <2>1, <2>2, <2>3 DEF StartTogether, Closed
<1>4. ASSUME NEW c \in Clients, Disconnect(c) PROVE StartTogether'
  BY <1>0, <1>4 DEF Disconnect, StartTogether, Closed
<1>5. ASSUME NEW b \in Broadcasters, NEW c \in Clients, Drop(b, c) PROVE StartTogether'
  <2>1. UNCHANGED <<pump, network, reader>> /\ pump[c] # "new"
    BY <1>5 DEF Drop, HubInv, NewIsUntouched
  <2>2. c \in closed' /\ \A d \in Clients : d # c => (d \in closed' <=> d \in closed)
    BY <1>0, <1>5 DEF Drop, CloseSend, Closed
  <2> QED BY <2>1, <2>2 DEF StartTogether, Closed
<1>6. CASE UNCHANGED <<pump, network, reader, closed>>
  BY <1>6 DEF StartTogether, Closed
<1> QED BY <1>1, <1>2, <1>3, <1>4, <1>5, <1>6 DEF HubNext, BroadcastStep, BeginBroadcast,
        TrySend, EndBroadcast, vars

LEMMA WorkIsThere ==
    ASSUME HubInv, StartTogether
    PROVE  DoomedHaveWork
<1> SUFFICES ASSUME NEW c \in Clients, Doomed(c), ~HasWork(c) PROVE Reclaimed(c)
  BY DEF DoomedHaveWork
<1>0. /\ pump[c] \in PumpStates /\ reader[c] \in {"new", "running", "done"}
      /\ c \in subs <=> pump[c] \in {"ready", "writing", "left"}
  BY DEF HubInv, HubTypeOK, SubscribedWhileServed
<1>1. pump[c] # "new"
  BY DEF Doomed, Lost, StartTogether
<1>2. pump[c] # "ready"
  <2> SUFFICES ASSUME pump[c] = "ready" PROVE FALSE
    OBVIOUS
  <2>1. ~Closed(c)
    BY DEF HasWork
  <2>2. network[c] = "gone"
    BY <2>1 DEF Doomed, Lost
  <2>3. reader[c] = "running"
    BY <1>0, <1>1, <2>1 DEF StartTogether
  <2> QED BY <2>2, <2>3 DEF HasWork
<1>3. pump[c] = "done"
  BY <1>0, <1>1, <1>2 DEF HasWork, PumpStates
<1>4. reader[c] = "done"
  BY <1>0, <1>3 DEF HasWork, StartTogether
<1> QED BY <1>0, <1>3, <1>4 DEF Reclaimed

\* What a step of c's own does to its channel and its two goroutines.
LEMMA OwnStep ==
    ASSUME HubInv, NEW c \in Clients, PumpStep(c) \/ ReadFails(c)
    PROVE  /\ (Closed(c) => Closed(c)') /\ network' = network
           /\ StepsLeft(c) \in Nat /\ StepsLeft(c)' < StepsLeft(c)
           /\ pump[c] \in {"left", "unsubscribed", "done"} =>
                 pump'[c] \in {"left", "unsubscribed", "done"}
           /\ pump[c] \in {"unsubscribed", "done"} => pump'[c] \in {"unsubscribed", "done"}
           /\ ReadFails(c) => Closed(c)'
<1> USE DEF HubTypeOK
<1>0. /\ HubTypeOK /\ Len(send[c]) \in Nat /\ send[c] \in Seq(Messages)
      /\ StepsOfPump(c) \in Nat /\ StepsLeft(c) \in Nat
  <2>1. HubTypeOK
    BY DEF HubInv
  <2>2. send[c] \in Seq(Messages) /\ Len(send[c]) \in Nat
    BY <2>1, LenProperties
  <2>3. StepsOfPump(c) \in Nat
    BY <2>2 DEF StepsOfPump
  <2> QED BY <2>1, <2>2, <2>3 DEF StepsLeft
<1>1. CASE Take(c)
  <2>1. send'[c] = Tail(send[c]) /\ Len(send'[c]) = Len(send[c]) - 1
    <3>1. send'[c] = Tail(send[c]) /\ send[c] # <<>>
      BY <1>0, <1>1 DEF Take
    <3> QED BY <1>0, <3>1, HeadTailProperties
  <2>2. pump[c] = "ready" /\ pump'[c] = "writing" /\ UNCHANGED <<closed, network, reader>>
    BY <1>0, <1>1 DEF Take
  <2>3. StepsOfPump(c) = 3 + 2 * Len(send[c])
    BY <2>2 DEF StepsOfPump
  <2>4. StepsOfPump(c)' = 4 + 2 * Len(send'[c])
    BY <2>2 DEF StepsOfPump
  <2>5. StepsOfPump(c)' = StepsOfPump(c) - 1 /\ Len(send[c]) # 0
    <3>1. Len(send[c]) # 0
      BY <1>0, <1>1, EmptySeq DEF Take
    <3> QED BY <1>0, <2>1, <2>3, <2>4, <3>1
  <2>6. StepsLeft(c)' < StepsLeft(c)
    BY <1>0, <2>2, <2>5 DEF StepsLeft
  <2> QED BY <1>0, <1>1, <2>2, <2>6 DEF Take, ReadFails, Closed
<1>2. ASSUME \/ WriteSucceeds(c) \/ WriteFails(c) \/ SeeClosed(c) \/ Unsubscribe(c)
             \/ CloseConn(c)
      PROVE  /\ UNCHANGED <<closed, network, reader, send>>
             /\ StepsLeft(c)' < StepsLeft(c)
             /\ pump[c] = "left" => pump'[c] = "unsubscribed"
             /\ pump[c] \in {"unsubscribed", "done"} => pump'[c] = "done"
  <2>1. UNCHANGED <<closed, network, reader, send>>
    BY <1>2 DEF WriteSucceeds, WriteFails, SeeClosed, Unsubscribe, CloseConn
  <2>2. \/ pump[c] = "writing" /\ pump'[c] \in {"ready", "left"}
        \/ pump[c] = "ready" /\ pump'[c] = "left"
        \/ pump[c] = "left" /\ pump'[c] = "unsubscribed"
        \/ pump[c] = "unsubscribed" /\ pump'[c] = "done"
    BY <1>0, <1>2 DEF WriteSucceeds, WriteFails, SeeClosed, Unsubscribe, CloseConn
  <2>3. StepsOfPump(c)' < StepsOfPump(c) /\ StepsOfPump(c)' \in Nat
    BY <1>0, <2>1, <2>2 DEF StepsOfPump
  <2>4. StepsLeft(c)' < StepsLeft(c)
    BY <1>0, <2>1, <2>3 DEF StepsLeft
  <2> QED BY <2>1, <2>2, <2>4
<1>3. CASE ReadFails(c)
  <2>1. reader[c] = "running" /\ reader'[c] = "done" /\ UNCHANGED <<pump, send, network>>
    BY <1>0, <1>3 DEF ReadFails
  <2>2. c \in closed'
    BY <1>0, <1>3 DEF ReadFails, CloseSend, Closed
  <2>3. StepsOfPump(c)' = StepsOfPump(c)
    BY <2>1 DEF StepsOfPump
  <2>4. StepsLeft(c)' < StepsLeft(c)
    BY <1>0, <2>1, <2>3 DEF StepsLeft
  <2> QED BY <1>0, <2>1, <2>2, <2>4 DEF Closed
<1>4. ASSUME \/ WriteSucceeds(c) \/ WriteFails(c) \/ SeeClosed(c) \/ Unsubscribe(c)
             \/ CloseConn(c)
      PROVE  ~ReadFails(c) /\ (Closed(c) => Closed(c)')
  <2>1. UNCHANGED <<closed, reader>>
    BY <1>0, <1>4 DEF WriteSucceeds, WriteFails, SeeClosed, Unsubscribe, CloseConn
  <2>2. ReadFails(c) => reader'[c] # reader[c]
    BY <1>0 DEF ReadFails
  <2> QED BY <2>1, <2>2 DEF Closed
<1> QED BY <1>0, <1>1, <1>2, <1>3, <1>4 DEF PumpStep

\* What a step of anything else does to it, once it is draining.
LEMMA ForeignStep ==
    ASSUME HubInv, StartTogether, [HubNext]_vars, NEW c \in Clients,
           ~PumpStep(c), ~ReadFails(c)
    PROVE  /\ Closed(c) => Closed(c)'
           /\ network[c] = "gone" => network'[c] = "gone"
           /\ pump[c] \in {"left", "unsubscribed", "done"} => pump'[c] = pump[c]
           /\ Draining(c) => StepsLeft(c)' <= StepsLeft(c)
<1> USE DEF HubTypeOK
<1>0. /\ HubTypeOK /\ Len(send[c]) \in Nat
      /\ StepsOfPump(c) \in Nat /\ StepsLeft(c) \in Nat
  <2>1. HubTypeOK
    BY DEF HubInv
  <2>2. send[c] \in Seq(Messages) /\ Len(send[c]) \in Nat
    BY <2>1, LenProperties
  <2>3. StepsOfPump(c) \in Nat
    BY <2>2 DEF StepsOfPump
  <2> QED BY <2>1, <2>2, <2>3 DEF StepsLeft
<1>1. ASSUME UNCHANGED <<network, reader>>, pump'[c] = pump[c], send'[c] = send[c],
             Closed(c) => Closed(c)'
      PROVE  /\ network[c] = "gone" => network'[c] = "gone"
             /\ StepsLeft(c)' <= StepsLeft(c)
  <2>1. StepsOfPump(c)' = StepsOfPump(c)
    BY <1>1 DEF StepsOfPump
  <2> QED BY <1>0, <1>1, <2>1 DEF StepsLeft
<1>2. ASSUME NEW b \in Broadcasters, NEW d \in Clients, TrySend(b, d)
      PROVE  /\ UNCHANGED <<network, reader, pump, closed>>
             /\ Draining(c) => StepsLeft(c)' <= StepsLeft(c)
  <2>1. UNCHANGED <<network, reader, pump, closed>>
    BY <1>2 DEF TrySend
  <2>2. CASE pump[c] \in {"left", "unsubscribed", "done"}
    <3>1. StepsOfPump(c)' = StepsOfPump(c)
      BY <2>1, <2>2 DEF StepsOfPump
    <3> QED BY <1>0, <2>1, <3>1 DEF StepsLeft
  <2>3. CASE Closed(c)
    <3>1. send'[c] = send[c]
      BY <1>0, <1>2, <2>3 DEF TrySend
    <3> QED BY <1>1, <2>1, <3>1 DEF Closed
  <2> QED BY <2>1, <2>2, <2>3 DEF Draining
<1>3. ASSUME NEW b \in Broadcasters, NEW d \in Clients, Drop(b, d)
      PROVE  UNCHANGED <<network, reader, pump, send>> /\ (Closed(c) => Closed(c)')
  BY <1>0, <1>3 DEF Drop, CloseSend, Closed
<1>4. ASSUME NEW b \in Broadcasters, BeginBroadcast(b) \/ EndBroadcast(b)
      PROVE  UNCHANGED <<network, reader, pump, send, closed>>
  BY <1>4 DEF BeginBroadcast, EndBroadcast
<1>5. ASSUME NEW d \in Clients, d # c,
             \/ Connect(d) \/ PumpStep(d) \/ PingFails(d) \/ ReadFails(d)
      PROVE  /\ network' = network /\ reader'[c] = reader[c] /\ pump'[c] = pump[c]
             /\ send'[c] = send[c] /\ (c \in closed' <=> c \in closed)
  <2>1. CASE Connect(d) \/ PingFails(d)
    BY <1>0, <1>5, <2>1 DEF Connect, PingFails
  <2>2. CASE PumpStep(d)
    BY <1>0, <1>5, <2>2 DEF PumpStep, Take, WriteSucceeds, WriteFails, SeeClosed,
                            Unsubscribe, CloseConn
  <2>3. CASE ReadFails(d)
    BY <1>0, <1>5, <2>3 DEF ReadFails, CloseSend
  <2> QED BY <1>5, <2>1, <2>2, <2>3
<1>6. ASSUME NEW d \in Clients, Disconnect(d)
      PROVE  /\ UNCHANGED <<reader, pump, send, closed>>
             /\ network[c] = "gone" => network'[c] = "gone"
  BY <1>0, <1>6 DEF Disconnect
<1>7. CASE Connect(c)
  <2>1. pump[c] = "new" /\ ~Closed(c)
    BY <1>7 DEF Connect, StartTogether
  <2> QED BY <1>7, <2>1 DEF Connect, Draining
<1>8. CASE PingFails(c)
  <2>1. pump[c] = "ready" /\ pump'[c] = "left" /\ UNCHANGED <<send, closed, reader, network>>
    BY <1>0, <1>8 DEF PingFails
  <2>2. StepsOfPump(c)' <= StepsOfPump(c) /\ StepsOfPump(c)' \in Nat
    BY <1>0, <2>1 DEF StepsOfPump
  <2> QED BY <1>0, <2>1, <2>2 DEF StepsLeft, Closed
<1>9. ASSUME reader'[c] = reader[c], pump'[c] = pump[c], send'[c] = send[c]
      PROVE  StepsLeft(c)' <= StepsLeft(c)
  <2>1. StepsOfPump(c)' = StepsOfPump(c)
    BY <1>9 DEF StepsOfPump
  <2> QED BY <1>0, <1>9, <2>1 DEF StepsLeft
<1>10. CASE UNCHANGED vars
  BY <1>1, <1>10 DEF vars, Closed
<1>11. ASSUME NEW b \in Broadcasters, BeginBroadcast(b) \/ BroadcastStep(b)
       PROVE  /\ Closed(c) => Closed(c)'
              /\ UNCHANGED <<network, pump>>
              /\ Draining(c) => StepsLeft(c)' <= StepsLeft(c)
  BY <1>2, <1>3, <1>4, <1>9, <1>11 DEF BroadcastStep, Closed
<1>12. ASSUME NEW d \in Clients,
              Connect(d) \/ PumpStep(d) \/ PingFails(d) \/ ReadFails(d) \/ Disconnect(d)
       PROVE  /\ Closed(c) => Closed(c)'
              /\ network[c] = "gone" => network'[c] = "gone"
              /\ pump[c] \in {"left", "unsubscribed", "done"} => pump'[c] = pump[c]
              /\ Draining(c) => StepsLeft(c)' <= StepsLeft(c)
  <2>1. CASE Disconnect(d)
    BY <1>6, <1>9, <2>1 DEF Closed
  <2>2. CASE d # c /\ ~Disconnect(d)
    <3>1. /\ network' = network /\ reader'[c] = reader[c] /\ pump'[c] = pump[c]
          /\ send'[c] = send[c] /\ (c \in closed' <=> c \in closed)
      BY <1>5, <1>12, <2>2
    <3>2. Closed(c) => Closed(c)'
      BY <3>1 DEF Closed
    <3> QED BY <1>9, <3>1, <3>2
  <2>3. CASE d = c /\ ~Disconnect(d)
    BY <1>7, <1>8, <1>12, <2>3
  <2> QED BY <2>1, <2>2, <2>3
<1> QED BY <1>10, <1>11, <1>12 DEF HubNext

LEMMA DrainStep ==
    ASSUME HubInv, StartTogether, [HubNext]_vars, NEW c \in Clients
    PROVE  DoomedDrain(c)
<1>1. CASE PumpStep(c) \/ ReadFails(c)
  <2>1. Closed(c) => Closed(c)'
    BY <1>1, OwnStep
  <2>2. /\ network' = network /\ StepsLeft(c)' < StepsLeft(c)
        /\ pump[c] \in {"left", "unsubscribed", "done"} =>
              pump'[c] \in {"left", "unsubscribed", "done"}
        /\ pump[c] \in {"unsubscribed", "done"} => pump'[c] \in {"unsubscribed", "done"}
        /\ ReadFails(c) => Closed(c)'
    BY <1>1, OwnStep
  <2>3. StepsLeft(c)' <= StepsLeft(c)
    <3>1. StepsLeft(c) \in Nat /\ StepsLeft(c)' \in Nat
      <4>1. HubTypeOK /\ HubTypeOK'
        BY TypeStep DEF HubInv
      <4>2. Len(send[c]) \in Nat /\ Len(send'[c]) \in Nat
        BY <4>1, LenProperties DEF HubTypeOK
      <4> QED BY <4>2 DEF StepsLeft, StepsOfPump
    <3> QED BY <2>2, <3>1
  <2> QED BY <2>1, <2>2, <2>3 DEF DoomedDrain, Doomed, Draining, Lost
<1>2. CASE ~PumpStep(c) /\ ~ReadFails(c)
  BY <1>2, ForeignStep DEF DoomedDrain, Doomed, Draining, Lost
<1> QED BY <1>1, <1>2

-----------------------------------------------------------------------------
(* Theorems.                                                               *)

\* The inductive invariant.
THEOREM HubInvariant == HubSpec => []HubInv
<1>1. HubInv /\ [HubNext]_vars => HubInv'
  BY TypeStep, SubscribedStep, NewStep, OrderlyStep, JoinedStep, WritingStep,
     InOrderStep
     DEF HubInv
<1> QED BY <1>1, HubInitially, PTL DEF HubSpec

\* Nothing a hub holds grows past its bound: a channel holds at most
\* SendBuffer messages, a pump writes one at a time.
THEOREM HubTypeCorrect == HubSpec => []HubTypeOK
<1>1. HubInv => HubTypeOK
  BY DEF HubInv
<1> QED BY <1>1, HubInvariant, PTL

\* What a browser has received from a broadcaster has no gap in it, for any
\* number of both, any buffer and any order of the goroutines.
THEOREM DeliveryHasNoGap == HubSpec => []NoSilentGap
<1>1. HubInv => NoSilentGap
  BY DEF HubInv, StreamInOrder, InOrder, NoSilentGap
<1> QED BY <1>1, HubInvariant, PTL

\* A client still served has every message since it subscribed, delivered or
\* on the way, but for one each broadcaster is still sending.
THEOREM ServedClientsMissNothing == HubSpec => []ServedInFull
<1>1. HubInv => ServedInFull
  BY DEF HubInv, StreamInOrder, InOrder, ServedInFull
<1> QED BY <1>1, HubInvariant, PTL

\* Broadcast is wait-free: two steps for each subscriber at most, whatever
\* the pumps and the other broadcasters do meanwhile (hub.go:36-42).
THEOREM BroadcastsEnd ==
    ASSUME IsFiniteSet(Clients)
    PROVE  HubSpec => [][\A b \in Broadcasters : BroadcastProceeds(b)]_vars
<1>1. HubInv /\ [HubNext]_vars => [\A b \in Broadcasters : BroadcastProceeds(b)]_vars
  BY CastShrinks, CastKept DEF BroadcastProceeds
<1> QED BY <1>1, HubInvariant, PTL DEF HubSpec

LEMMA StartTogetherAlways == HubSpec => [](HubInv /\ StartTogether)
<1>1. HubInit => StartTogether
  <2> SUFFICES ASSUME HubInit, NEW c \in Clients
               PROVE  /\ reader[c] = "new" <=> pump[c] = "new"
                      /\ pump[c] = "new" => network[c] = "up" /\ ~Closed(c)
                      /\ reader[c] = "done" => Closed(c)
    BY DEF StartTogether
  <2>1. reader[c] = "new" /\ pump[c] = "new" /\ network[c] = "up" /\ c \notin closed
    BY DEF HubInit
  <2> QED BY <2>1 DEF Closed
<1>2. HubInv /\ StartTogether /\ [HubNext]_vars => StartTogether'
  BY StartTogetherStep
<1> QED BY <1>1, <1>2, HubInvariant, PTL DEF HubSpec

\* A client that has left, was dropped or could not be written to is never
\* stuck: until it is reclaimed one of its goroutines has a step to take,
\* which fairness makes it take (hub.go:9-12, 177-183).
THEOREM DoomedClientsCanMove == HubSpec => []DoomedHaveWork
<1>1. HubInv /\ StartTogether => DoomedHaveWork
  BY WorkIsThere
<1> QED BY <1>1, StartTogetherAlways, PTL

\* And those steps come to an end: nothing revives such a client, its read
\* failure puts its pump out of reach of every broadcast, and from then on
\* each of its steps lowers a number that no other step raises.
THEOREM DoomedClientsDrain == HubSpec => [][\A c \in Clients : DoomedDrain(c)]_vars
<1>1. HubInv /\ StartTogether /\ [HubNext]_vars => [\A c \in Clients : DoomedDrain(c)]_vars
  BY DrainStep
<1> QED BY <1>1, StartTogetherAlways, PTL DEF HubSpec
=============================================================================
