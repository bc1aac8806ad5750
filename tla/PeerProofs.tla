------------------------------ MODULE PeerProofs ------------------------------
(***************************************************************************)
(* Proofs about a Connection and its peer, for every value of the          *)
(* constants: a peer that stopped sending is found out in bounded time,    *)
(* and one that follows the protocol is never dropped for breaking it.     *)
(***************************************************************************)
EXTENDS ConnectionProofs

-----------------------------------------------------------------------------
(* What is under way in either direction                                   *)

\* The messages a buffer holds.
Elems(s) == {s[i] : i \in 1 .. Len(s)}

\* What the connection has asked of the peer: read by it, or waiting to be sent.
Requests == delivered \cup Elems(write_pending)

\* What the peer has sent and no handler has seen yet.
Replies == Elems(read_accum) \cup Elems(inbox)

\* A connection asks only what its state lets it ask, and of nothing later than
\* now: the hello once it is connected, pings once it is live.
RequestInv ==
  /\ \A m \in Requests : m.type \in {"kConnectHello", "kPing"} /\ m.timestamp_ns <= now
  /\ state # "kFailed" =>
       \A m \in Requests : /\ m.type = "kConnectHello" => state # "kConnecting"
                           /\ m.type = "kPing" => state \in Live

\* A PONG under way is younger than the PING it answers, a CONNECT_ACK younger
\* than the handshake.
ReplyInv ==
  EvidenceAnswers =>
    /\ \A m \in Replies : m.type = "kPong" => m.timestamp_ns <= peer_alive_ns
    /\ state \in Opening =>
         \A m \in Replies :
           m.type = "kConnectAck" => state = "kHandshaking" /\ state_entered <= peer_alive_ns

\* No clock runs ahead, and between two ticks a connection that is opening has
\* been so for less than one timeout.
OpeningInv ==
  /\ peer_alive_ns <= now /\ state_entered <= now
  /\ state \in Opening /\ pc # "check" => \E t \in Timeouts : tick_now < state_entered + t

\* What a live connection counts its silence from is a set-timeout, or at most
\* one timeout and one tick after the peer's last message.
EvidenceInv ==
  EvidenceAnswers /\ state \in Live =>
    \/ baseline <= rebased_ns
    \/ \E t \in Timeouts : baseline < peer_alive_ns + t + TickGap

PeerInv == RequestInv /\ ReplyInv /\ OpeningInv /\ EvidenceInv

-----------------------------------------------------------------------------
(* The messages of a buffer                                                *)

\* An empty buffer holds nothing.
LEMMA ElemsEmpty == Elems(<<>>) = {}
  BY DEF Elems

\* Appending to a buffer adds one message.
LEMMA ElemsAppend ==
  ASSUME NEW S, NEW s \in Seq(S), NEW e \in S
  PROVE  Elems(Append(s, e)) = Elems(s) \cup {e}
<1>0. Len(s) \in Nat
  BY LenProperties
<1> DEFINE a == Append(s, e)
<1>1. /\ Len(a) = Len(s) + 1
      /\ \A i \in 1 .. Len(s) : a[i] = s[i]
      /\ a[Len(s) + 1] = e
  BY AppendProperties
<1>2. ASSUME NEW i \in 1 .. Len(a) PROVE a[i] \in Elems(s) \cup {e}
  <2>1. CASE i = Len(s) + 1
    BY <1>1, <2>1
  <2>2. CASE i \in 1 .. Len(s)
    BY <1>1, <2>2 DEF Elems
  <2> HIDE DEF a
  <2> QED BY <1>0, <1>1, <2>1, <2>2
<1>3. e \in Elems(a)
  <2>1. Len(s) + 1 \in 1 .. Len(a)
    BY <1>0, <1>1
  <2> QED BY <1>1, <2>1 DEF Elems
<1>4. ASSUME NEW i \in 1 .. Len(s) PROVE s[i] \in Elems(a)
  <2>1. i \in 1 .. Len(a)
    BY <1>0, <1>1
  <2> QED BY <1>1, <2>1 DEF Elems
<1> HIDE DEF a
<1>5. Elems(a) = Elems(s) \cup {e}
  BY <1>2, <1>3, <1>4 DEF Elems
<1> QED BY <1>5 DEF a

\* Joining two buffers joins what they hold.
LEMMA ElemsConcat ==
  ASSUME NEW S, NEW s \in Seq(S), NEW t \in Seq(S)
  PROVE  Elems(s \o t) \subseteq Elems(s) \cup Elems(t)
<1>0. Len(s) \in Nat /\ Len(t) \in Nat
  BY LenProperties
<1> DEFINE c == s \o t
<1>1. /\ Len(c) = Len(s) + Len(t)
      /\ \A i \in 1 .. Len(s) + Len(t) : c[i] = IF i <= Len(s) THEN s[i] ELSE t[i - Len(s)]
  BY ConcatProperties
<1> HIDE DEF c
<1>2. ASSUME NEW i \in 1 .. Len(c) PROVE c[i] \in Elems(s) \cup Elems(t)
  <2>1. CASE i <= Len(s)
    <3>1. c[i] = s[i] /\ i \in 1 .. Len(s)
      BY <1>0, <1>1, <2>1
    <3> QED BY <3>1 DEF Elems
  <2>2. CASE ~(i <= Len(s))
    <3>1. c[i] = t[i - Len(s)] /\ i - Len(s) \in 1 .. Len(t)
      BY <1>0, <1>1, <2>2
    <3> QED BY <3>1 DEF Elems
  <2> QED BY <2>1, <2>2
<1>3. Elems(c) \subseteq Elems(s) \cup Elems(t)
  BY <1>2 DEF Elems
<1> QED BY <1>3 DEF c

\* A part of a buffer holds no more than the buffer.
LEMMA ElemsSubSeq ==
  ASSUME NEW S, NEW s \in Seq(S), NEW m \in Nat \ {0}, NEW n \in Int, n <= Len(s)
  PROVE  SubSeq(s, m, n) \in Seq(S) /\ Elems(SubSeq(s, m, n)) \subseteq Elems(s)
<1>0. Len(s) \in Nat /\ m \in Int /\ m >= 1
  BY LenProperties
<1>1. \A i \in m .. n : s[i] \in S
  BY <1>0, ElementOfSeq
<1> DEFINE c == SubSeq(s, m, n)
<1>2. /\ c \in Seq(S)
      /\ Len(c) = IF m <= n THEN n - m + 1 ELSE 0
      /\ \A i \in 1 .. n - m + 1 : c[i] = s[m + i - 1]
  BY <1>0, <1>1, SubSeqProperties
<1> HIDE DEF c
<1>3. ASSUME NEW i \in 1 .. Len(c) PROVE c[i] \in Elems(s)
  <2>1. i \in 1 .. n - m + 1 /\ m + i - 1 \in 1 .. Len(s)
    BY <1>0, <1>2
  <2>2. c[i] = s[m + i - 1]
    BY <1>2, <2>1
  <2> QED BY <2>1, <2>2 DEF Elems
<1>4. Elems(c) \subseteq Elems(s)
  BY <1>3 DEF Elems
<1> QED BY <1>2, <1>4 DEF c

\* Consuming the first message leaves the others.
LEMMA ElemsTail ==
  ASSUME NEW S, NEW s \in Seq(S), s # <<>>
  PROVE  Head(s) \in Elems(s) /\ Elems(Tail(s)) \subseteq Elems(s)
<1>0. Len(s) \in Nat /\ Len(s) >= 1
  BY LenProperties, EmptySeq
<1>1. Head(s) = s[1]
  OBVIOUS
<1>2. Head(s) \in Elems(s)
  BY <1>0, <1>1 DEF Elems
<1>3. Len(Tail(s)) = Len(s) - 1 /\ \A i \in 1 .. Len(Tail(s)) : Tail(s)[i] = s[i + 1]
  BY HeadTailProperties
<1> DEFINE c == Tail(s)
<1>4. Len(c) = Len(s) - 1 /\ \A i \in 1 .. Len(c) : c[i] = s[i + 1]
  BY <1>3
<1> HIDE DEF c
<1>5. ASSUME NEW i \in 1 .. Len(c) PROVE c[i] \in Elems(s)
  <2>1. i + 1 \in 1 .. Len(s)
    BY <1>0, <1>4
  <2> QED BY <1>4, <2>1 DEF Elems
<1>6. Elems(c) \subseteq Elems(s)
  BY <1>5 DEF Elems
<1> QED BY <1>2, <1>6 DEF c

\* Buffers of messages hold messages.
LEMMA ElemsType ==
  ASSUME NEW S, NEW s \in Seq(S)
  PROVE  Elems(s) \subseteq S
  BY ElementOfSeq DEF Elems

\* What is under way are messages.
LEMMA TrafficType == TypeOK => Requests \subseteq Message /\ Replies \subseteq Message
  BY ElemsType DEF TypeOK, TypeBuffers, TypePeer, Requests, Replies

-----------------------------------------------------------------------------
(* What the write path sends                                               *)

\* A flush moves messages from the buffer to the peer and makes up none.
LEMMA FlushTraffic ==
  ASSUME NEW pending \in Seq(Message), NEW o \in FlushOutcomes(pending)
  PROVE  /\ Elems(o.pending) \subseteq Elems(pending)
         /\ Deliver(pending, o.sent) \subseteq delivered \cup Elems(pending)
<1>0. Len(pending) \in Nat
  BY LenProperties
<1>1. CASE link = "reset"
  <2>1. o = [pending |-> pending, sent |-> 0, failed |-> "socket_error"]
    BY <1>1 DEF FlushOutcomes
  <2> QED BY <2>1 DEF Deliver
<1>2. CASE link # "reset"
  <2>1. PICK n \in 0 .. Len(pending) :
          o = [pending |-> SubSeq(pending, n + 1, Len(pending)), sent |-> n, failed |-> "none"]
    BY <1>2 DEF FlushOutcomes
  <2>2. n + 1 \in Nat \ {0} /\ Len(pending) \in Int /\ Len(pending) <= Len(pending)
    BY <1>0
  <2>3. Elems(SubSeq(pending, n + 1, Len(pending))) \subseteq Elems(pending)
    BY <2>2, ElemsSubSeq
  <2>4. \A i \in 1 .. n : i \in 1 .. Len(pending)
    BY <1>0
  <2> QED BY <2>1, <2>3, <2>4 DEF Deliver, Elems
<1> QED BY <1>1, <1>2

\* Queueing a message adds that message to what is asked of the peer.
LEMMA QueueTraffic ==
  ASSUME NEW msg \in Message, write_pending \in Seq(Message), NEW o \in QueueOutcomes(msg)
  PROVE  /\ Elems(o.pending) \subseteq Elems(write_pending) \cup {msg}
         /\ Deliver(Append(write_pending, msg), o.sent)
              \subseteq delivered \cup Elems(write_pending) \cup {msg}
<1> DEFINE pending == Append(write_pending, msg)
<1>1. pending \in Seq(Message) /\ Elems(pending) = Elems(write_pending) \cup {msg}
  BY AppendProperties, ElemsAppend
<1>2. CASE Len(pending) > MaxWritePending
  <2>1. o = [pending |-> pending, sent |-> 0, failed |-> "write_overflow"]
    BY <1>2 DEF QueueOutcomes
  <2> QED BY <1>1, <2>1 DEF Deliver
<1>3. CASE ~(Len(pending) > MaxWritePending) /\ write_pending = <<>>
  <2>1. o \in FlushOutcomes(pending)
    BY <1>3 DEF QueueOutcomes
  <2> QED BY <2>1, <1>1, FlushTraffic
<1>4. CASE ~(Len(pending) > MaxWritePending) /\ write_pending # <<>>
  <2>1. o = [pending |-> pending, sent |-> 0, failed |-> "none"]
    BY <1>4 DEF QueueOutcomes
  <2> QED BY <1>1, <2>1 DEF Deliver
<1> QED BY <1>2, <1>3, <1>4

-----------------------------------------------------------------------------
(* Requests                                                                *)

\* Time passes or stands still.
LEMMA ClockStep == TypeOK /\ [Next]_vars => now' \in {now, now + 1}
<1> SUFFICES ASSUME [Next]_vars PROVE now' \in {now, now + 1}
  OBVIOUS
<1>1. CASE Environment \/ EpollWait \/ Events
  BY <1>1 DEF Environment, Advance, PeerAck, PeerPong, PeerForge, PeerSend, PeerClose, PeerReset,
     EpollWait, Events, OnHangup, OnConnected, OnWritable, OnReadable, OnReadableFailed
<1>2. CASE Messages \/ Operator \/ UNCHANGED vars
  BY <1>2 DEF Messages, HandleConnectAck, HandlePong, HandleDisconnect, HandleViolation, DrainDone,
     DrainFrame, Operator, SetHeartbeatTimeout, SetHeartbeatInterval, ForceDisconnect,
     ForceReconnect, Command, vars
<1>3. CASE Tick
  BY <1>3 DEF Tick, TickPing, TickNoPing, TickFailed, Rebind, CheckOpening, CheckLive, CheckSilent,
     CheckFrame
<1> QED BY <1>1, <1>2, <1>3 DEF Next

\* A step that asks nothing new, and moves the state forwards only where pings
\* are allowed.
RequestsKept ==
  /\ Requests' \subseteq Requests
  /\ \/ state' \in {state, "kFailed"}
     \/ state \in Live \cup {"kHandshaking"} /\ state' \in Live

\* Every step but a completed connect, a ping and a rebind asks nothing new.
LEMMA RequestSteps ==
  ASSUME TypeOK, [Next]_vars
  PROVE  RequestsKept \/ OnConnected \/ TickPing \/ Rebind
<1> USE DEF RequestsKept, config, reactor, slot, liveness, buffers, peer, FailWith, TransitionTo
<1>1. CASE OnWritable
  <2>1. write_pending \in Seq(Message)
    BY DEF TypeOK, TypeBuffers
  <2>2. PICK o \in FlushOutcomes(write_pending) :
          write_pending' = o.pending /\ delivered' = Deliver(write_pending, o.sent)
    BY <1>1 DEF OnWritable
  <2>3. Requests' \subseteq Requests
    BY <2>1, <2>2, FlushTraffic DEF Requests
  <2>4. state' \in {state, "kFailed"}
    BY <1>1 DEF OnWritable
  <2> QED BY <2>3, <2>4
<1>2. CASE UNCHANGED <<delivered, write_pending>> /\ state' \in {state, "kFailed"}
  BY <1>2 DEF Requests, Elems
<1>3. CASE PeerPong
  <2>1. delivered' \subseteq delivered /\ UNCHANGED <<write_pending, state>>
    BY <1>3 DEF PeerPong, PeerSend
  <2> QED BY <2>1 DEF Requests, Elems
<1>4. CASE HandleConnectAck \/ HandlePong
  <2>1. UNCHANGED <<delivered, write_pending>>
    BY <1>4 DEF HandleConnectAck, HandlePong, DrainFrame
  <2>2. state' \in {state, "kFailed"} \/ (state \in Live \cup {"kHandshaking"} /\ state' \in Live)
    BY <1>4 DEF HandleConnectAck, HandlePong, DrainFailed, Live
  <2> QED BY <2>1, <2>2 DEF Requests, Elems
<1>5. CASE CheckLive
  <2>1. UNCHANGED <<delivered, write_pending>>
    BY <1>5 DEF CheckLive, CheckFrame
  <2>2. state' \in {state, "kFailed"} \/ (state \in Live /\ state' \in Live)
    BY <1>5 DEF CheckLive, CheckFailed, Live
  <2> QED BY <2>1, <2>2 DEF Requests, Elems
<1>6. CASE Advance \/ PeerAck \/ PeerForge \/ PeerClose \/ PeerReset \/ EpollWait
  BY <1>2, <1>6 DEF Advance, PeerAck, PeerForge, PeerSend, PeerClose, PeerReset, EpollWait
<1>7. CASE OnHangup \/ OnReadable \/ OnReadableFailed
  BY <1>2, <1>7 DEF OnHangup, OnReadable, OnReadableFailed
<1>8. CASE HandleDisconnect \/ HandleViolation \/ DrainDone
  BY <1>2, <1>8 DEF HandleDisconnect, HandleViolation, DrainDone, DrainFailed, DrainFrame
<1>9. CASE TickNoPing \/ TickFailed \/ CheckOpening \/ CheckSilent
  BY <1>2, <1>9 DEF TickNoPing, TickFailed, CheckOpening, CheckSilent, CheckFailed, CheckFrame
<1>10. CASE Operator \/ UNCHANGED vars
  BY <1>2, <1>10 DEF Operator, SetHeartbeatTimeout, SetHeartbeatInterval, ForceDisconnect,
     ForceReconnect, Command, vars
<1> QED
  BY <1>1, <1>3, <1>4, <1>5, <1>6, <1>7, <1>8, <1>9, <1>10
  DEF Next, Environment, Events, Messages, Tick

\* The connection asks only what its state lets it ask.
LEMMA RequestStep == TypeOK /\ DetectionInv /\ RequestInv /\ [Next]_vars => RequestInv'
<1> SUFFICES ASSUME TypeOK, DetectionInv, RequestInv, [Next]_vars PROVE RequestInv'
  OBVIOUS
<1>0. now \in Nat /\ batch_now \in Nat /\ next_sequence \in Nat /\ batch_now <= now
  BY DEF TypeOK, TypeReactor, TypeState, DetectionInv, ClockInv
<1>1. now' \in {now, now + 1}
  BY ClockStep
<1>2. \A m \in Requests : m.timestamp_ns \in Nat
  BY TrafficType DEF Message
<1>3. \A m \in Requests : m.type \in {"kConnectHello", "kPing"} /\ m.timestamp_ns <= now'
  BY <1>0, <1>1, <1>2 DEF RequestInv
<1>4. write_pending \in Seq(Message)
  BY DEF TypeOK, TypeBuffers
<1>5. CASE RequestsKept
  BY <1>3, <1>5 DEF RequestsKept, RequestInv, Live
<1>6. CASE OnConnected
  <2> DEFINE hello == Msg("kConnectHello", 0, batch_now)
  <2>1. hello \in Message /\ hello.type = "kConnectHello" /\ hello.timestamp_ns = batch_now
    BY <1>0, MsgType DEF Msg
  <2>2. now' = now /\ state = "kConnecting" /\ state' \in {"kHandshaking", "kFailed"}
    BY <1>6 DEF OnConnected, FailWith, TransitionTo
  <2>3. Requests' \subseteq Requests \cup {hello}
    <3>1. CASE link = "reset"
      BY <1>6, <3>1 DEF OnConnected, Requests, Elems
    <3>2. CASE link # "reset"
      <4>1. PICK o \in QueueOutcomes(hello) :
              write_pending' = o.pending /\ delivered' = Deliver(Append(write_pending, hello), o.sent)
        BY <1>6, <3>2 DEF OnConnected
      <4> QED BY <1>4, <2>1, <4>1, QueueTraffic DEF Requests
    <3> QED BY <3>1, <3>2
  <2>4. \A m \in Requests : m.type # "kPing"
    BY <2>2 DEF RequestInv, Live
  <2> HIDE DEF hello
  <2> QED BY <1>0, <1>3, <2>1, <2>2, <2>3, <2>4 DEF RequestInv
<1>7. CASE TickPing
  <2> DEFINE ping == Msg("kPing", next_sequence, now)
  <2>1. ping \in Message /\ ping.type = "kPing" /\ ping.timestamp_ns = now
    BY <1>0, MsgType DEF Msg
  <2>2. now' = now /\ state \in Live /\ state' \in {state, "kFailed"}
    BY <1>7 DEF TickPing, FailWith, TransitionTo
  <2>3. PICK o \in QueueOutcomes(ping) :
          write_pending' = o.pending /\ delivered' = Deliver(Append(write_pending, ping), o.sent)
    BY <1>7 DEF TickPing
  <2>4. Requests' \subseteq Requests \cup {ping}
    BY <1>4, <2>1, <2>3, QueueTraffic DEF Requests
  <2> HIDE DEF ping
  <2> QED BY <1>0, <1>3, <2>1, <2>2, <2>4 DEF RequestInv, Live
<1>8. CASE Rebind
  <2>1. Requests' = {}
    BY <1>8, ElemsEmpty DEF Rebind, ClearBuffers, Requests
  <2> QED BY <2>1 DEF RequestInv
<1> QED BY <1>5, <1>6, <1>7, <1>8, RequestSteps

-----------------------------------------------------------------------------
(* Replies                                                                 *)

\* A step that brings no reply, and starts to open only with none under way.
RepliesKept ==
  /\ Replies' \subseteq Replies /\ UNCHANGED peer_alive_ns
  /\ \/ state' \notin Opening
     \/ UNCHANGED <<state, state_entered>>
     \/ Replies' = {}
     \/ state = "kConnecting" /\ state' = "kHandshaking"

\* Only the peer brings replies; the reactor moves or drops them.
LEMMA ReplySteps ==
  ASSUME TypeInv, [Next]_vars
  PROVE  RepliesKept \/ PeerAck \/ PeerPong \/ PeerForge \/ PeerClose
<1>0. read_accum \in Seq(Message) /\ inbox \in Seq(Message)
  BY DEF TypeInv, TypeOK, TypeBuffers, TypePeer
<1> USE DEF RepliesKept, config, reactor, slot, liveness, buffers, peer, FailWith, TransitionTo
<1>1. CASE UNCHANGED <<read_accum, inbox, peer_alive_ns>>
           /\ (UNCHANGED <<state, state_entered>> \/ state' \notin Opening)
  BY <1>1 DEF Replies, Elems
<1>2. CASE Advance \/ EpollWait \/ OnHangup \/ OnWritable \/ OnReadableFailed
  BY <1>1, <1>2 DEF Advance, EpollWait, OnHangup, OnWritable, OnReadableFailed, Opening
<1>3. CASE PeerReset
  <2>1. Replies' \subseteq Replies
    BY <1>3, ElemsEmpty DEF PeerReset, Replies
  <2> QED BY <1>3, <2>1 DEF PeerReset
<1>4. CASE OnConnected
  <2>1. Replies' = Replies
    BY <1>4 DEF OnConnected, Replies, Elems
  <2> QED BY <1>4, <2>1 DEF OnConnected, Opening
<1>5. CASE OnReadable
  <2>1. CASE Len(read_accum) + Len(inbox) > MaxReadAccum
    <3> DEFINE taken == MaxReadAccum + 1 - Len(read_accum)
               part == SubSeq(inbox, 1, taken)
               rest == SubSeq(inbox, taken + 1, Len(inbox))
    <3>0. Len(read_accum) = 0 /\ Len(inbox) \in Nat /\ MaxReadAccum \in Nat
      BY <1>0, <1>5, LenProperties, EmptySeq, LimitAssumption
      DEF OnReadable, ReadDue, TypeInv, ReadBufferDrained
    <3>1. /\ read_accum' = read_accum \o part /\ inbox' = rest
          /\ state' = "kFailed" /\ UNCHANGED peer_alive_ns
      BY <1>5, <2>1 DEF OnReadable
    <3>2. taken \in Int /\ taken <= Len(inbox) /\ taken + 1 \in Nat \ {0} /\ Len(inbox) <= Len(inbox)
      BY <2>1, <3>0
    <3>3. part \in Seq(Message) /\ Elems(part) \subseteq Elems(inbox)
      BY <1>0, <3>2, ElemsSubSeq
    <3>4. Elems(rest) \subseteq Elems(inbox)
      BY <1>0, <3>0, <3>2, ElemsSubSeq
    <3> HIDE DEF taken, part, rest
    <3>5. Elems(read_accum \o part) \subseteq Elems(read_accum) \cup Elems(part)
      BY <1>0, <3>3, ElemsConcat
    <3> QED BY <3>1, <3>3, <3>4, <3>5 DEF Replies, Opening
  <2>2. CASE ~(Len(read_accum) + Len(inbox) > MaxReadAccum)
    <3>1. /\ read_accum' = read_accum \o inbox /\ inbox' = <<>>
          /\ UNCHANGED <<state, state_entered, peer_alive_ns>>
      BY <1>5, <2>2 DEF OnReadable
    <3>2. Replies' \subseteq Replies
      BY <1>0, <3>1, ElemsConcat, ElemsEmpty DEF Replies
    <3> QED BY <3>1, <3>2
  <2> QED BY <2>1, <2>2
<1>6. CASE HandleConnectAck \/ HandlePong \/ HandleDisconnect \/ HandleViolation
  <2>1. read_accum # <<>> /\ read_accum' \in {Tail(read_accum), <<>>} /\ UNCHANGED <<inbox, peer_alive_ns>>
    BY <1>6 DEF HandleConnectAck, HandlePong, HandleDisconnect, HandleViolation, Draining, DrainOn,
       DrainFailed, DrainFrame
  <2>2. Replies' \subseteq Replies
    BY <1>0, <2>1, ElemsTail, ElemsEmpty DEF Replies
  <2>3. UNCHANGED <<state, state_entered>> \/ state' \notin Opening
    BY <1>6 DEF HandleConnectAck, HandlePong, HandleDisconnect, HandleViolation, DrainFailed, Opening
  <2> QED BY <2>1, <2>2, <2>3
<1>7. CASE DrainDone
  BY <1>1, <1>7 DEF DrainDone, DrainFrame, Opening
<1>8. CASE Rebind
  <2>1. Replies' = {} /\ UNCHANGED peer_alive_ns
    BY <1>8, ElemsEmpty DEF Rebind, ClearBuffers, Replies
  <2> QED BY <2>1
<1>9. CASE TickPing \/ TickNoPing \/ TickFailed
  BY <1>1, <1>9 DEF TickPing, TickNoPing, TickFailed, Opening
<1>10. CASE CheckOpening \/ CheckLive \/ CheckSilent
  BY <1>1, <1>10 DEF CheckOpening, CheckLive, CheckSilent, CheckFailed, CheckFrame, Opening
<1>11. CASE Operator \/ UNCHANGED vars
  BY <1>1, <1>11 DEF Operator, SetHeartbeatTimeout, SetHeartbeatInterval, ForceDisconnect,
     ForceReconnect, Command, Opening, vars
<1> QED
  BY <1>2, <1>3, <1>4, <1>5, <1>6, <1>7, <1>8, <1>9, <1>10, <1>11
  DEF Next, Environment, Events, Messages, Tick

\* What a send of the peer does to the messages under way.
LEMMA PeerSends ==
  ASSUME TypeOK, NEW m \in Message, PeerSend(m)
  PROVE  /\ Replies' = Replies \cup {m}
         /\ peer_alive_ns' = now /\ UNCHANGED <<now, state, state_entered>>
<1>1. inbox \in Seq(Message) /\ inbox' = Append(inbox, m) /\ UNCHANGED read_accum
  BY DEF PeerSend, buffers, TypeOK, TypePeer
<1>2. Elems(inbox') = Elems(inbox) \cup {m}
  BY <1>1, ElemsAppend
<1> QED BY <1>1, <1>2 DEF PeerSend, Replies, Elems

\* Replies under way are younger than what they answer.
LEMMA ReplyStep ==
  TypeInv /\ RequestInv /\ OpeningInv /\ ReplyInv /\ [Next]_vars => ReplyInv'
<1> SUFFICES ASSUME TypeInv, TypeOK, RequestInv, OpeningInv, ReplyInv, [Next]_vars, EvidenceAnswers
             PROVE  ReplyInv'
  BY DEF ReplyInv, EvidenceAnswers, TypeInv
<1>0. /\ now \in Nat /\ peer_alive_ns \in Nat /\ state_entered \in Nat
      /\ peer_alive_ns <= now /\ state_entered <= now
  BY DEF TypeOK, TypeReactor, TypeState, TypePeer, OpeningInv
<1>1. \A m \in Replies : m.timestamp_ns \in Nat
  BY TrafficType DEF Message
<1>2. /\ \A m \in Replies : m.type = "kPong" => m.timestamp_ns <= peer_alive_ns
      /\ state \in Opening =>
           \A m \in Replies :
             m.type = "kConnectAck" => state = "kHandshaking" /\ state_entered <= peer_alive_ns
  BY DEF ReplyInv
<1>3. CASE RepliesKept
  BY <1>2, <1>3 DEF RepliesKept, ReplyInv, Opening
<1>4. ASSUME NEW m \in Message, PeerSend(m),
             m.type = "kPong" => m.timestamp_ns <= now,
             m.type = "kConnectAck" /\ state \in Opening => state = "kHandshaking"
      PROVE  ReplyInv'
  <2>1. /\ Replies' = Replies \cup {m} /\ peer_alive_ns' = now
        /\ UNCHANGED <<now, state, state_entered>>
    BY <1>4, PeerSends
  <2>2. \A r \in Replies' : r.type = "kPong" => r.timestamp_ns <= peer_alive_ns'
    BY <1>0, <1>1, <1>2, <1>4, <2>1
  <2>3. state \in Opening =>
           \A r \in Replies' : r.type = "kConnectAck" => state = "kHandshaking"
    BY <1>2, <1>4, <2>1
  <2> QED BY <1>0, <2>1, <2>2, <2>3 DEF ReplyInv
<1>5. CASE PeerAck
  <2> DEFINE ack == Msg("kConnectAck", 0, now)
  <2>1. ack \in Message /\ ack.type = "kConnectAck"
    BY <1>0, MsgType DEF Msg
  <2>2. state \in Opening => state = "kHandshaking"
    BY <1>5 DEF PeerAck, Requests, RequestInv, Opening
  <2>3. PeerSend(ack)
    BY <1>5 DEF PeerAck
  <2> HIDE DEF ack
  <2> QED BY <1>4, <2>1, <2>2, <2>3
<1>6. CASE PeerPong
  <2>1. PICK ping \in delivered :
          ping.type = "kPing" /\ PeerSend(Msg("kPong", ping.sequence, ping.timestamp_ns))
    BY <1>6 DEF PeerPong
  <2> DEFINE pong == Msg("kPong", ping.sequence, ping.timestamp_ns)
  <2>2. ping \in Message /\ ping.timestamp_ns <= now
    BY TrafficType DEF Requests, RequestInv
  <2>3. pong \in Message
    BY <2>2, MsgType DEF Message
  <2>4. pong.type = "kPong" /\ pong.timestamp_ns = ping.timestamp_ns
    BY DEF Msg
  <2>5. PeerSend(pong)
    BY <2>1
  <2> HIDE DEF pong
  <2> QED BY <1>4, <2>2, <2>3, <2>4, <2>5
<1>7. CASE PeerForge
  <2>1. PICK m \in ForgedMessages : PeerSend(m)
    BY <1>7 DEF PeerForge
  <2> QED BY <1>4, <2>1, ForgedAssumption DEF EvidenceAnswers
<1>8. CASE PeerClose
  <2> DEFINE bye == Msg("kDisconnect", 0, 0)
  <2>1. bye \in Message /\ bye.type = "kDisconnect"
    BY MsgType DEF Msg
  <2>2. inbox \in Seq(Message)
    BY DEF TypeOK, TypePeer
  <2>3. /\ inbox' \in {inbox, Append(inbox, bye)}
        /\ UNCHANGED <<read_accum, state, state_entered, peer_alive_ns>>
    BY <1>8 DEF PeerClose, buffers
  <2> HIDE DEF bye
  <2>4. Elems(inbox') \subseteq Elems(inbox) \cup {bye}
    <3>1. Elems(Append(inbox, bye)) = Elems(inbox) \cup {bye}
      BY <2>1, <2>2, ElemsAppend
    <3> QED BY <2>3, <3>1
  <2>5. Replies' \subseteq Replies \cup {bye}
    BY <2>3, <2>4 DEF Replies, Elems
  <2> QED BY <1>2, <2>1, <2>3, <2>5 DEF ReplyInv
<1> QED BY <1>3, <1>5, <1>6, <1>7, <1>8, ReplySteps

-----------------------------------------------------------------------------
(* How old the evidence is                                                 *)

\* The clocks a step may copy, and the steps that start or judge an opening.
LEMMA OpeningSteps ==
  ASSUME TypeOK, [Next]_vars
  PROVE  /\ state_entered' \in {state_entered, batch_now, tick_now, now}
         /\ peer_alive_ns' \in {peer_alive_ns, now}
         /\ \/ state' \notin Opening
            \/ pc' = "check"
            \/ UNCHANGED <<state_entered, tick_now>> /\ state \in Opening /\ pc # "check"
            \/ OnConnected \/ Rebind \/ CheckOpening
<1> USE DEF config, reactor, slot, liveness, buffers, peer, FailWith, TransitionTo
<1>1. CASE Environment \/ EpollWait
  BY <1>1 DEF Environment, Advance, PeerAck, PeerPong, PeerForge, PeerSend, PeerClose, PeerReset,
     EpollWait
<1>2. CASE OnHangup \/ OnConnected \/ OnWritable
  BY <1>2 DEF OnHangup, OnConnected, OnWritable, AfterWritable, Opening
<1>3. CASE OnReadable \/ OnReadableFailed
  BY <1>3 DEF OnReadable, OnReadableFailed, ReadDue, Opening
<1>4. CASE HandleConnectAck \/ HandlePong
  BY <1>4 DEF HandleConnectAck, HandlePong, Draining, DrainOn, DrainFailed, DrainFrame, Opening, Live
<1>5. CASE HandleDisconnect \/ HandleViolation \/ DrainDone
  BY <1>5 DEF HandleDisconnect, HandleViolation, DrainDone, Draining, DrainFailed, DrainFrame, Opening
<1>6. CASE TickPing \/ TickNoPing \/ TickFailed
  BY <1>6 DEF TickPing, TickNoPing, TickFailed, Opening
<1>7. CASE Rebind \/ CheckOpening
  BY <1>7 DEF Rebind, CheckOpening, CheckFailed, CheckFrame
<1>8. CASE CheckLive \/ CheckSilent
  BY <1>8 DEF CheckLive, CheckSilent, CheckFailed, CheckFrame, Live, Opening
<1>9. CASE Operator
  BY <1>9 DEF Operator, SetHeartbeatTimeout, SetHeartbeatInterval, ForceDisconnect,
     ForceReconnect, Command, Opening
<1>10. CASE UNCHANGED vars
  BY <1>10 DEF vars
<1> QED
  BY <1>1, <1>2, <1>3, <1>4, <1>5, <1>6, <1>7, <1>8, <1>9, <1>10 DEF Next, Events, Messages, Tick

\* check_timeout ends an opening before it has lasted one timeout at a tick.
LEMMA OpeningStep == TypeOK /\ DetectionInv /\ OpeningInv /\ [Next]_vars => OpeningInv'
<1> SUFFICES ASSUME TypeOK, DetectionInv, OpeningInv, [Next]_vars PROVE OpeningInv'
  OBVIOUS
<1>0. /\ now \in Nat /\ batch_now \in Nat /\ tick_now \in Nat /\ state_entered \in Nat
      /\ peer_alive_ns \in Nat /\ batch_now <= now /\ tick_now <= now
      /\ tick_now - batch_now <= TickGap /\ TickGap \in Nat
  BY TimingAssumption
  DEF TypeOK, TypeReactor, TypeState, TypePeer, DetectionInv, ClockInv
<1>1. /\ heartbeat_timeout \in Timeouts /\ heartbeat_timeout \in Nat
      /\ TickGap < heartbeat_timeout /\ 0 < heartbeat_timeout
  BY TimingAssumption DEF TypeOK, TypeReactor
<1>2. now' \in {now, now + 1}
  BY ClockStep
<1>3. peer_alive_ns' <= now' /\ state_entered' <= now'
  <2>1. state_entered' <= now /\ peer_alive_ns' <= now /\ state_entered' \in Nat /\ peer_alive_ns' \in Nat
    BY <1>0, OpeningSteps DEF OpeningInv
  <2> QED BY <1>0, <1>2, <2>1
<1>4. ASSUME state' \in Opening, pc' # "check"
      PROVE  \E t \in Timeouts : tick_now' < state_entered' + t
  <2>1. CASE UNCHANGED <<state_entered, tick_now>> /\ state \in Opening /\ pc # "check"
    BY <2>1 DEF OpeningInv
  <2>2. CASE OnConnected
    <3>1. state_entered' = batch_now /\ tick_now' = tick_now
      BY <1>4, <2>2 DEF OnConnected, FailWith, TransitionTo, Opening
    <3>2. tick_now' < state_entered' + heartbeat_timeout
      BY <1>0, <1>1, <3>1
    <3> QED BY <1>1, <3>2
  <2>3. CASE Rebind
    <3>1. state_entered' = now /\ tick_now' = now
      BY <2>3 DEF Rebind, TickStart, TransitionTo
    <3>2. tick_now' < state_entered' + heartbeat_timeout
      BY <1>0, <1>1, <3>1
    <3> QED BY <1>1, <3>2
  <2>4. CASE CheckOpening
    <3>1. /\ state_entered' = state_entered /\ tick_now' = tick_now
          /\ ~(tick_now - state_entered >= heartbeat_timeout)
      BY <1>4, <2>4 DEF CheckOpening, CheckFailed, CheckFrame, FailWith, TransitionTo, Opening
    <3>2. tick_now' < state_entered' + heartbeat_timeout
      BY <1>0, <1>1, <3>1
    <3> QED BY <1>1, <3>2
  <2> QED BY <1>4, <2>1, <2>2, <2>3, <2>4, OpeningSteps
<1> QED BY <1>3, <1>4 DEF OpeningInv

\* The steps that change what silence is counted from.
LEMMA EvidenceSteps ==
  ASSUME TypeOK, [Next]_vars
  PROVE  \/ state' \notin Live
         \/ state \in Live /\ UNCHANGED <<baseline, rebased_ns>>
         \/ HandleConnectAck \/ HandlePong \/ SetHeartbeatTimeout
<1> USE DEF config, reactor, slot, liveness, buffers, peer, FailWith, TransitionTo
<1>1. CASE Environment \/ EpollWait
  BY <1>1 DEF Environment, Advance, PeerAck, PeerPong, PeerForge, PeerSend, PeerClose, PeerReset,
     EpollWait
<1>2. CASE Events
  BY <1>2 DEF Events, OnHangup, OnConnected, OnWritable, OnReadable, OnReadableFailed, Live
<1>3. CASE HandleDisconnect \/ HandleViolation \/ DrainDone
  BY <1>3 DEF HandleDisconnect, HandleViolation, DrainDone, DrainFailed, Live
<1>4. CASE Tick
  BY <1>4 DEF Tick, TickPing, TickNoPing, TickFailed, Rebind, CheckOpening, CheckLive, CheckSilent,
     CheckFailed, CheckFrame, Live
<1>5. CASE SetHeartbeatInterval \/ ForceDisconnect \/ ForceReconnect \/ UNCHANGED vars
  BY <1>5 DEF SetHeartbeatInterval, ForceDisconnect, ForceReconnect, Command, Live, vars
<1> QED
  BY <1>1, <1>2, <1>3, <1>4, <1>5 DEF Next, Messages, Operator

\* A bound counted from the peer's last message only grows with a later one.
LEMMA LaterMessage ==
  ASSUME NEW e \in Nat, NEW p \in Nat, NEW q \in Nat, NEW t \in Nat, NEW g \in Nat,
         e < p + t + g, p <= q
  PROVE  e < q + t + g
  OBVIOUS

\* What a connection believes is at most one timeout and one tick old.
LEMMA EvidenceStep ==
  TypeOK /\ DetectionInv /\ PeerInv /\ [Next]_vars => EvidenceInv'
<1> SUFFICES ASSUME TypeOK, DetectionInv, PeerInv, [Next]_vars, EvidenceAnswers, state' \in Live
             PROVE  \/ baseline' <= rebased_ns'
                    \/ \E t \in Timeouts : baseline' < peer_alive_ns' + t + TickGap
  BY DEF EvidenceInv, EvidenceAnswers
<1>0. /\ now \in Nat /\ batch_now \in Nat /\ tick_now \in Nat /\ state_entered \in Nat
      /\ peer_alive_ns \in Nat /\ baseline \in Nat /\ batch_now <= now /\ peer_alive_ns <= now
      /\ now - tick_now <= TickGap /\ TickGap \in Nat
  BY TimingAssumption
  DEF TypeOK, TypeReactor, TypeState, TypePeer, DetectionInv, ClockInv, PeerInv, OpeningInv
<1>1. /\ heartbeat_timeout \in Timeouts /\ heartbeat_timeout \in Nat
      /\ \A t \in Timeouts : t \in Nat
  BY TimingAssumption DEF TypeOK, TypeReactor
<1>2. peer_alive_ns' \in Nat /\ peer_alive_ns <= peer_alive_ns'
  BY <1>0, OpeningSteps
<1>3. read_accum \in Seq(Message)
  BY DEF TypeOK, TypeBuffers
<1>4. CASE state \in Live /\ UNCHANGED <<baseline, rebased_ns>>
  <2>1. CASE baseline <= rebased_ns
    BY <1>4, <2>1
  <2>2. CASE ~(baseline <= rebased_ns)
    <3>1. PICK t \in Timeouts : baseline < peer_alive_ns + t + TickGap
      BY <1>4, <2>2 DEF PeerInv, EvidenceInv
    <3>2. t \in Nat
      BY <1>1
    <3>3. baseline < peer_alive_ns' + t + TickGap
      BY <1>0, <1>2, <3>1, <3>2, LaterMessage
    <3>4. baseline' < peer_alive_ns' + t + TickGap
      BY <1>4, <3>3
    <3> QED BY <3>4
  <2> QED BY <2>1, <2>2
<1>5. CASE HandleConnectAck
  <2>1. /\ state = "kHandshaking" /\ baseline' = batch_now /\ peer_alive_ns' = peer_alive_ns
        /\ pc = "drain" /\ read_accum # <<>> /\ Head(read_accum).type = "kConnectAck"
    BY <1>5 DEF HandleConnectAck, Draining, DrainFailed, DrainFrame, FailWith, TransitionTo, Live, peer
  <2>2. Head(read_accum) \in Replies
    BY <1>3, <2>1, ElemsTail DEF Replies
  <2>3. state_entered <= peer_alive_ns
    BY <2>1, <2>2 DEF PeerInv, ReplyInv, Opening
  <2>4. PICK t \in Timeouts : tick_now < state_entered + t
    BY <2>1 DEF PeerInv, OpeningInv, Opening
  <2>5. baseline' < peer_alive_ns' + t + TickGap
    BY <1>0, <1>1, <2>1, <2>3, <2>4
  <2> QED BY <2>5
<1>6. CASE HandlePong
  <2> DEFINE m == Head(read_accum)
  <2>1. read_accum # <<>> /\ m.type = "kPong" /\ state \in Live /\ UNCHANGED <<peer_alive_ns, rebased_ns>>
    BY <1>6 DEF HandlePong, Draining, DrainFailed, DrainFrame, FailWith, TransitionTo, Live, peer, liveness
  <2>2. m \in Replies
    BY <1>3, <2>1, ElemsTail DEF Replies
  <2>3. m.timestamp_ns <= peer_alive_ns /\ m.timestamp_ns \in Nat
    BY <2>1, <2>2, TrafficType DEF PeerInv, ReplyInv, Message
  <2> HIDE DEF m
  <2>4. CASE baseline' = baseline
    BY <1>4, <2>1, <2>4
  <2>5. CASE baseline' # baseline
    <3>1. baseline' = batch_now /\ batch_now - m.timestamp_ns < heartbeat_timeout
      <4>1. Timely(m) /\ baseline' = batch_now
        BY <1>6, <2>1, <2>5 DEF HandlePong, ProofOfLife, liveness, m
      <4> QED BY <1>0, <1>1, <2>3, <4>1 DEF Timely
    <3>2. baseline' < peer_alive_ns' + heartbeat_timeout + TickGap
      BY <1>0, <1>1, <2>1, <2>3, <3>1
    <3> QED BY <1>1, <3>2
  <2> QED BY <2>4, <2>5
<1>7. CASE SetHeartbeatTimeout
  BY <1>0, <1>7 DEF SetHeartbeatTimeout
<1> QED BY <1>4, <1>5, <1>6, <1>7, EvidenceSteps

\* The peer invariant holds in every reachable state.
THEOREM PeerCorrect == Spec => []PeerInv
<1>1. Init => PeerInv
  <2> SUFFICES ASSUME Init PROVE PeerInv
    OBVIOUS
  <2>1. Requests = {} /\ Replies = {}
    BY ElemsEmpty DEF Init, Requests, Replies
  <2>2. \E t \in Timeouts : 0 < 0 + t
    BY TimingAssumption
  <2> QED BY <2>1, <2>2
    DEF Init, PeerInv, RequestInv, ReplyInv, OpeningInv, EvidenceInv, Opening, Live
<1>2. TypeInv /\ DetectionInv /\ PeerInv /\ [Next]_vars => PeerInv'
  BY RequestStep, ReplyStep, OpeningStep, EvidenceStep DEF TypeInv, PeerInv
<1>3. TypeInv /\ DetectionInv /\ PeerInv /\ [Next]_vars => (TypeInv /\ DetectionInv /\ PeerInv)'
  BY <1>2, TypeStep, DetectionStep DEF TypeInv
<1> QED BY <1>1, <1>3, TypeInit, DetectionInit, PTL DEF Spec

\* End to end: a peer that stopped sending is not shown as live for longer than
\* the age evidence may have plus the silence check_timeout tolerates.
THEOREM DeadPeerCorrect == Spec => []DeadPeerDetected
<1>1. TypeOK /\ SilenceBounded /\ PeerInv => DeadPeerDetected
  <2> SUFFICES ASSUME TypeOK, SilenceBounded, PeerInv, EvidenceAnswers, state \in Live, pc # "check"
               PROVE  \/ \E t \in Timeouts :
                           now < peer_alive_ns + t + MaxMissedHeartbeats * heartbeat_timeout + 2 * TickGap
                      \/ now < rebased_ns + MaxMissedHeartbeats * heartbeat_timeout + TickGap
    BY DEF DeadPeerDetected
  <2>0. /\ now \in Nat /\ baseline \in Nat /\ rebased_ns \in Nat /\ peer_alive_ns \in Nat
        /\ TickGap \in Nat /\ \A t \in Timeouts : t \in Nat
    BY TimingAssumption DEF TypeOK, TypeReactor, TypeState, TypePeer
  <2>1. heartbeat_timeout \in Nat /\ inherited \in Nat /\ MaxMissedHeartbeats \in Nat
    BY TimingAssumption, LimitAssumption DEF TypeOK, TypeReactor, TypeState
  <2> DEFINE allowed == (MaxMissedHeartbeats - inherited) * heartbeat_timeout
             most == MaxMissedHeartbeats * heartbeat_timeout
  <2>2. allowed \in Int /\ most \in Int /\ allowed <= most
    BY <2>1, MoreMisses, OneMoreMiss
  <2>3. now - baseline < allowed + TickGap
    BY DEF SilenceBounded
  <2> HIDE DEF allowed, most
  <2>4. CASE baseline <= rebased_ns
    <3>1. now < rebased_ns + most + TickGap
      BY <2>0, <2>2, <2>3, <2>4
    <3> QED BY <3>1 DEF most
  <2>5. CASE ~(baseline <= rebased_ns)
    <3>1. PICK t \in Timeouts : baseline < peer_alive_ns + t + TickGap
      BY <2>5 DEF PeerInv, EvidenceInv
    <3>2. now < peer_alive_ns + t + most + 2 * TickGap
      BY <2>0, <2>2, <2>3, <3>1
    <3> QED BY <3>2 DEF most
  <2> QED BY <2>4, <2>5
<1> QED BY <1>1, TypeCorrect, SilenceCorrect, PeerCorrect, PTL

-----------------------------------------------------------------------------
(* A peer that follows the protocol                                        *)

\* A CONNECT_ACK can only be the first message of a buffer.
AckFirst(s) == \A i \in 1 .. Len(s) : s[i].type = "kConnectAck" => i = 1

\* What an honest peer has under way fits the state of the connection that will
\* read it.
HonestStream ==
  /\ \A m \in Replies :
       /\ m.type \in {"kConnectAck", "kPong", "kDisconnect"} /\ m.feed_id = "own"
       /\ m.type = "kConnectAck" => state = "kHandshaking" /\ peer_acked
       /\ m.type = "kPong" => state \in Live
       /\ m.type = "kDisconnect" => link # "open"
  /\ state \in Live => peer_acked
  /\ AckFirst(read_accum) /\ AckFirst(inbox)
  /\ read_accum # <<>> => \A m \in Elems(inbox) : m.type # "kConnectAck"

HonestInv ==
  ForgedMessages = {} =>
    /\ reason # "protocol_violation"
    /\ pc = "drain" => state # "kFailed"
    /\ state # "kFailed" => HonestStream

\* A step outside drain_read_buffer that touches neither the replies nor the
\* link, and loses the connection for another reason than a violation, if it
\* does.
HonestKept ==
  /\ UNCHANGED <<read_accum, inbox, link, peer_acked>>
  /\ \/ state' \in {state, "kFailed"}
     \/ state \in Live /\ state' \in Live
     \/ state = "kConnecting" /\ state' = "kHandshaking"
  /\ reason' # "protocol_violation" \/ reason' = reason
  /\ pc' = "drain" => pc = "drain" /\ state' = state

\* Such a step keeps what is under way fitting.
LEMMA HonestKeptStep == HonestInv /\ HonestKept => HonestInv'
<1> SUFFICES ASSUME HonestInv, HonestKept, ForgedMessages = {}
             PROVE  HonestInv'
  BY DEF HonestInv
<1>1. reason' # "protocol_violation" /\ (pc' = "drain" => state' # "kFailed")
  BY DEF HonestInv, HonestKept
<1>2. ASSUME state' # "kFailed" PROVE HonestStream'
  <2>1. HonestStream
    BY <1>2 DEF HonestInv, HonestKept, Live
  <2>2. UNCHANGED <<Replies, read_accum, inbox, link, peer_acked>>
    BY DEF HonestKept, Replies, Elems
  <2>3. state' = state \/ (state \in Live /\ state' \in Live) \/ (state = "kConnecting" /\ state' = "kHandshaking")
    BY <1>2 DEF HonestKept
  <2> QED BY <2>1, <2>2, <2>3 DEF HonestStream, AckFirst, Elems, Live
<1> QED BY <1>1, <1>2 DEF HonestInv

\* Most steps of the reactor are such steps.
LEMMA HonestSteps ==
  ASSUME TypeOK, [Next]_vars
  PROVE  \/ HonestKept
         \/ PeerAck \/ PeerPong \/ PeerForge \/ PeerClose \/ PeerReset \/ OnReadable
         \/ HandleConnectAck \/ HandlePong \/ HandleDisconnect \/ HandleViolation
         \/ Rebind
<1>0. \A o \in FlushOutcomes(write_pending) : o.failed # "protocol_violation"
  BY FlushType DEF TypeOK, TypeBuffers
<1>1. \A o \in QueueOutcomes(Msg("kPing", next_sequence, now)) : o.failed # "protocol_violation"
  BY MsgType, QueueType DEF TypeOK, TypeReactor, TypeState, TypeBuffers
<1>2. \A o \in QueueOutcomes(Msg("kConnectHello", 0, batch_now)) : o.failed # "protocol_violation"
  BY MsgType, QueueType DEF TypeOK, TypeReactor, TypeBuffers
<1> USE DEF HonestKept, config, reactor, slot, liveness, buffers, peer, FailWith, TransitionTo,
        OnConnectionFailed
<1>3. CASE Advance \/ EpollWait \/ OnHangup \/ OnReadableFailed \/ DrainDone
  BY <1>3 DEF Advance, EpollWait, OnHangup, OnReadableFailed, DrainDone, DrainFrame
<1>4. CASE OnConnected
  BY <1>2, <1>4 DEF OnConnected, AfterWritable
<1>5. CASE OnWritable
  BY <1>0, <1>5 DEF OnWritable, AfterWritable
<1>6. CASE TickPing
  BY <1>1, <1>6 DEF TickPing
<1>7. CASE TickNoPing \/ TickFailed
  BY <1>7 DEF TickNoPing, TickFailed, TickStart
<1>8. CASE CheckOpening \/ CheckLive \/ CheckSilent
  BY <1>8 DEF CheckOpening, CheckLive, CheckSilent, CheckFailed, CheckPassed, CheckFrame, Live
<1>9. CASE Operator \/ UNCHANGED vars
  BY <1>9 DEF Operator, SetHeartbeatTimeout, SetHeartbeatInterval, ForceDisconnect,
     ForceReconnect, Command, vars
<1> QED
  BY <1>3, <1>4, <1>5, <1>6, <1>7, <1>8, <1>9
  DEF Next, Environment, Events, Messages, Tick

\* A buffer without a CONNECT_ACK has none in a wrong place.
LEMMA NoAck ==
  ASSUME NEW s, \A m \in Elems(s) : m.type # "kConnectAck"
  PROVE  AckFirst(s)
  BY DEF Elems, AckFirst

\* What follows the first message of a buffer is no CONNECT_ACK.
LEMMA AckConsumed ==
  ASSUME NEW s \in Seq(Message), s # <<>>, AckFirst(s)
  PROVE  \A m \in Elems(Tail(s)) : m.type # "kConnectAck"
<1>0. Len(s) \in Nat
  BY LenProperties
<1>1. Len(Tail(s)) = Len(s) - 1 /\ \A i \in 1 .. Len(Tail(s)) : Tail(s)[i] = s[i + 1]
  BY HeadTailProperties
<1> DEFINE c == Tail(s)
<1>2. Len(c) = Len(s) - 1 /\ \A i \in 1 .. Len(c) : c[i] = s[i + 1]
  BY <1>1
<1> HIDE DEF c
<1>3. ASSUME NEW i \in 1 .. Len(c) PROVE c[i].type # "kConnectAck"
  <2>1. i + 1 \in 1 .. Len(s) /\ i + 1 # 1
    BY <1>0, <1>2
  <2> QED BY <1>2, <2>1 DEF AckFirst
<1>4. \A m \in Elems(c) : m.type # "kConnectAck"
  BY <1>3 DEF Elems
<1> QED BY <1>4 DEF c

\* A message that is no CONNECT_ACK may follow whatever a buffer holds.
LEMMA AckFirstAppend ==
  ASSUME NEW s \in Seq(Message), NEW m \in Message, AckFirst(s),
         m.type # "kConnectAck" \/ s = <<>>
  PROVE  AckFirst(Append(s, m))
<1> DEFINE a == Append(s, m)
<1>0. Len(s) \in Nat /\ (s = <<>> => Len(s) = 0)
  BY LenProperties, EmptySeq
<1>1. Len(a) = Len(s) + 1 /\ (\A i \in 1 .. Len(s) : a[i] = s[i]) /\ a[Len(s) + 1] = m
  BY AppendProperties
<1> HIDE DEF a
<1>2. ASSUME NEW i \in 1 .. Len(a), a[i].type = "kConnectAck" PROVE i = 1
  <2>1. CASE i <= Len(s)
    <3>1. i \in 1 .. Len(s)
      BY <1>0, <2>1
    <3> QED BY <1>1, <1>2, <3>1 DEF AckFirst
  <2>2. CASE i > Len(s)
    <3>1. i = Len(s) + 1
      BY <1>0, <1>1, <2>2
    <3>2. s = <<>>
      BY <1>1, <1>2, <3>1
    <3> QED BY <1>0, <3>1, <3>2
  <2> QED BY <1>0, <2>1, <2>2
<1> QED BY <1>2 DEF AckFirst, a

\* Every step keeps the replies of an honest peer fitting the state.
LEMMA HonestStep == TypeInv /\ RequestInv /\ HonestInv /\ [Next]_vars => HonestInv'
<1> SUFFICES ASSUME TypeInv, TypeOK, RequestInv, HonestInv, [Next]_vars, ForgedMessages = {}
             PROVE  HonestInv'
  BY DEF HonestInv, TypeInv
<1>0. now \in Nat /\ read_accum \in Seq(Message) /\ inbox \in Seq(Message)
  BY DEF TypeOK, TypeReactor, TypeBuffers, TypePeer
<1>1. /\ reason # "protocol_violation" /\ (pc = "drain" => state # "kFailed")
      /\ (state # "kFailed" => HonestStream)
  BY DEF HonestInv
<1> USE DEF config, reactor, slot, liveness, buffers, peer
<1>2. ASSUME NEW m \in Message, inbox' \in {inbox, Append(inbox, m)},
             UNCHANGED <<read_accum, state, reason, pc>>,
             link' = link \/ link' # "open", peer_acked' \in {peer_acked, TRUE},
             state # "kFailed" =>
               /\ m.type \in {"kConnectAck", "kPong", "kDisconnect"} /\ m.feed_id = "own"
               /\ m.type = "kConnectAck" =>
                    state = "kHandshaking" /\ peer_acked' /\ inbox = <<>> /\ read_accum = <<>>
               /\ m.type = "kPong" => state \in Live
               /\ m.type = "kDisconnect" => link' # "open"
      PROVE  HonestInv'
  <2>1. reason' # "protocol_violation" /\ (pc' = "drain" => state' # "kFailed")
    BY <1>1, <1>2
  <2>2. ASSUME state # "kFailed" PROVE HonestStream'
    <3>1. Elems(inbox') \subseteq Elems(inbox) \cup {m}
      <4>1. Elems(Append(inbox, m)) = Elems(inbox) \cup {m}
        BY <1>0, ElemsAppend
      <4> QED BY <1>2, <4>1
    <3>2. Replies' \subseteq Replies \cup {m}
      BY <1>2, <3>1 DEF Replies, Elems
    <3>3. HonestStream
      BY <1>1, <2>2
    <3>4. \A r \in Replies' :
            /\ r.type \in {"kConnectAck", "kPong", "kDisconnect"} /\ r.feed_id = "own"
            /\ r.type = "kConnectAck" => state = "kHandshaking" /\ peer_acked'
            /\ r.type = "kPong" => state \in Live
            /\ r.type = "kDisconnect" => link' # "open"
      BY <1>2, <2>2, <3>2, <3>3 DEF HonestStream
    <3>5. AckFirst(inbox')
      <4>1. m.type # "kConnectAck" \/ inbox = <<>>
        BY <1>2, <2>2
      <4>2. AckFirst(Append(inbox, m))
        BY <1>0, <3>3, <4>1, AckFirstAppend DEF HonestStream
      <4> QED BY <1>2, <3>3, <4>2 DEF HonestStream
    <3>6. read_accum # <<>> => \A r \in Elems(inbox') : r.type # "kConnectAck"
      BY <1>2, <2>2, <3>1, <3>3 DEF HonestStream
    <3> QED BY <1>2, <3>3, <3>4, <3>5, <3>6 DEF HonestStream, AckFirst
  <2> QED BY <1>2, <2>1, <2>2 DEF HonestInv
<1>3. CASE HonestKept
  BY <1>3, HonestKeptStep
<1>4. CASE PeerAck
  <2> DEFINE ack == Msg("kConnectAck", 0, now)
  <2>1. ack \in Message /\ ack.type = "kConnectAck" /\ ack.feed_id = "own"
    BY <1>0, MsgType DEF Msg
  <2>2. /\ inbox' = Append(inbox, ack) /\ UNCHANGED <<read_accum, state, reason, pc, link>>
        /\ link = "open" /\ ~peer_acked /\ peer_acked'
    BY <1>4 DEF PeerAck, PeerSend
  <2> HIDE DEF ack
  <2>3. ASSUME state # "kFailed"
        PROVE  state = "kHandshaking" /\ inbox = <<>> /\ read_accum = <<>>
    <3>1. HonestStream
      BY <1>1, <2>3
    <3>2. state = "kHandshaking"
      <4>1. state # "kConnecting"
        BY <1>4, <2>3 DEF PeerAck, RequestInv, Requests
      <4>2. state \notin Live
        BY <2>2, <3>1 DEF HonestStream
      <4> QED BY <2>3, <4>1, <4>2 DEF TypeOK, TypeState, States, Live, Opening
    <3>3. Replies = {}
      BY <2>2, <3>1, <3>2 DEF HonestStream, Live
    <3>4. ASSUME NEW q \in Seq(Message), Elems(q) \subseteq Replies PROVE q = <<>>
      <4> SUFFICES ASSUME q # <<>> PROVE FALSE
        OBVIOUS
      <4>1. Head(q) \in Elems(q)
        BY ElemsTail
      <4> QED BY <3>3, <3>4, <4>1
    <3> QED BY <1>0, <3>2, <3>4 DEF Replies
  <2> QED BY <1>2, <2>1, <2>2, <2>3
<1>5. CASE PeerPong
  <2>1. PICK ping \in delivered :
          ping.type = "kPing" /\ PeerSend(Msg("kPong", ping.sequence, ping.timestamp_ns))
    BY <1>5 DEF PeerPong
  <2> DEFINE pong == Msg("kPong", ping.sequence, ping.timestamp_ns)
  <2>2. ping \in Message
    BY DEF TypeOK, TypePeer
  <2>3. pong \in Message
    BY <2>2, MsgType DEF Message
  <2>4. pong.type = "kPong" /\ pong.feed_id = "own"
    BY DEF Msg
  <2>5. /\ inbox' = Append(inbox, pong)
        /\ UNCHANGED <<read_accum, state, reason, pc, link, peer_acked>>
    BY <1>5, <2>1 DEF PeerPong, PeerSend
  <2>6. state # "kFailed" => state \in Live
    BY <2>1 DEF RequestInv, Requests
  <2> HIDE DEF pong
  <2> QED BY <1>2, <2>3, <2>4, <2>5, <2>6
<1>6. CASE PeerForge
  BY <1>6 DEF PeerForge
<1>7. CASE PeerClose
  <2> DEFINE bye == Msg("kDisconnect", 0, 0)
  <2>1. bye \in Message /\ bye.type = "kDisconnect" /\ bye.feed_id = "own"
    BY MsgType DEF Msg
  <2>2. /\ inbox' \in {inbox, Append(inbox, bye)} /\ link' = "eof"
        /\ UNCHANGED <<read_accum, state, reason, pc, peer_acked>>
    BY <1>7 DEF PeerClose
  <2> HIDE DEF bye
  <2> QED BY <1>2, <2>1, <2>2
<1>8. CASE PeerReset
  <2>1. /\ inbox' = <<>> /\ link' = "reset"
        /\ UNCHANGED <<read_accum, state, reason, pc, peer_acked>>
    BY <1>8 DEF PeerReset
  <2>2. Elems(inbox') = {} /\ Replies' \subseteq Replies
    BY <2>1, ElemsEmpty DEF Replies
  <2>3. AckFirst(inbox')
    BY <2>2, NoAck
  <2> QED BY <1>1, <2>1, <2>2, <2>3 DEF HonestInv, HonestStream, AckFirst
<1>9. CASE OnReadable
  <2>1. CASE Len(read_accum) + Len(inbox) > MaxReadAccum
    BY <1>9, <2>1 DEF OnReadable, FailWith, TransitionTo, OnConnectionFailed, HonestInv
  <2>2. CASE ~(Len(read_accum) + Len(inbox) > MaxReadAccum)
    <3>1. read_accum = <<>>
      BY <1>9 DEF OnReadable, ReadDue, TypeInv, ReadBufferDrained
    <3>2. /\ read_accum' = read_accum \o inbox /\ inbox' = <<>> /\ state # "kFailed"
          /\ UNCHANGED <<state, reason, link, peer_acked>>
      BY <1>9, <2>2 DEF OnReadable
    <3>3. read_accum' = inbox
      BY <1>0, <3>1, <3>2, ConcatEmptySeq
    <3>4. Elems(inbox') = {} /\ Replies' \subseteq Replies
      BY <3>2, <3>3, ElemsEmpty DEF Replies, Elems
    <3>5. AckFirst(inbox') /\ AckFirst(read_accum')
      BY <1>1, <3>2, <3>3, <3>4, NoAck DEF HonestStream, AckFirst
    <3> QED BY <1>1, <3>2, <3>4, <3>5 DEF HonestInv, HonestStream
  <2> QED BY <2>1, <2>2
<1>10. CASE HandleConnectAck \/ HandlePong \/ HandleDisconnect \/ HandleViolation
  <2> DEFINE m == Head(read_accum)
  <2>1. pc = "drain" /\ read_accum # <<>>
    BY <1>10 DEF HandleConnectAck, HandlePong, HandleDisconnect, HandleViolation, Draining
  <2>2. state # "kFailed" /\ HonestStream
    BY <1>1, <2>1
  <2>3. m \in Replies /\ Elems(Tail(read_accum)) \subseteq Elems(read_accum)
    BY <1>0, <2>1, ElemsTail DEF Replies
  <2>4. /\ m.type \in {"kConnectAck", "kPong", "kDisconnect"} /\ m.feed_id = "own"
        /\ m.type = "kConnectAck" => state = "kHandshaking" /\ peer_acked
        /\ m.type = "kPong" => state \in Live
    BY <2>2, <2>3 DEF HonestStream
  <2>5. CASE HandleConnectAck
    <3>1. m.type = "kConnectAck"
      BY <2>5 DEF HandleConnectAck, Draining
    <3>2. /\ read_accum' = Tail(read_accum) /\ state' = "kHealthy"
          /\ UNCHANGED <<inbox, link, peer_acked, reason, pc>>
      BY <2>4, <2>5, <3>1 DEF HandleConnectAck, DrainOn, DrainFrame, TransitionTo
    <3>3. \A r \in Replies' : r \in Replies /\ r.type # "kConnectAck"
      <4>1. \A r \in Elems(Tail(read_accum)) : r.type # "kConnectAck"
        BY <1>0, <2>1, <2>2, AckConsumed DEF HonestStream
      <4>2. \A r \in Elems(inbox) : r.type # "kConnectAck"
        BY <2>1, <2>2 DEF HonestStream
      <4> QED BY <2>3, <3>2, <4>1, <4>2 DEF Replies, Elems
    <3>4. AckFirst(read_accum') /\ AckFirst(inbox') /\ \A r \in Elems(inbox') : r.type # "kConnectAck"
      BY <3>3, NoAck DEF Replies
    <3> QED BY <1>1, <2>2, <2>4, <3>1, <3>2, <3>3, <3>4 DEF HonestInv, HonestStream, Live
  <2>6. CASE HandlePong
    <3>1. m.type = "kPong" /\ state \in Live
      BY <2>4, <2>6 DEF HandlePong, Draining
    <3>2. /\ read_accum' = Tail(read_accum) /\ state' \in Live
          /\ UNCHANGED <<inbox, link, peer_acked, reason, pc>>
      BY <2>6, <3>1 DEF HandlePong, DrainOn, DrainFrame, TransitionTo, Live
    <3>3. \A r \in Replies' : r \in Replies /\ r.type # "kConnectAck"
      BY <2>2, <2>3, <3>1, <3>2 DEF HonestStream, Replies, Elems, Live
    <3>4. AckFirst(read_accum') /\ AckFirst(inbox') /\ \A r \in Elems(inbox') : r.type # "kConnectAck"
      BY <3>3, NoAck DEF Replies
    <3> QED BY <1>1, <2>2, <3>1, <3>2, <3>3, <3>4 DEF HonestInv, HonestStream, Live
  <2>7. CASE HandleDisconnect
    BY <2>7
    DEF HandleDisconnect, DrainFailed, FailWith, TransitionTo, OnConnectionFailed, HonestInv
  <2>8. CASE HandleViolation
    BY <2>4, <2>8 DEF HandleViolation, Draining
  <2> QED BY <1>10, <2>5, <2>6, <2>7, <2>8
<1>11. CASE Rebind
  <2>1. /\ read_accum' = <<>> /\ inbox' = <<>> /\ state' = "kConnecting"
        /\ UNCHANGED <<reason, pc>> /\ pc = "loop"
    BY <1>11 DEF Rebind, TickStart, TransitionTo, ClearBuffers
  <2>2. Elems(read_accum') = {} /\ Elems(inbox') = {}
    BY <2>1, ElemsEmpty
  <2>3. AckFirst(read_accum') /\ AckFirst(inbox')
    BY <2>2, NoAck
  <2> QED BY <1>1, <2>1, <2>2, <2>3 DEF HonestInv, HonestStream, Replies, Live
<1> QED
  BY <1>3, <1>4, <1>5, <1>6, <1>7, <1>8, <1>9, <1>10, <1>11, HonestSteps

\* A peer that follows the protocol is never dropped for a violation.
THEOREM HonestPeerCorrect == Spec => []HonestPeerNeverViolates
<1>1. Init => HonestInv
  <2> SUFFICES ASSUME Init PROVE HonestInv
    OBVIOUS
  <2>1. Elems(read_accum) = {} /\ Elems(inbox) = {}
    BY ElemsEmpty DEF Init
  <2>2. AckFirst(read_accum) /\ AckFirst(inbox)
    BY <2>1, NoAck
  <2> QED BY <2>1, <2>2 DEF Init, HonestInv, HonestStream, Replies, Live
<1>2. HonestInv => HonestPeerNeverViolates
  BY DEF HonestInv, HonestPeerNeverViolates
<1>3. TypeInv /\ PeerInv /\ HonestInv /\ [Next]_vars => HonestInv'
  BY HonestStep DEF PeerInv
<1>4. Spec => []TypeInv
  BY TypeInit, TypeStep, PTL DEF Spec
<1> QED BY <1>1, <1>2, <1>3, <1>4, PeerCorrect, PTL DEF Spec
=============================================================================
