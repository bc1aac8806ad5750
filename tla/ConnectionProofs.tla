-------------------------- MODULE ConnectionProofs --------------------------
(***************************************************************************)
(* Proofs about Connection, for every value of its constants: its types,   *)
(* the detection of silence, that it implements FeedLifecycle, and that    *)
(* its ring of acked sequences remembers exactly the last PONGs.           *)
(***************************************************************************)
EXTENDS Connection, TLAPS, SequenceTheorems

-----------------------------------------------------------------------------
(* What the write path returns                                             *)

\* Msg builds a heartbeat message.
LEMMA MsgType ==
  ASSUME NEW seq \in Nat, NEW ts \in Nat,
         NEW type \in {"kConnectHello", "kConnectAck", "kPing", "kPong", "kDisconnect", "corrupt"}
  PROVE  Msg(type, seq, ts) \in Message
  BY DEF Msg, Message

\* flush_write_buffer leaves a tail of what was pending and sends the rest.
LEMMA FlushType ==
  ASSUME NEW pending \in Seq(Message), NEW o \in FlushOutcomes(pending)
  PROVE  /\ o.pending \in Seq(Message)
         /\ o.sent \in 0 .. Len(pending)
         /\ o.failed \in {"none", "socket_error"}
<1>0. Len(pending) \in Nat
  BY LenProperties
<1>1. CASE link = "reset"
  <2>1. o = [pending |-> pending, sent |-> 0, failed |-> "socket_error"]
    BY <1>1 DEF FlushOutcomes
  <2> QED BY <1>0, <2>1
<1>2. CASE link # "reset"
  <2>1. PICK n \in 0 .. Len(pending) :
          o = [pending |-> SubSeq(pending, n + 1, Len(pending)), sent |-> n, failed |-> "none"]
    BY <1>2 DEF FlushOutcomes
  <2>3. SubSeq(pending, n + 1, Len(pending)) \in Seq(Message)
    BY <1>0, SubSeqProperties
  <2> QED BY <1>0, <2>1, <2>3
<1> QED BY <1>1, <1>2

\* queue_write keeps the buffer a sequence of messages; what it sends is a
\* prefix of the buffer with the new message at its end.
LEMMA QueueType ==
  ASSUME NEW msg \in Message, write_pending \in Seq(Message), NEW o \in QueueOutcomes(msg)
  PROVE  /\ o.pending \in Seq(Message)
         /\ o.sent \in 0 .. Len(Append(write_pending, msg))
         /\ o.failed \in {"none", "socket_error", "write_overflow"}
<1> DEFINE pending == Append(write_pending, msg)
<1>1. pending \in Seq(Message) /\ Len(pending) \in Nat
  BY AppendProperties
<1>2. CASE Len(pending) > MaxWritePending
  <2>1. o = [pending |-> pending, sent |-> 0, failed |-> "write_overflow"]
    BY <1>2 DEF QueueOutcomes
  <2> QED BY <1>1, <2>1
<1>3. CASE ~(Len(pending) > MaxWritePending) /\ write_pending = <<>>
  <2>1. o \in FlushOutcomes(pending)
    BY <1>3 DEF QueueOutcomes
  <2> QED BY <2>1, <1>1, FlushType
<1>4. CASE ~(Len(pending) > MaxWritePending) /\ write_pending # <<>>
  <2>1. o = [pending |-> pending, sent |-> 0, failed |-> "none"]
    BY <1>4 DEF QueueOutcomes
  <2> QED BY <1>1, <2>1
<1> QED BY <1>2, <1>3, <1>4

\* What reaches the peer are messages.
LEMMA DeliverType ==
  ASSUME NEW pending \in Seq(Message), NEW n \in 0 .. Len(pending), delivered \subseteq Message
  PROVE  Deliver(pending, n) \subseteq Message
<1>1. \A i \in 1 .. n : pending[i] \in Message
  BY ElementOfSeq
<1> QED BY <1>1 DEF Deliver

-----------------------------------------------------------------------------
(* Type correctness                                                        *)

\* Between two reads the read buffer of a connection that is up is empty:
\* drain_read_buffer consumes every whole message before it returns.
ReadBufferDrained == pc # "drain" /\ state # "kFailed" => read_accum = <<>>

TypeInv == TypeOK /\ ReadBufferDrained

\* The initial state is typed.
LEMMA TypeInit == Init => TypeInv
<1> SUFFICES ASSUME Init PROVE TypeInv
  OBVIOUS
<1> USE TimingAssumption, LimitAssumption DEF Init
<1>1. TypeReactor
  BY DEF TypeReactor
<1>2. TypeState
  BY DEF TypeState, States, Opening, Reasons
<1>3. TypeAcks
  BY DEF TypeAcks
<1>4. TypeBuffers /\ TypePeer
  BY DEF TypeBuffers, TypePeer
<1> QED
  BY <1>1, <1>2, <1>3, <1>4 DEF TypeInv, TypeOK, ReadBufferDrained

\* Every step of the reactor, the peer and the clock keeps the types.
LEMMA TypeStep == TypeInv /\ [Next]_vars => TypeInv'
<1> SUFFICES ASSUME TypeInv, [Next]_vars PROVE TypeInv'
  OBVIOUS
<1> USE DEF TypeInv, TypeOK, ReadBufferDrained, config, reactor, slot, acks, liveness, buffers, peer
<1>1. CASE Advance
  BY <1>1 DEF Advance, TypeReactor, TypeState, TypeAcks, TypeBuffers, TypePeer,
     ConnEvents, States, Live, Opening, Reasons
<1>2. CASE PeerAck
  <2>1. Msg("kConnectAck", 0, now) \in Message
    BY MsgType DEF TypeReactor
  <2>11. TypeReactor'
    BY <1>2 DEF PeerAck, PeerSend, TypeReactor, ConnEvents
  <2>12. TypeState'
    BY <1>2 DEF PeerAck, PeerSend, TypeState, TypeReactor, States, Live, Opening, Reasons
  <2>13. TypeAcks'
    BY <1>2 DEF PeerAck, PeerSend, TypeAcks
  <2>14. TypeBuffers'
    BY <1>2 DEF PeerAck, PeerSend, TypeBuffers, TypePeer
  <2>15. TypePeer'
    BY <1>2, <2>1, AppendProperties DEF PeerAck, PeerSend, TypePeer, TypeReactor
  <2>16. ReadBufferDrained'
    BY <1>2 DEF PeerAck, PeerSend, Live, Opening
  <2> QED BY <2>11, <2>12, <2>13, <2>14, <2>15, <2>16
<1>3. CASE PeerPong
  <2>1. PICK m \in delivered :
          /\ PeerSend(Msg("kPong", m.sequence, m.timestamp_ns))
          /\ delivered' = IF "duplicate" \in Faults THEN delivered ELSE delivered \ {m}
    BY <1>3 DEF PeerPong
  <2>2. m.sequence \in Nat /\ m.timestamp_ns \in Nat
    BY DEF TypePeer, Message
  <2>3. Msg("kPong", m.sequence, m.timestamp_ns) \in Message
    BY <2>2, MsgType
  <2>11. TypeReactor'
    BY <1>3 DEF PeerPong, PeerSend, TypeReactor, ConnEvents
  <2>12. TypeState'
    BY <1>3 DEF PeerPong, PeerSend, TypeState, TypeReactor, States, Live, Opening, Reasons
  <2>13. TypeAcks'
    BY <1>3 DEF PeerPong, PeerSend, TypeAcks
  <2>14. TypeBuffers'
    BY <1>3 DEF PeerPong, PeerSend, TypeBuffers, TypePeer
  <2>15. TypePeer'
    BY <1>3, <2>1, <2>3, AppendProperties DEF PeerPong, PeerSend, TypePeer, TypeReactor
  <2>16. ReadBufferDrained'
    BY <1>3 DEF PeerPong, PeerSend, Live, Opening
  <2> QED BY <2>11, <2>12, <2>13, <2>14, <2>15, <2>16
<1>4. CASE PeerForge
  <2>11. TypeReactor'
    BY <1>4 DEF PeerForge, PeerSend, TypeReactor, ConnEvents
  <2>12. TypeState'
    BY <1>4 DEF PeerForge, PeerSend, TypeState, TypeReactor, States, Live, Opening, Reasons
  <2>13. TypeAcks'
    BY <1>4 DEF PeerForge, PeerSend, TypeAcks
  <2>14. TypeBuffers'
    BY <1>4 DEF PeerForge, PeerSend, TypeBuffers, TypePeer
  <2>15. TypePeer'
    BY <1>4, AppendProperties, ForgedAssumption DEF PeerForge, PeerSend, TypePeer, TypeReactor
  <2>16. ReadBufferDrained'
    BY <1>4 DEF PeerForge, PeerSend, Live, Opening
  <2> QED BY <2>11, <2>12, <2>13, <2>14, <2>15, <2>16
<1>5. CASE PeerClose
  <2>1. Msg("kDisconnect", 0, 0) \in Message
    BY MsgType
  <2>2. Append(inbox, Msg("kDisconnect", 0, 0)) \in Seq(Message)
    BY <2>1, AppendProperties DEF TypePeer
  <2>11. TypeReactor'
    BY <1>5 DEF PeerClose, TypeReactor, ConnEvents
  <2>12. TypeState'
    BY <1>5 DEF PeerClose, TypeState, TypeReactor, States, Live, Opening, Reasons
  <2>13. TypeAcks'
    BY <1>5 DEF PeerClose, TypeAcks
  <2>14. TypeBuffers'
    BY <1>5 DEF PeerClose, TypeBuffers, TypePeer
  <2>15. TypePeer'
    BY <1>5, <2>2 DEF PeerClose, TypePeer, TypeReactor
  <2>16. ReadBufferDrained'
    BY <1>5 DEF PeerClose, Live, Opening
  <2> QED BY <2>11, <2>12, <2>13, <2>14, <2>15, <2>16
<1>6. CASE PeerReset
  BY <1>6, EmptySeq DEF PeerReset, TypeReactor, TypeState, TypeAcks, TypeBuffers, TypePeer,
     ConnEvents, States, Live, Opening, Reasons
<1>7. CASE EpollWait
  <2>1. batch' \subseteq ({"timer", "command"} \cup ConnEvents)
    BY <1>7 DEF EpollWait, ReadyEvents, ConnEvents
  <2>11. TypeReactor'
    BY <1>7, <2>1 DEF EpollWait, TypeReactor, ConnEvents
  <2>12. TypeState'
    BY <1>7 DEF EpollWait, TypeState, TypeReactor, States, Live, Opening, Reasons
  <2>13. TypeAcks'
    BY <1>7 DEF EpollWait, TypeAcks
  <2>14. TypeBuffers'
    BY <1>7 DEF EpollWait, TypeBuffers, TypePeer
  <2>15. TypePeer'
    BY <1>7 DEF EpollWait, TypePeer, TypeReactor
  <2>16. ReadBufferDrained'
    BY <1>7 DEF EpollWait, Live, Opening
  <2> QED BY <2>11, <2>12, <2>13, <2>14, <2>15, <2>16
<1>8. CASE OnHangup
  BY <1>8 DEF OnHangup, FailWith, TransitionTo, OnConnectionFailed, TypeReactor, TypeState, TypeAcks, TypeBuffers, TypePeer,
     ConnEvents, States, Live, Opening, Reasons
<1>9. CASE OnConnected
  <2> DEFINE hello == Msg("kConnectHello", 0, batch_now)
  <2>1. hello \in Message
    BY MsgType DEF TypeReactor
  <2>2. \A o \in QueueOutcomes(hello) :
          /\ o.pending \in Seq(Message)
          /\ Deliver(Append(write_pending, hello), o.sent) \subseteq Message
          /\ o.failed \in {"none", "socket_error", "write_overflow"}
    BY <2>1, QueueType, DeliverType, AppendProperties DEF TypeBuffers, TypePeer
  <2>11. TypeReactor'
    BY <1>9, <2>2 DEF OnConnected, AfterWritable, FailWith, TransitionTo, OnConnectionFailed, TypeReactor, ConnEvents
  <2>12. TypeState'
    BY <1>9, <2>2 DEF OnConnected, AfterWritable, FailWith, TransitionTo, OnConnectionFailed, TypeState, TypeReactor, States, Live, Opening, Reasons
  <2>13. TypeAcks'
    BY <1>9 DEF OnConnected, AfterWritable, FailWith, TransitionTo, OnConnectionFailed, TypeAcks
  <2>14. TypeBuffers'
    BY <1>9, <2>2 DEF OnConnected, AfterWritable, FailWith, TransitionTo, OnConnectionFailed, TypeBuffers, TypePeer
  <2>15. TypePeer'
    BY <1>9, <2>2 DEF OnConnected, AfterWritable, FailWith, TransitionTo, OnConnectionFailed, TypePeer, TypeReactor
  <2>16. ReadBufferDrained'
    BY <1>9 DEF OnConnected, AfterWritable, FailWith, TransitionTo, OnConnectionFailed, Live, Opening
  <2> QED BY <2>11, <2>12, <2>13, <2>14, <2>15, <2>16
<1>10. CASE OnWritable
  <2>2. \A o \in FlushOutcomes(write_pending) :
          /\ o.pending \in Seq(Message)
          /\ Deliver(write_pending, o.sent) \subseteq Message
          /\ o.failed \in {"none", "socket_error"}
    BY FlushType, DeliverType DEF TypeBuffers, TypePeer
  <2>11. TypeReactor'
    BY <1>10, <2>2 DEF OnWritable, AfterWritable, FailWith, TransitionTo, OnConnectionFailed, TypeReactor, ConnEvents
  <2>12. TypeState'
    BY <1>10, <2>2 DEF OnWritable, AfterWritable, FailWith, TransitionTo, OnConnectionFailed, TypeState, TypeReactor, States, Live, Opening, Reasons
  <2>13. TypeAcks'
    BY <1>10 DEF OnWritable, AfterWritable, FailWith, TransitionTo, OnConnectionFailed, TypeAcks
  <2>14. TypeBuffers'
    BY <1>10, <2>2 DEF OnWritable, AfterWritable, FailWith, TransitionTo, OnConnectionFailed, TypeBuffers, TypePeer
  <2>15. TypePeer'
    BY <1>10, <2>2 DEF OnWritable, AfterWritable, FailWith, TransitionTo, OnConnectionFailed, TypePeer, TypeReactor
  <2>16. ReadBufferDrained'
    BY <1>10 DEF OnWritable, AfterWritable, FailWith, TransitionTo, OnConnectionFailed, Live, Opening
  <2> QED BY <2>11, <2>12, <2>13, <2>14, <2>15, <2>16
<1>11. CASE OnReadable
  <2> DEFINE taken == MaxReadAccum + 1 - Len(read_accum)
  <2>1. read_accum = <<>> /\ Len(read_accum) = 0
    BY <1>11 DEF OnReadable, ReadDue
  <2>2. /\ inbox \in Seq(Message) /\ Len(inbox) \in Nat
        /\ \A i \in 1 .. Len(inbox) : inbox[i] \in Message
    BY LenProperties, ElementOfSeq DEF TypePeer
  <2>3. ASSUME Len(read_accum) + Len(inbox) > MaxReadAccum
        PROVE  read_accum' \in Seq(Message) /\ inbox' \in Seq(Message)
    <3>1. taken \in Nat \ {0} /\ taken <= Len(inbox)
      BY <2>1, <2>2, <2>3, LimitAssumption
    <3>2. SubSeq(inbox, 1, taken) \in Seq(Message)
      BY <2>2, <3>1, SubSeqProperties
    <3>3. SubSeq(inbox, taken + 1, Len(inbox)) \in Seq(Message)
      BY <2>2, <3>1, SubSeqProperties
    <3>4. read_accum \o SubSeq(inbox, 1, taken) \in Seq(Message)
      BY <2>1, <3>2, ConcatProperties, EmptySeq
    <3>5. read_accum' \in Seq(Message) /\ inbox' \in Seq(Message)
      BY <1>11, <2>3, <3>3, <3>4 DEF OnReadable
    <3> QED BY <3>5
  <2>4. ASSUME ~(Len(read_accum) + Len(inbox) > MaxReadAccum)
        PROVE  read_accum' \in Seq(Message) /\ inbox' \in Seq(Message)
    <3>1. read_accum \o inbox \in Seq(Message)
      BY <2>1, <2>2, ConcatProperties, EmptySeq
    <3>2. read_accum' \in Seq(Message) /\ inbox' \in Seq(Message)
      BY <1>11, <2>4, <3>1, EmptySeq DEF OnReadable
    <3> QED BY <3>2
  <2>5. read_accum' \in Seq(Message) /\ inbox' \in Seq(Message)
    BY <2>3, <2>4
  <2>11. TypeReactor'
    BY <1>11 DEF OnReadable, ReadDue, FailWith, TransitionTo, OnConnectionFailed, TypeReactor, ConnEvents
  <2>12. TypeState'
    BY <1>11 DEF OnReadable, ReadDue, FailWith, TransitionTo, OnConnectionFailed, TypeState, TypeReactor, States, Live, Opening, Reasons
  <2>13. TypeAcks'
    BY <1>11 DEF OnReadable, ReadDue, FailWith, TransitionTo, OnConnectionFailed, TypeAcks
  <2>14. TypeBuffers'
    BY <1>11, <2>5 DEF OnReadable, ReadDue, FailWith, TransitionTo, OnConnectionFailed, TypeBuffers, TypePeer
  <2>15. TypePeer'
    BY <1>11, <2>5 DEF OnReadable, ReadDue, FailWith, TransitionTo, OnConnectionFailed, TypePeer, TypeReactor
  <2>16. ReadBufferDrained'
    BY <1>11 DEF OnReadable, ReadDue, FailWith, TransitionTo, OnConnectionFailed, Live, Opening
  <2> QED BY <2>11, <2>12, <2>13, <2>14, <2>15, <2>16
<1>12. CASE OnReadableFailed
  BY <1>12 DEF OnReadableFailed, ReadDue, OnConnectionFailed, TypeReactor, TypeState, TypeAcks, TypeBuffers, TypePeer,
     ConnEvents, States, Live, Opening, Reasons
<1>13. CASE HandleConnectAck
  <2>1. Tail(read_accum) \in Seq(Message)
    BY <1>13, HeadTailProperties DEF HandleConnectAck, Draining, TypeBuffers
  <2>11. TypeReactor'
    BY <1>13 DEF HandleConnectAck, Draining, DrainOn, DrainFailed, DrainFrame, FailWith, TransitionTo, OnConnectionFailed, TypeReactor, ConnEvents
  <2>12. TypeState'
    BY <1>13 DEF HandleConnectAck, Draining, DrainOn, DrainFailed, DrainFrame, FailWith, TransitionTo, OnConnectionFailed, TypeState, TypeReactor, States, Live, Opening, Reasons
  <2>13. TypeAcks'
    BY <1>13 DEF HandleConnectAck, Draining, DrainOn, DrainFailed, DrainFrame, FailWith, TransitionTo, OnConnectionFailed, TypeAcks
  <2>14. TypeBuffers'
    BY <1>13, <2>1, EmptySeq DEF HandleConnectAck, Draining, DrainOn, DrainFailed, DrainFrame, FailWith, TransitionTo, OnConnectionFailed, TypeBuffers, TypePeer
  <2>15. TypePeer'
    BY <1>13 DEF HandleConnectAck, Draining, DrainOn, DrainFailed, DrainFrame, FailWith, TransitionTo, OnConnectionFailed, TypePeer, TypeReactor
  <2>16. ReadBufferDrained'
    BY <1>13 DEF HandleConnectAck, Draining, DrainOn, DrainFailed, DrainFrame, FailWith, TransitionTo, OnConnectionFailed, Live, Opening
  <2> QED BY <2>11, <2>12, <2>13, <2>14, <2>15, <2>16
<1>14. CASE HandlePong
  <2>1. Tail(read_accum) \in Seq(Message)
    BY <1>14, HeadTailProperties DEF HandlePong, Draining, TypeBuffers
  <2>2. Head(read_accum).sequence \in Nat
    <3>1. Head(read_accum) \in Message
      BY <1>14, HeadTailProperties DEF HandlePong, Draining, TypeBuffers
    <3> QED BY <3>1 DEF Message
  <2>3. UNCHANGED acks \/ RememberAckedSequence(Head(read_accum).sequence)
    BY <1>14 DEF HandlePong, DrainFailed
  <2>4. ASSUME RememberAckedSequence(Head(read_accum).sequence) PROVE TypeAcks'
    <3>1. ack_log' \in Seq(Nat)
      BY <2>2, <2>4, AppendProperties DEF RememberAckedSequence, TypeAcks
    <3>2. acked_sequences' \in [0 .. AckedWindow - 1 -> Nat]
      BY <2>2, <2>4, LimitAssumption DEF RememberAckedSequence, TypeAcks
    <3>3. acked_next' \in 0 .. AckedWindow - 1
      BY <2>4, LimitAssumption DEF RememberAckedSequence, TypeAcks
    <3>4. acked_count' \in 0 .. AckedWindow
      BY <2>4, LimitAssumption DEF RememberAckedSequence, TypeAcks
    <3> QED BY <3>1, <3>2, <3>3, <3>4 DEF TypeAcks
  <2>11. TypeReactor'
    BY <1>14 DEF HandlePong, Draining, DrainOn, ProofOfLife, DrainFailed, DrainFrame, FailWith, TransitionTo, OnConnectionFailed, TypeReactor, ConnEvents
  <2>12. TypeState'
    BY <1>14 DEF HandlePong, Draining, DrainOn, ProofOfLife, DrainFailed, DrainFrame, FailWith, TransitionTo, OnConnectionFailed, TypeState, TypeReactor, States, Live, Opening, Reasons
  <2>13. TypeAcks'
    BY <1>14, <2>3, <2>4 DEF HandlePong, Draining, DrainOn, ProofOfLife, DrainFailed, DrainFrame, FailWith, TransitionTo, OnConnectionFailed, TypeAcks
  <2>14. TypeBuffers'
    BY <1>14, <2>1, EmptySeq DEF HandlePong, Draining, DrainOn, ProofOfLife, DrainFailed, DrainFrame, FailWith, TransitionTo, OnConnectionFailed, TypeBuffers, TypePeer
  <2>15. TypePeer'
    BY <1>14 DEF HandlePong, Draining, DrainOn, ProofOfLife, DrainFailed, DrainFrame, FailWith, TransitionTo, OnConnectionFailed, TypePeer, TypeReactor
  <2>16. ReadBufferDrained'
    BY <1>14 DEF HandlePong, Draining, DrainOn, ProofOfLife, DrainFailed, DrainFrame, FailWith, TransitionTo, OnConnectionFailed, Live, Opening
  <2> QED BY <2>11, <2>12, <2>13, <2>14, <2>15, <2>16
<1>15. CASE HandleDisconnect
  <2>11. TypeReactor'
    BY <1>15 DEF HandleDisconnect, Draining, DrainFailed, DrainFrame, FailWith, TransitionTo, OnConnectionFailed, TypeReactor, ConnEvents
  <2>12. TypeState'
    BY <1>15 DEF HandleDisconnect, Draining, DrainFailed, DrainFrame, FailWith, TransitionTo, OnConnectionFailed, TypeState, TypeReactor, States, Live, Opening, Reasons
  <2>13. TypeAcks'
    BY <1>15 DEF HandleDisconnect, Draining, DrainFailed, DrainFrame, FailWith, TransitionTo, OnConnectionFailed, TypeAcks
  <2>14. TypeBuffers'
    BY <1>15, EmptySeq DEF HandleDisconnect, Draining, DrainFailed, DrainFrame, FailWith, TransitionTo, OnConnectionFailed, TypeBuffers, TypePeer
  <2>15. TypePeer'
    BY <1>15 DEF HandleDisconnect, Draining, DrainFailed, DrainFrame, FailWith, TransitionTo, OnConnectionFailed, TypePeer, TypeReactor
  <2>16. ReadBufferDrained'
    BY <1>15 DEF HandleDisconnect, Draining, DrainFailed, DrainFrame, FailWith, TransitionTo, OnConnectionFailed, Live, Opening
  <2> QED BY <2>11, <2>12, <2>13, <2>14, <2>15, <2>16
<1>16. CASE HandleViolation
  <2>11. TypeReactor'
    BY <1>16 DEF HandleViolation, Draining, DrainFailed, DrainFrame, FailWith, TransitionTo, OnConnectionFailed, TypeReactor, ConnEvents
  <2>12. TypeState'
    BY <1>16 DEF HandleViolation, Draining, DrainFailed, DrainFrame, FailWith, TransitionTo, OnConnectionFailed, TypeState, TypeReactor, States, Live, Opening, Reasons
  <2>13. TypeAcks'
    BY <1>16 DEF HandleViolation, Draining, DrainFailed, DrainFrame, FailWith, TransitionTo, OnConnectionFailed, TypeAcks
  <2>14. TypeBuffers'
    BY <1>16, EmptySeq DEF HandleViolation, Draining, DrainFailed, DrainFrame, FailWith, TransitionTo, OnConnectionFailed, TypeBuffers, TypePeer
  <2>15. TypePeer'
    BY <1>16 DEF HandleViolation, Draining, DrainFailed, DrainFrame, FailWith, TransitionTo, OnConnectionFailed, TypePeer, TypeReactor
  <2>16. ReadBufferDrained'
    BY <1>16 DEF HandleViolation, Draining, DrainFailed, DrainFrame, FailWith, TransitionTo, OnConnectionFailed, Live, Opening
  <2> QED BY <2>11, <2>12, <2>13, <2>14, <2>15, <2>16
<1>17. CASE DrainDone
  BY <1>17 DEF DrainDone, DrainFrame, FailWith, TransitionTo, OnConnectionFailed, TypeReactor, TypeState, TypeAcks, TypeBuffers, TypePeer,
     ConnEvents, States, Live, Opening, Reasons
<1>18. CASE TickPing
  <2> DEFINE ping == Msg("kPing", next_sequence, now)
  <2>1. ping \in Message
    BY MsgType DEF TypeReactor, TypeState
  <2>2. \A o \in QueueOutcomes(ping) :
          /\ o.pending \in Seq(Message)
          /\ Deliver(Append(write_pending, ping), o.sent) \subseteq Message
          /\ o.failed \in {"none", "socket_error", "write_overflow"}
    BY <2>1, QueueType, DeliverType, AppendProperties DEF TypeBuffers, TypePeer
  <2>11. TypeReactor'
    BY <1>18, TimingAssumption DEF TickPing, TickStart, FailWith, TransitionTo, TypeReactor, ConnEvents
  <2>12. TypeState'
    BY <1>18, <2>2 DEF TickPing, TickStart, FailWith, TransitionTo, TypeState, TypeReactor, States, Live, Opening, Reasons
  <2>13. TypeAcks'
    BY <1>18 DEF TickPing, TickStart, FailWith, TransitionTo, TypeAcks
  <2>14. TypeBuffers'
    BY <1>18, <2>2 DEF TickPing, TickStart, FailWith, TransitionTo, TypeBuffers, TypePeer
  <2>15. TypePeer'
    BY <1>18, <2>2 DEF TickPing, TickStart, FailWith, TransitionTo, TypePeer, TypeReactor
  <2>16. ReadBufferDrained'
    BY <1>18 DEF TickPing, TickStart, FailWith, TransitionTo, Live, Opening
  <2> QED BY <2>11, <2>12, <2>13, <2>14, <2>15, <2>16
<1>19. CASE TickNoPing
  BY <1>19 DEF TickNoPing, TickStart, TypeReactor, TypeState, TypeAcks, TypeBuffers, TypePeer,
     ConnEvents, States, Live, Opening, Reasons
<1>20. CASE TickFailed
  BY <1>20 DEF TickFailed, TickStart, TypeReactor, TypeState, TypeAcks, TypeBuffers, TypePeer,
     ConnEvents, States, Live, Opening, Reasons
<1>21. CASE Rebind
  <2>11. TypeReactor'
    BY <1>21 DEF Rebind, TickStart, TransitionTo, ClearBuffers, ForgetAckedSequences, TypeReactor, ConnEvents
  <2>12. TypeState'
    BY <1>21 DEF Rebind, TickStart, TransitionTo, ClearBuffers, ForgetAckedSequences, TypeState, TypeReactor, States, Live, Opening, Reasons
  <2>13. TypeAcks'
    BY <1>21, LimitAssumption, EmptySeq DEF Rebind, TickStart, TransitionTo, ClearBuffers, ForgetAckedSequences, TypeAcks
  <2>14. TypeBuffers'
    BY <1>21, EmptySeq DEF Rebind, TickStart, TransitionTo, ClearBuffers, ForgetAckedSequences, TypeBuffers, TypePeer
  <2>15. TypePeer'
    BY <1>21, EmptySeq DEF Rebind, TickStart, TransitionTo, ClearBuffers, ForgetAckedSequences, TypePeer, TypeReactor
  <2>16. ReadBufferDrained'
    BY <1>21 DEF Rebind, TickStart, TransitionTo, ClearBuffers, ForgetAckedSequences, Live, Opening
  <2> QED BY <2>11, <2>12, <2>13, <2>14, <2>15, <2>16
<1>22. CASE CheckOpening
  BY <1>22 DEF CheckOpening, CheckFailed, CheckPassed, CheckFrame, FailWith, TransitionTo, OnConnectionFailed, TypeReactor, TypeState, TypeAcks, TypeBuffers, TypePeer,
     ConnEvents, States, Live, Opening, Reasons
<1>23. CASE CheckLive
  <2>11. TypeReactor'
    BY <1>23 DEF CheckLive, LimitReached, Missed, MoveWindow, CheckFailed, CheckPassed, CheckFrame, FailWith, TransitionTo, OnConnectionFailed, TypeReactor, ConnEvents
  <2>12. TypeState'
    BY <1>23, TimingAssumption DEF CheckLive, LimitReached, Missed, MoveWindow, CheckFailed, CheckPassed, CheckFrame, FailWith, TransitionTo, OnConnectionFailed, TypeState, TypeReactor, States, Live, Opening, Reasons
  <2>13. TypeAcks'
    BY <1>23 DEF CheckLive, LimitReached, Missed, MoveWindow, CheckFailed, CheckPassed, CheckFrame, FailWith, TransitionTo, OnConnectionFailed, TypeAcks
  <2>14. TypeBuffers'
    BY <1>23 DEF CheckLive, LimitReached, Missed, MoveWindow, CheckFailed, CheckPassed, CheckFrame, FailWith, TransitionTo, OnConnectionFailed, TypeBuffers, TypePeer
  <2>15. TypePeer'
    BY <1>23 DEF CheckLive, LimitReached, Missed, MoveWindow, CheckFailed, CheckPassed, CheckFrame, FailWith, TransitionTo, OnConnectionFailed, TypePeer, TypeReactor
  <2>16. ReadBufferDrained'
    BY <1>23 DEF CheckLive, LimitReached, Missed, MoveWindow, CheckFailed, CheckPassed, CheckFrame, FailWith, TransitionTo, OnConnectionFailed, Live, Opening
  <2> QED BY <2>11, <2>12, <2>13, <2>14, <2>15, <2>16
<1>24. CASE CheckSilent
  BY <1>24 DEF CheckSilent, CheckPassed, CheckFrame, TypeReactor, TypeState, TypeAcks, TypeBuffers, TypePeer,
     ConnEvents, States, Live, Opening, Reasons
<1>25. CASE SetHeartbeatTimeout
  BY <1>25 DEF SetHeartbeatTimeout, ResetLivenessBaseline, Command, TypeReactor, TypeState, TypeAcks, TypeBuffers, TypePeer,
     ConnEvents, States, Live, Opening, Reasons
<1>26. CASE SetHeartbeatInterval
  BY <1>26 DEF SetHeartbeatInterval, Command, TypeReactor, TypeState, TypeAcks, TypeBuffers, TypePeer,
     ConnEvents, States, Live, Opening, Reasons
<1>27. CASE ForceDisconnect
  <2>11. TypeReactor'
    BY <1>27 DEF ForceDisconnect, Command, FailWith, TransitionTo, TypeReactor, ConnEvents
  <2>12. TypeState'
    BY <1>27 DEF ForceDisconnect, Command, FailWith, TransitionTo, TypeState, TypeReactor, States, Live, Opening, Reasons
  <2>13. TypeAcks'
    BY <1>27 DEF ForceDisconnect, Command, FailWith, TransitionTo, TypeAcks
  <2>14. TypeBuffers'
    BY <1>27 DEF ForceDisconnect, Command, FailWith, TransitionTo, TypeBuffers, TypePeer
  <2>15. TypePeer'
    BY <1>27 DEF ForceDisconnect, Command, FailWith, TransitionTo, TypePeer, TypeReactor
  <2>16. ReadBufferDrained'
    BY <1>27 DEF ForceDisconnect, Command, FailWith, TransitionTo, Live, Opening
  <2> QED BY <2>11, <2>12, <2>13, <2>14, <2>15, <2>16
<1>28. CASE ForceReconnect
  BY <1>28 DEF ForceReconnect, Command, TypeReactor, TypeState, TypeAcks, TypeBuffers, TypePeer,
     ConnEvents, States, Live, Opening, Reasons
<1>29. CASE UNCHANGED vars
  BY <1>29 DEF vars, TypeReactor, TypeState, TypeAcks, TypeBuffers, TypePeer
<1> QED
  BY <1>1, <1>2, <1>3, <1>4, <1>5, <1>6, <1>7, <1>8, <1>9, <1>10, <1>11, <1>12, <1>13, <1>14,
     <1>15, <1>16, <1>17, <1>18, <1>19, <1>20, <1>21, <1>22, <1>23, <1>24, <1>25, <1>26, <1>27, <1>28, <1>29
  DEF Next, Environment, Events, Messages, Tick, Operator

\* Every state the program reaches is typed, whatever the configuration, the
\* peer and the operator do.
THEOREM TypeCorrect == Spec => []TypeOK
<1>1. TypeInv => TypeOK
  BY DEF TypeInv
<1> QED BY <1>1, TypeInit, TypeStep, PTL DEF Spec

-----------------------------------------------------------------------------
(* Failure detection                                                       *)

\* The clocks of one wakeup: a tick is handled within TickGap of the one
\* before, and the batch's now_ns, read earlier, is at most that much behind
\* the clock the tick reads.
ClockInv ==
  /\ tick_now <= now /\ now - tick_now <= TickGap
  /\ batch_now <= now
  /\ tick_now - batch_now <= TickGap
  /\ "timer" \in batch => tick_now <= batch_now

\* The sliding window of check_timeout stands a whole number of timeouts after
\* the evidence it started from, one for each miss counted since.
WindowInv ==
  state \in Live =>
    /\ inherited <= consecutive_missed
    /\ last_liveness = baseline + (consecutive_missed - inherited) * heartbeat_timeout

\* One miss per tick is enough: after a tick the window is less than a timeout
\* behind, so the next tick, TickGap later, finds at most one miss.
LagInv ==
  state \in Live =>
    /\ pc # "check" => tick_now - last_liveness < heartbeat_timeout
    /\ tick_now - last_liveness < heartbeat_timeout + TickGap

DetectionInv == ClockInv /\ MissesMatchState /\ WindowInv /\ LagInv

\* A step that neither judges silence nor records evidence.
Untimed ==
  /\ UNCHANGED <<now, heartbeat_timeout, batch_now, tick_now, liveness>>
  /\ batch' \subseteq batch
  /\ state' \in {state, "kFailed"} \/ {state, state'} \subseteq Opening
  /\ pc' = "check" => pc = "check"
  /\ pc = "check" => pc' = pc \/ state' \notin Live

\* Such a step leaves everything the detection rests on as it was.
LEMMA UntimedStep == DetectionInv /\ Untimed => DetectionInv'
<1> SUFFICES ASSUME DetectionInv, Untimed PROVE DetectionInv'
  OBVIOUS
<1> USE DEF DetectionInv, Untimed, liveness
<1>1. ClockInv'
  BY DEF ClockInv
<1>2. MissesMatchState'
  BY DEF MissesMatchState, Opening
<1>3. WindowInv'
  BY DEF WindowInv, Live, Opening
<1>4. LagInv'
  BY DEF LagInv, Live, Opening
<1> QED BY <1>1, <1>2, <1>3, <1>4

UntimedActions ==
  \/ PeerAck \/ PeerPong \/ PeerForge \/ PeerClose \/ PeerReset
  \/ OnHangup \/ OnConnected \/ OnWritable \/ OnReadable \/ OnReadableFailed
  \/ HandleDisconnect \/ HandleViolation \/ DrainDone
  \/ CheckOpening \/ CheckSilent
  \/ SetHeartbeatInterval \/ ForceDisconnect \/ ForceReconnect

\* The peer's sends, the write path, every way to lose the connection but a
\* heartbeat timeout, and the commands but set-timeout, are such steps.
LEMMA ActionsUntimed == TypeOK /\ UntimedActions => Untimed
<1> SUFFICES ASSUME TypeOK, UntimedActions PROVE Untimed
  OBVIOUS
<1> USE DEF Untimed, config, reactor, slot, liveness, buffers, peer
<1>1. CASE PeerAck
  BY <1>1 DEF PeerAck, PeerSend, ConnEvents, Live, Opening, TypeOK, TypeReactor
<1>2. CASE PeerPong
  BY <1>2 DEF PeerPong, PeerSend, ConnEvents, Live, Opening, TypeOK, TypeReactor
<1>3. CASE PeerForge
  BY <1>3 DEF PeerForge, PeerSend, ConnEvents, Live, Opening, TypeOK, TypeReactor
<1>4. CASE PeerClose
  BY <1>4 DEF PeerClose, ConnEvents, Live, Opening, TypeOK, TypeReactor
<1>5. CASE PeerReset
  BY <1>5 DEF PeerReset, ConnEvents, Live, Opening, TypeOK, TypeReactor
<1>6. CASE OnHangup
  BY <1>6 DEF OnHangup, FailWith, TransitionTo, OnConnectionFailed, ConnEvents, Live, Opening, TypeOK, TypeReactor
<1>7. CASE OnConnected
  BY <1>7 DEF OnConnected, AfterWritable, FailWith, TransitionTo, OnConnectionFailed, ConnEvents, Live, Opening, TypeOK, TypeReactor
<1>8. CASE OnWritable
  BY <1>8 DEF OnWritable, AfterWritable, FailWith, TransitionTo, OnConnectionFailed, ConnEvents, Live, Opening, TypeOK, TypeReactor
<1>9. CASE OnReadable
  BY <1>9 DEF OnReadable, ReadDue, FailWith, TransitionTo, OnConnectionFailed, ConnEvents, Live, Opening, TypeOK, TypeReactor
<1>10. CASE OnReadableFailed
  BY <1>10 DEF OnReadableFailed, ReadDue, OnConnectionFailed, ConnEvents, Live, Opening, TypeOK, TypeReactor
<1>11. CASE HandleDisconnect
  BY <1>11 DEF HandleDisconnect, Draining, DrainFailed, DrainFrame, FailWith, TransitionTo, OnConnectionFailed, ConnEvents, Live, Opening, TypeOK, TypeReactor
<1>12. CASE HandleViolation
  BY <1>12 DEF HandleViolation, Draining, DrainFailed, DrainFrame, FailWith, TransitionTo, OnConnectionFailed, ConnEvents, Live, Opening, TypeOK, TypeReactor
<1>13. CASE DrainDone
  BY <1>13 DEF DrainDone, DrainFrame, FailWith, TransitionTo, OnConnectionFailed, ConnEvents, Live, Opening, TypeOK, TypeReactor
<1>14. CASE CheckOpening
  BY <1>14 DEF CheckOpening, CheckFailed, CheckPassed, CheckFrame, FailWith, TransitionTo, OnConnectionFailed, ConnEvents, Live, Opening, TypeOK, TypeReactor
<1>15. CASE CheckSilent
  BY <1>15 DEF CheckSilent, CheckPassed, CheckFrame, ConnEvents, Live, Opening, TypeOK, TypeReactor
<1>16. CASE SetHeartbeatInterval
  BY <1>16 DEF SetHeartbeatInterval, Command, ConnEvents, Live, Opening, TypeOK, TypeReactor
<1>17. CASE ForceDisconnect
  BY <1>17 DEF ForceDisconnect, Command, FailWith, TransitionTo, ConnEvents, Live, Opening, TypeOK, TypeReactor
<1>18. CASE ForceReconnect
  BY <1>18 DEF ForceReconnect, Command, ConnEvents, Live, Opening, TypeOK, TypeReactor
<1> QED
  BY <1>1, <1>2, <1>3, <1>4, <1>5, <1>6, <1>7, <1>8, <1>9, <1>10, <1>11, <1>12, <1>13, <1>14, <1>15, <1>16, <1>17, <1>18 DEF UntimedActions

\* One more miss is one more timeout.
LEMMA OneMoreMiss ==
  ASSUME NEW n \in Int, NEW t \in Int
  PROVE  /\ (n + 1) * t = n * t + t
         /\ n * t \in Int
  OBVIOUS

\* No miss moves the window nowhere.
LEMMA NoMiss ==
  \A b \in Nat, n \in Nat, t \in Nat : b = b + (n - n) * t
  OBVIOUS

\* More misses are at least as much silence.
LEMMA MoreMisses ==
  ASSUME NEW m \in Int, NEW n \in Int, NEW t \in Nat, m <= n
  PROVE  m * t <= n * t
  OBVIOUS

\* What a step may do to the detection, given types.
LEMMA DetectionStep == TypeOK /\ DetectionInv /\ [Next]_vars => DetectionInv'
<1> SUFFICES ASSUME TypeOK, DetectionInv, [Next]_vars PROVE DetectionInv'
  OBVIOUS
<1>0. /\ now \in Nat /\ batch_now \in Nat /\ tick_now \in Nat
      /\ heartbeat_timeout \in Nat /\ TickGap \in Nat /\ TickGap < heartbeat_timeout
      /\ consecutive_missed \in Nat /\ last_liveness \in Nat
      /\ baseline \in Nat /\ inherited \in Nat
  BY TimingAssumption DEF TypeOK, TypeReactor, TypeState
<1> USE DEF config, reactor, slot, liveness, acks, buffers, peer
<1>1. CASE UntimedActions
  BY <1>1, ActionsUntimed, UntimedStep
<1>2. CASE Advance
  BY <1>0, <1>2 DEF Advance, DetectionInv, ClockInv, MissesMatchState, WindowInv, LagInv
<1>3. CASE EpollWait
  BY <1>0, <1>3 DEF EpollWait, DetectionInv, ClockInv, MissesMatchState, WindowInv, LagInv
<1>4. CASE TickPing
  <2>1. /\ "timer" \in batch /\ tick_now' = now /\ state' \in {state, "kFailed"}
        /\ batch' = batch \ {"timer"} /\ pc # "check"
        /\ UNCHANGED <<now, heartbeat_timeout, batch_now, liveness>>
    BY <1>4 DEF TickPing, TickStart, FailWith, TransitionTo
  <2>2. ClockInv' /\ MissesMatchState' /\ WindowInv'
    BY <1>0, <2>1 DEF DetectionInv, ClockInv, MissesMatchState, WindowInv, Live, Opening
  <2>3. LagInv'
    BY <1>0, <1>4, <2>1 DEF TickPing, DetectionInv, ClockInv, LagInv, Live
  <2> QED BY <2>2, <2>3 DEF DetectionInv
<1>5. CASE TickNoPing \/ TickFailed
  <2>1. /\ "timer" \in batch /\ tick_now' = now /\ state' = state
        /\ batch' = batch \ {"timer"} /\ pc # "check"
        /\ state \in Live => pc' = "check"
        /\ UNCHANGED <<now, heartbeat_timeout, batch_now, liveness>>
    BY <1>5 DEF TickNoPing, TickFailed, TickStart, Live
  <2>2. ClockInv' /\ MissesMatchState' /\ WindowInv'
    BY <1>0, <2>1 DEF DetectionInv, ClockInv, MissesMatchState, WindowInv, Live, Opening
  <2>3. LagInv'
    BY <1>0, <2>1 DEF DetectionInv, ClockInv, LagInv, Live
  <2> QED BY <2>2, <2>3 DEF DetectionInv
<1>6. CASE Rebind
  <2>1. /\ "timer" \in batch /\ tick_now' = now /\ state' = "kConnecting"
        /\ batch' \subseteq batch \ {"timer"} /\ consecutive_missed' = 0
        /\ UNCHANGED <<now, batch_now>>
    BY <1>6 DEF Rebind, TickStart, TransitionTo
  <2> QED
    BY <1>0, <2>1 DEF DetectionInv, ClockInv, MissesMatchState, WindowInv, LagInv, Live, Opening
<1>7. CASE HandleConnectAck
  <2>1. UNCHANGED <<now, heartbeat_timeout, batch_now, tick_now>> /\ batch' \subseteq batch
    BY <1>7 DEF HandleConnectAck, DrainOn, DrainFailed, DrainFrame, OnConnectionFailed
  <2>2. CASE state' = "kFailed"
    BY <1>0, <2>1, <2>2
    DEF DetectionInv, ClockInv, MissesMatchState, WindowInv, LagInv, Live, Opening
  <2>3. CASE state' # "kFailed"
    <3>1. /\ state = "kHandshaking" /\ state' = "kHealthy"
          /\ last_liveness' = batch_now /\ baseline' = batch_now
          /\ inherited' = consecutive_missed /\ consecutive_missed' = consecutive_missed
      BY <1>7, <2>3 DEF HandleConnectAck, DrainFailed, FailWith, TransitionTo
    <3>2. consecutive_missed = 0
      BY <3>1 DEF DetectionInv, MissesMatchState, Opening
    <3>3. last_liveness' = baseline' + (consecutive_missed - consecutive_missed) * heartbeat_timeout
      BY <1>0, <3>1, NoMiss
    <3> QED BY <1>0, <2>1, <3>1, <3>2, <3>3
      DEF DetectionInv, ClockInv, MissesMatchState, WindowInv, LagInv, Live, Opening
  <2> QED BY <2>2, <2>3
<1>8. CASE HandlePong
  <2>1. UNCHANGED <<now, heartbeat_timeout, batch_now, tick_now>> /\ batch' \subseteq batch
    BY <1>8 DEF HandlePong, DrainOn, DrainFailed, DrainFrame, OnConnectionFailed
  <2>2. CASE state' = "kFailed"
    BY <1>0, <2>1, <2>2
    DEF DetectionInv, ClockInv, MissesMatchState, WindowInv, LagInv, Live, Opening
  <2>3. CASE state' # "kFailed" /\ UNCHANGED <<liveness, state>>
    <3>1. pc' = pc /\ pc # "check"
      BY <1>8, <2>3 DEF HandlePong, Draining, DrainOn, DrainFailed, FailWith, TransitionTo
    <3> QED BY <2>1, <2>3, <3>1, UntimedStep DEF Untimed
  <2>4. CASE state' # "kFailed" /\ ~UNCHANGED <<liveness, state>>
    <3>1. ProofOfLife /\ state' = "kHealthy"
      BY <1>8, <2>4 DEF HandlePong, DrainFailed, FailWith, TransitionTo, Live
    <3>2. last_liveness' = baseline' + (0 - 0) * heartbeat_timeout
      BY <1>0, <3>1, NoMiss DEF ProofOfLife
    <3> QED BY <1>0, <2>1, <3>1, <3>2
      DEF ProofOfLife, DetectionInv, ClockInv, MissesMatchState, WindowInv, LagInv, Live, Opening
  <2> QED BY <2>2, <2>3, <2>4
<1>9. CASE CheckLive
  <2>1. /\ UNCHANGED <<now, heartbeat_timeout, batch_now, tick_now, baseline, inherited>>
        /\ batch' \subseteq batch /\ pc' = "loop" /\ pc = "check" /\ state \in Live
    BY <1>9 DEF CheckLive, CheckFailed, CheckPassed, CheckFrame, OnConnectionFailed
  <2>2. CASE state' = "kFailed"
    BY <1>0, <2>1, <2>2
    DEF DetectionInv, ClockInv, MissesMatchState, WindowInv, LagInv, Live, Opening
  <2>3. CASE state' # "kFailed" /\ Missed
    <3>1. /\ consecutive_missed' = consecutive_missed + 1
          /\ consecutive_missed + 1 < MaxMissedHeartbeats
          /\ last_liveness' = last_liveness + heartbeat_timeout
          /\ state' = "kDegraded"
      BY <1>0, <1>9, <2>3, LimitAssumption
      DEF CheckLive, LimitReached, CheckFailed, FailWith, TransitionTo, MoveWindow
    <3>2. (consecutive_missed - inherited + 1) * heartbeat_timeout
            = (consecutive_missed - inherited) * heartbeat_timeout + heartbeat_timeout
      BY <1>0, OneMoreMiss
    <3>3. consecutive_missed' - inherited = consecutive_missed - inherited + 1
      BY <1>0, <3>1
    <3>4. (consecutive_missed - inherited) * heartbeat_timeout \in Int
      BY <1>0, OneMoreMiss
    <3>5. WindowInv'
      BY <1>0, <2>1, <3>1, <3>2, <3>3, <3>4 DEF DetectionInv, WindowInv
    <3>6. ClockInv' /\ MissesMatchState' /\ LagInv'
      BY <1>0, <2>1, <3>1, LimitAssumption
      DEF DetectionInv, ClockInv, MissesMatchState, LagInv, Live, Opening
    <3> QED BY <3>5, <3>6 DEF DetectionInv
  <2>4. CASE state' # "kFailed" /\ ~Missed
    <3>1. UNCHANGED <<state, consecutive_missed, last_liveness>>
      BY <1>9, <2>4 DEF CheckLive
    <3>2. tick_now - last_liveness < heartbeat_timeout
      BY <1>0, <2>4 DEF Missed
    <3> QED BY <1>0, <2>1, <3>1, <3>2
      DEF DetectionInv, ClockInv, MissesMatchState, WindowInv, LagInv
  <2> QED BY <2>2, <2>3, <2>4
<1>10. CASE SetHeartbeatTimeout
  <2>1. /\ UNCHANGED <<now, batch_now, tick_now, state, consecutive_missed>>
        /\ pc # "check" /\ pc' # "check"
        /\ batch' \subseteq batch /\ heartbeat_timeout' \in Timeouts
        /\ last_liveness' = now /\ baseline' = now /\ inherited' = consecutive_missed
    BY <1>10 DEF SetHeartbeatTimeout, ResetLivenessBaseline, Command
  <2>2. PICK t \in Nat : heartbeat_timeout' = t /\ TickGap < t
    BY <2>1, TimingAssumption
  <2>3. now = now + (consecutive_missed - consecutive_missed) * t
    BY <1>0, NoMiss
  <2>4. WindowInv'
    BY <1>0, <2>1, <2>2, <2>3 DEF WindowInv
  <2>5. ClockInv' /\ MissesMatchState'
    BY <1>0, <2>1 DEF DetectionInv, ClockInv, MissesMatchState
  <2>6. tick_now - now < t /\ tick_now - now < t + TickGap
    BY <1>0, <2>2 DEF DetectionInv, ClockInv
  <2>7. LagInv'
    BY <2>1, <2>2, <2>6 DEF LagInv
  <2> QED BY <2>4, <2>5, <2>7 DEF DetectionInv
<1>11. CASE UNCHANGED vars
  BY <1>11, UntimedStep DEF vars, Untimed
<1> QED
  BY <1>1, <1>2, <1>3, <1>4, <1>5, <1>6, <1>7, <1>8, <1>9, <1>10, <1>11
  DEF Next, Environment, Events, Messages, Tick, Operator, UntimedActions

\* The detection invariant holds in the initial state.
LEMMA DetectionInit == Init => DetectionInv
  BY TimingAssumption
  DEF Init, DetectionInv, ClockInv, MissesMatchState, WindowInv, LagInv, Live, Opening

\* The detection invariant holds in every reachable state.
THEOREM DetectionCorrect == Spec => []DetectionInv
<1>1. TypeInv /\ DetectionInv /\ [Next]_vars => (TypeInv /\ DetectionInv)'
  BY TypeStep, DetectionStep DEF TypeInv
<1> QED BY <1>1, TypeInit, DetectionInit, PTL DEF Spec

\* The miss counter matches the state after every step.
THEOREM MissesCorrect == Spec => []MissesMatchState
<1>1. DetectionInv => MissesMatchState
  BY DEF DetectionInv
<1> QED BY <1>1, DetectionCorrect, PTL

\* A connection shown as live has been silent for less than the misses it is
\* allowed, plus one tick.
THEOREM SilenceCorrect == Spec => []SilenceBounded
<1>1. TypeOK /\ DetectionInv => SilenceBounded
  <2> SUFFICES ASSUME TypeOK, DetectionInv, state \in Live, pc # "check"
               PROVE  now - baseline
                        < (MaxMissedHeartbeats - inherited) * heartbeat_timeout + TickGap
    BY DEF SilenceBounded
  <2>0. /\ now \in Nat /\ tick_now \in Nat
        /\ heartbeat_timeout \in Nat /\ TickGap \in Nat /\ MaxMissedHeartbeats \in Nat \ {0}
        /\ consecutive_missed \in Nat /\ last_liveness \in Nat
        /\ baseline \in Nat /\ inherited \in Nat
    BY TimingAssumption, LimitAssumption DEF TypeOK, TypeReactor, TypeState
  <2> DEFINE misses == consecutive_missed - inherited
             allowed == MaxMissedHeartbeats - inherited
  <2>1. misses + 1 <= allowed
    BY <2>0 DEF DetectionInv, MissesMatchState, Live, Opening
  <2>2. (misses + 1) * heartbeat_timeout = misses * heartbeat_timeout + heartbeat_timeout
    BY <2>0, OneMoreMiss
  <2>3. (misses + 1) * heartbeat_timeout <= allowed * heartbeat_timeout
    BY <2>0, <2>1, MoreMisses
  <2>4. misses * heartbeat_timeout \in Int /\ allowed * heartbeat_timeout \in Int
    BY <2>0, OneMoreMiss
  <2>5. last_liveness = baseline + misses * heartbeat_timeout
    BY DEF DetectionInv, WindowInv
  <2>6. tick_now - last_liveness < heartbeat_timeout /\ now - tick_now <= TickGap
    BY DEF DetectionInv, LagInv, ClockInv
  <2> HIDE DEF misses, allowed
  <2>7. now - baseline < allowed * heartbeat_timeout + TickGap
    BY <2>0, <2>2, <2>3, <2>4, <2>5, <2>6
  <2> QED BY <2>7 DEF allowed
<1> QED BY <1>1, TypeCorrect, DetectionCorrect, PTL

\* No other way to lose the connection is blamed on the heartbeat.
LEMMA OnlyCheckLive ==
  ASSUME TypeOK, [Next]_vars, state \in Live, state' = "kFailed", reason' = "heartbeat_timeout"
  PROVE  CheckLive
<1>1. \A o \in FlushOutcomes(write_pending) : o.failed # "heartbeat_timeout"
  BY FlushType DEF TypeOK, TypeBuffers
<1>2. \A o \in QueueOutcomes(Msg("kPing", next_sequence, now)) : o.failed # "heartbeat_timeout"
  BY MsgType, QueueType DEF TypeOK, TypeReactor, TypeState, TypeBuffers
<1> USE DEF Live, Opening
<1>3. ~Environment /\ ~EpollWait /\ ~UNCHANGED vars
  BY DEF Environment, Advance, PeerAck, PeerPong, PeerForge, PeerSend, PeerClose, PeerReset,
         EpollWait, vars
<1>4. ~OnHangup /\ ~OnConnected /\ ~OnReadable /\ ~OnReadableFailed
  BY DEF OnHangup, OnConnected, OnReadable, OnReadableFailed, FailWith, TransitionTo
<1>5. ~OnWritable
  BY <1>1 DEF OnWritable, FailWith, TransitionTo
<1>6. ~HandleConnectAck /\ ~HandlePong /\ ~HandleDisconnect /\ ~HandleViolation /\ ~DrainDone
  BY DEF HandleConnectAck, HandlePong, HandleDisconnect, HandleViolation, DrainDone,
         DrainFailed, FailWith, TransitionTo
<1>7. ~TickPing
  BY <1>2 DEF TickPing, FailWith, TransitionTo
<1>8. ~TickNoPing /\ ~TickFailed /\ ~Rebind /\ ~CheckOpening /\ ~CheckSilent
  BY DEF TickNoPing, TickFailed, Rebind, CheckOpening, CheckSilent, TransitionTo
<1>9. ~Operator
  BY DEF Operator, SetHeartbeatTimeout, SetHeartbeatInterval, ForceDisconnect, ForceReconnect,
         FailWith, TransitionTo
<1> QED
  BY <1>3, <1>4, <1>5, <1>6, <1>7, <1>8, <1>9 DEF Next, Events, Messages, Tick

\* check_timeout fails a connection only for silence it really had.
THEOREM FailuresEarned == Spec => FailureIsEarned
<1>1. ASSUME TypeOK, DetectionInv, [Next]_vars,
             state \in Live, state' = "kFailed", reason' = "heartbeat_timeout"
      PROVE  tick_now - baseline >= (MaxMissedHeartbeats - inherited) * heartbeat_timeout
  <2>0. /\ tick_now \in Nat /\ heartbeat_timeout \in Nat /\ MaxMissedHeartbeats \in Nat
        /\ consecutive_missed \in Nat /\ last_liveness \in Nat
        /\ baseline \in Nat /\ inherited \in Nat
    BY <1>1, TimingAssumption, LimitAssumption DEF TypeOK, TypeReactor, TypeState
  <2> DEFINE misses == consecutive_missed - inherited
             allowed == MaxMissedHeartbeats - inherited
  <2>1. CheckLive
    BY <1>1, OnlyCheckLive
  <2>2. Missed /\ consecutive_missed + 1 >= MaxMissedHeartbeats
    BY <1>1, <2>1 DEF CheckLive, LimitReached, TransitionTo, Live
  <2>3. (misses + 1) * heartbeat_timeout = misses * heartbeat_timeout + heartbeat_timeout
    BY <2>0, OneMoreMiss
  <2>4. allowed * heartbeat_timeout <= (misses + 1) * heartbeat_timeout
    BY <2>0, <2>2, MoreMisses
  <2>5. misses * heartbeat_timeout \in Int /\ allowed * heartbeat_timeout \in Int
    BY <2>0, OneMoreMiss
  <2>6. last_liveness = baseline + misses * heartbeat_timeout
    BY <1>1 DEF DetectionInv, WindowInv
  <2>7. tick_now - last_liveness >= heartbeat_timeout
    BY <2>2 DEF Missed
  <2> HIDE DEF misses, allowed
  <2>8. tick_now - baseline >= allowed * heartbeat_timeout
    BY <2>0, <2>3, <2>4, <2>5, <2>6, <2>7
  <2> QED BY <2>8 DEF allowed
<1>2. TypeOK /\ DetectionInv /\ [Next]_vars
        => [(state \in Live /\ state' = "kFailed" /\ reason' = "heartbeat_timeout")
             => tick_now - baseline >= (MaxMissedHeartbeats - inherited) * heartbeat_timeout]_vars
  BY <1>1
<1> QED BY <1>2, TypeCorrect, DetectionCorrect, PTL DEF Spec, FailureIsEarned

-----------------------------------------------------------------------------
(* Refinement: Connection implements FeedLifecycle                         *)

\* A step that leaves the state and the miss count shown alone, or breaks the
\* connection, is one FeedLifecycle allows.
LEMMA ShownOrBroken ==
  ASSUME consecutive_missed' = consecutive_missed, state' \in {state, "kFailed"}
  PROVE  [Lifecycle!Next]_(Lifecycle!vars)
  BY DEF Lifecycle!Next, Lifecycle!Break, Lifecycle!vars

\* Every step of the reactor, the peer and the clock is a step of FeedLifecycle
\* or leaves what it shows unchanged.
LEMMA LifecycleStep == TypeOK /\ [Next]_vars => [Lifecycle!Next]_(Lifecycle!vars)
<1> SUFFICES ASSUME TypeOK, [Next]_vars PROVE [Lifecycle!Next]_(Lifecycle!vars)
  OBVIOUS
<1> USE DEF config, reactor, slot, liveness, FailWith, TransitionTo
<1>1. CASE Environment \/ EpollWait
  <2>1. UNCHANGED <<state, consecutive_missed>>
    BY <1>1 DEF Environment, Advance, PeerAck, PeerPong, PeerForge, PeerSend, PeerClose,
       PeerReset, EpollWait
  <2> QED BY <2>1, ShownOrBroken
<1>2. CASE OnConnected
  <2>1. consecutive_missed' = consecutive_missed /\ state = "kConnecting"
    BY <1>2 DEF OnConnected
  <2>2. state' \in {"kHandshaking", "kFailed"}
    BY <1>2 DEF OnConnected
  <2>3. CASE state' = "kHandshaking"
    BY <2>1, <2>3 DEF Lifecycle!Next, Lifecycle!Establish
  <2> QED BY <2>1, <2>2, <2>3, ShownOrBroken
<1>3. CASE OnHangup \/ OnWritable \/ OnReadable \/ OnReadableFailed
  <2>1. consecutive_missed' = consecutive_missed /\ state' \in {state, "kFailed"}
    BY <1>3 DEF OnHangup, OnWritable, OnReadable, OnReadableFailed
  <2> QED BY <2>1, ShownOrBroken
<1>4. CASE HandleConnectAck
  <2>1. CASE state = "kHandshaking" /\ Head(read_accum).feed_id = "own"
    <3>1. state' = "kHealthy" /\ consecutive_missed' = consecutive_missed
      BY <1>4, <2>1 DEF HandleConnectAck
    <3> QED BY <2>1, <3>1 DEF Lifecycle!Next, Lifecycle!Establish
  <2>2. CASE ~(state = "kHandshaking" /\ Head(read_accum).feed_id = "own")
    <3>1. consecutive_missed' = consecutive_missed /\ state' = "kFailed"
      BY <1>4, <2>2 DEF HandleConnectAck, DrainFailed
    <3> QED BY <3>1, ShownOrBroken
  <2> QED BY <2>1, <2>2
<1>5. CASE HandlePong
  <2> DEFINE m == Head(read_accum)
  <2>1. CASE state \notin Live
    <3>1. consecutive_missed' = consecutive_missed /\ state' = "kFailed"
      BY <1>5, <2>1 DEF HandlePong, DrainFailed
    <3> QED BY <3>1, ShownOrBroken
  <2>2. CASE state \in Live /\ Timely(m) /\ ~HasAckedSequence(m.sequence)
    <3>1. consecutive_missed' = 0 /\ state' = "kHealthy"
      BY <1>5, <2>2 DEF HandlePong, ProofOfLife, Live
    <3> QED BY <2>2, <3>1 DEF Live, Lifecycle!Next, Lifecycle!Heard, Lifecycle!Live
  <2>3. CASE state \in Live /\ ~(Timely(m) /\ ~HasAckedSequence(m.sequence))
    <3>1. consecutive_missed' = consecutive_missed /\ state' = state
      BY <1>5, <2>3 DEF HandlePong
    <3> QED BY <3>1, ShownOrBroken
  <2> QED BY <2>1, <2>2, <2>3
<1>6. CASE HandleDisconnect \/ HandleViolation \/ DrainDone
  <2>1. consecutive_missed' = consecutive_missed /\ state' \in {state, "kFailed"}
    BY <1>6 DEF HandleDisconnect, HandleViolation, DrainDone, DrainFailed
  <2> QED BY <2>1, ShownOrBroken
<1>7. CASE TickPing \/ TickNoPing \/ TickFailed \/ CheckOpening \/ CheckSilent
  <2>1. consecutive_missed' = consecutive_missed /\ state' \in {state, "kFailed"}
    BY <1>7 DEF TickPing, TickNoPing, TickFailed, CheckOpening, CheckSilent, CheckFailed
  <2> QED BY <2>1, ShownOrBroken
<1>8. CASE Rebind
  <2>1. state = "kFailed" /\ state' = "kConnecting" /\ consecutive_missed' = 0
    BY <1>8 DEF Rebind
  <2> QED BY <2>1 DEF Lifecycle!Next, Lifecycle!Reopen
<1>9. CASE CheckLive
  <2>1. state \in Live
    BY <1>9 DEF CheckLive
  <2>2. CASE Missed
    <3>1. consecutive_missed' = consecutive_missed + 1
      BY <1>9, <2>2 DEF CheckLive
    <3>2. state' = IF LimitReached THEN "kFailed" ELSE "kDegraded"
      BY <1>9, <2>2 DEF CheckLive, CheckFailed
    <3>3. LimitReached <=> ~(consecutive_missed + 1 < MaxMissedHeartbeats)
      BY LimitAssumption DEF LimitReached, TypeOK, TypeState
    <3> QED BY <2>1, <3>1, <3>2, <3>3 DEF Live, Lifecycle!Next, Lifecycle!Miss, Lifecycle!Live
  <2>3. CASE ~Missed
    <3>1. consecutive_missed' = consecutive_missed /\ state' = state
      BY <1>9, <2>3 DEF CheckLive
    <3> QED BY <3>1, ShownOrBroken
  <2> QED BY <2>2, <2>3
<1>10. CASE Operator
  <2>1. consecutive_missed' = consecutive_missed /\ state' \in {state, "kFailed"}
    BY <1>10 DEF Operator, SetHeartbeatTimeout, SetHeartbeatInterval, ForceDisconnect,
       ForceReconnect
  <2> QED BY <2>1, ShownOrBroken
<1>11. CASE UNCHANGED vars
  <2>1. UNCHANGED <<state, consecutive_missed>>
    BY <1>11 DEF vars
  <2> QED BY <2>1, ShownOrBroken
<1> QED
  BY <1>1, <1>2, <1>3, <1>4, <1>5, <1>6, <1>7, <1>8, <1>9, <1>10, <1>11
  DEF Next, Events, Messages, Tick

\* The state and the miss count a connection shows move only as FeedLifecycle
\* allows, whatever the batches, the peer and the operator do.
THEOREM LifecycleImplemented == Spec => ImplementsLifecycle
<1>1. Init => Lifecycle!Init
  BY DEF Init, Lifecycle!Init
<1> QED
  BY <1>1, TypeCorrect, LifecycleStep, PTL DEF Spec, ImplementsLifecycle, Lifecycle!Spec

-----------------------------------------------------------------------------
(* The ring of acked sequences                                             *)

\* The place in ack_log of the PONG that cell i of the ring holds: the cells
\* before the cursor were written in the current round, the others one round
\* earlier.
LogIndex(i) ==
  IF i < acked_next
  THEN Len(ack_log) - acked_next + i + 1
  ELSE Len(ack_log) - acked_next + i + 1 - AckedWindow

\* The ring is filling or full, and each cell in use holds the PONG whose turn
\* it was.
RingInv ==
  /\ Len(ack_log) < AckedWindow => acked_count = Len(ack_log) /\ acked_next = Len(ack_log)
  /\ Len(ack_log) >= AckedWindow => acked_count = AckedWindow
  /\ \A i \in 0 .. acked_count - 1 : acked_sequences[i] = ack_log[LogIndex(i)]

AckInv == RingInv /\ AckedOncePerWindow

\* The cursor's increment wraps at the end of the ring and nowhere else.
LEMMA CursorWraps ==
  ASSUME NEW x \in 0 .. AckedWindow - 1
  PROVE  (x + 1) % AckedWindow = IF x + 1 = AckedWindow THEN 0 ELSE x + 1
  BY LimitAssumption

\* Only a PONG not remembered yet and a rebind touch the ring.
LEMMA AckSteps ==
  ASSUME TypeOK, [Next]_vars
  PROVE  \/ UNCHANGED acks
         \/ ForgetAckedSequences
         \/ \E s \in Nat : ~HasAckedSequence(s) /\ RememberAckedSequence(s)
<1> USE DEF acks
<1>1. CASE HandlePong
  <2> DEFINE m == Head(read_accum)
  <2>1. m.sequence \in Nat
    <3>1. read_accum \in Seq(Message) /\ read_accum # <<>>
      BY <1>1 DEF HandlePong, Draining, TypeOK, TypeBuffers
    <3>2. m \in Message
      BY <3>1, HeadTailProperties
    <3> QED BY <3>2 DEF Message
  <2> QED BY <1>1, <2>1 DEF HandlePong, DrainFailed
<1>2. CASE Rebind
  BY <1>2 DEF Rebind
<1>3. CASE HandleConnectAck \/ HandleDisconnect \/ HandleViolation \/ DrainDone
  BY <1>3 DEF HandleConnectAck, HandleDisconnect, HandleViolation, DrainDone, DrainFailed
<1>4. CASE Environment \/ EpollWait \/ Events
  BY <1>4 DEF Environment, Advance, PeerAck, PeerPong, PeerForge, PeerSend, PeerClose, PeerReset,
     EpollWait, Events, OnHangup, OnConnected, OnWritable, OnReadable, OnReadableFailed
<1>5. CASE TickPing \/ TickNoPing \/ TickFailed \/ CheckOpening \/ CheckLive \/ CheckSilent
  BY <1>5 DEF TickPing, TickNoPing, TickFailed, CheckOpening, CheckLive, CheckSilent, CheckFrame
<1>6. CASE Operator \/ UNCHANGED vars
  BY <1>6 DEF Operator, SetHeartbeatTimeout, SetHeartbeatInterval, ForceDisconnect, ForceReconnect,
     Command, vars
<1> QED
  BY <1>1, <1>2, <1>3, <1>4, <1>5, <1>6 DEF Next, Messages, Tick

\* Before a PONG is remembered, the ring knows the last AckedWindow PONGs, so
\* one it does not know was not among them.
LEMMA RingKnows ==
  ASSUME TypeAcks, RingInv, NEW j \in 1 .. Len(ack_log), j > Len(ack_log) - AckedWindow
  PROVE  \E i \in 0 .. acked_count - 1 : LogIndex(i) = j
<1>0. /\ Len(ack_log) \in Nat /\ AckedWindow \in Nat \ {0}
      /\ acked_next \in 0 .. AckedWindow - 1 /\ acked_count \in 0 .. AckedWindow
  BY LimitAssumption, LenProperties DEF TypeAcks
<1>1. CASE j > Len(ack_log) - acked_next
  <2> DEFINE i == j - 1 - (Len(ack_log) - acked_next)
  <2>1. i \in 0 .. acked_count - 1 /\ i < acked_next
    BY <1>0, <1>1 DEF RingInv
  <2>2. LogIndex(i) = j
    BY <1>0, <2>1 DEF LogIndex
  <2> QED BY <2>1, <2>2
<1>2. CASE j <= Len(ack_log) - acked_next
  <2> DEFINE i == j - 1 - (Len(ack_log) - acked_next) + AckedWindow
  <2>1. i \in 0 .. acked_count - 1 /\ ~(i < acked_next)
    BY <1>0, <1>2 DEF RingInv
  <2>2. LogIndex(i) = j
    BY <1>0, <2>1 DEF LogIndex
  <2> QED BY <2>1, <2>2
<1> QED BY <1>0, <1>1, <1>2

\* Every cell in use points into the last AckedWindow entries of the log.
LEMMA RingPoints ==
  ASSUME TypeAcks, RingInv, NEW i \in 0 .. acked_count - 1
  PROVE  LogIndex(i) \in 1 .. Len(ack_log) /\ LogIndex(i) > Len(ack_log) - AckedWindow
<1>0. /\ Len(ack_log) \in Nat /\ AckedWindow \in Nat \ {0}
      /\ acked_next \in 0 .. AckedWindow - 1 /\ acked_count \in 0 .. AckedWindow
  BY LimitAssumption, LenProperties DEF TypeAcks
<1> QED BY <1>0 DEF RingInv, LogIndex

\* The ring and the log agree initially and after every step.
LEMMA AckStep == TypeOK /\ AckInv /\ [Next]_vars => AckInv'
<1> SUFFICES ASSUME TypeOK, AckInv, [Next]_vars PROVE AckInv'
  OBVIOUS
<1>t. ack_log \in Seq(Nat) /\ acked_sequences \in [0 .. AckedWindow - 1 -> Nat]
  BY DEF TypeOK, TypeAcks
<1>0. /\ Len(ack_log) \in Nat /\ AckedWindow \in Nat /\ AckedWindow > 0
      /\ acked_next \in 0 .. AckedWindow - 1 /\ acked_count \in 0 .. AckedWindow
  BY <1>t, LimitAssumption, LenProperties DEF TypeOK, TypeAcks
<1>1. CASE UNCHANGED acks
  BY <1>1 DEF acks, AckInv, RingInv, LogIndex, AckedOncePerWindow
<1>2. CASE ForgetAckedSequences
  BY <1>t, <1>0, <1>2 DEF ForgetAckedSequences, AckInv, RingInv, LogIndex, AckedOncePerWindow
<1>3. ASSUME NEW s \in Nat, ~HasAckedSequence(s), RememberAckedSequence(s)
      PROVE  AckInv'
  <2>0. Len(ack_log') = Len(ack_log) + 1
    BY <1>t, <1>3, AppendProperties DEF RememberAckedSequence
  <2>1. /\ \A j \in 1 .. Len(ack_log) : ack_log'[j] = ack_log[j]
        /\ ack_log'[Len(ack_log) + 1] = s
    BY <1>t, <1>3, AppendProperties DEF RememberAckedSequence
  <2>2. acked_next' = IF acked_next + 1 = AckedWindow THEN 0 ELSE acked_next + 1
    BY <1>0, <1>3, CursorWraps DEF RememberAckedSequence
  <2>3. acked_count' = IF acked_count < AckedWindow THEN acked_count + 1 ELSE acked_count
    BY <1>3 DEF RememberAckedSequence
  <2>4. /\ acked_sequences'[acked_next] = s
        /\ \A i \in 0 .. AckedWindow - 1 : i # acked_next => acked_sequences'[i] = acked_sequences[i]
    BY <1>t, <1>0, <1>3 DEF RememberAckedSequence
  <2>5. /\ Len(ack_log') < AckedWindow => acked_count' = Len(ack_log') /\ acked_next' = Len(ack_log')
        /\ Len(ack_log') >= AckedWindow => acked_count' = AckedWindow
    BY <1>0, <2>0, <2>2, <2>3 DEF AckInv, RingInv
  <2>6. ASSUME NEW i \in 0 .. acked_count' - 1
        PROVE  acked_sequences'[i] = ack_log'[LogIndex(i)']
    <3>1. CASE i = acked_next
      <4>1. LogIndex(i)' = Len(ack_log) + 1
        BY <1>0, <2>0, <2>2, <3>1 DEF LogIndex
      <4> QED BY <2>1, <2>4, <3>1, <4>1
    <3>2. CASE i # acked_next
      <4>1. i \in 0 .. acked_count - 1
        BY <1>0, <2>3, <3>2 DEF AckInv, RingInv
      <4>2. LogIndex(i)' = LogIndex(i)
        <5>1. CASE acked_next + 1 = AckedWindow
          <6>1. i < acked_next /\ acked_next' = 0
            BY <1>0, <2>2, <3>2, <4>1, <5>1
          <6>2. LogIndex(i)' = (Len(ack_log) + 1) - 0 + i + 1 - AckedWindow
            BY <1>0, <2>0, <4>1, <6>1 DEF LogIndex
          <6>3. LogIndex(i) = Len(ack_log) - acked_next + i + 1
            BY <6>1 DEF LogIndex
          <6> QED BY <1>0, <4>1, <5>1, <6>2, <6>3
        <5>2. CASE acked_next + 1 # AckedWindow
          <6>1. acked_next' = acked_next + 1 /\ (i < acked_next' <=> i < acked_next)
            BY <1>0, <2>2, <3>2, <4>1, <5>2
          <6> QED BY <1>0, <2>0, <4>1, <6>1 DEF LogIndex
        <5> QED BY <5>1, <5>2
      <4>3. LogIndex(i) \in 1 .. Len(ack_log)
        BY <4>1, RingPoints DEF TypeOK, AckInv
      <4>4. acked_sequences[i] = ack_log[LogIndex(i)]
        BY <4>1 DEF AckInv, RingInv
      <4>5. acked_sequences'[i] = acked_sequences[i]
        BY <1>0, <2>4, <3>2, <4>1
      <4> QED BY <2>1, <4>2, <4>3, <4>4, <4>5
    <3> QED BY <3>1, <3>2
  <2>7. \A j \in 1 .. Len(ack_log) : j > Len(ack_log) - AckedWindow => ack_log[j] # s
    BY <1>3, RingKnows DEF HasAckedSequence, TypeOK, AckInv, RingInv
  <2>8. AckedOncePerWindow'
    <3> SUFFICES ASSUME NEW i \in 1 .. Len(ack_log) + 1, NEW j \in 1 .. Len(ack_log) + 1,
                        i < j, ack_log'[i] = ack_log'[j]
                 PROVE  j - i > AckedWindow
      BY <2>0 DEF AckedOncePerWindow
    <3>1. CASE j = Len(ack_log) + 1
      <4>1. i \in 1 .. Len(ack_log)
        BY <1>0, <3>1
      <4>2. ~(i > Len(ack_log) - AckedWindow)
        BY <2>1, <2>7, <3>1, <4>1
      <4> QED BY <1>0, <3>1, <4>1, <4>2
    <3>2. CASE j <= Len(ack_log)
      <4>1. i \in 1 .. Len(ack_log) /\ j \in 1 .. Len(ack_log)
        BY <1>0, <3>2
      <4> QED BY <2>1, <4>1 DEF AckInv, AckedOncePerWindow
    <3> QED BY <1>0, <3>1, <3>2
  <2> QED BY <2>5, <2>6, <2>8 DEF AckInv, RingInv
<1> QED BY <1>1, <1>2, <1>3, AckSteps

\* The ring and the log agree in every reachable state.
THEOREM AckCorrect == Spec => []AckInv
<1>1. Init => AckInv
  BY LimitAssumption DEF Init, AckInv, RingInv, AckedOncePerWindow
<1> QED BY <1>1, TypeCorrect, AckStep, PTL DEF Spec

\* No PONG counts twice within AckedWindow of them.
THEOREM AckedOnceCorrect == Spec => []AckedOncePerWindow
<1>1. AckInv => AckedOncePerWindow
  BY DEF AckInv
<1> QED BY <1>1, AckCorrect, PTL

\* The ring holds exactly the last AckedWindow PONGs of this connection.
THEOREM AckMemoryCorrect == Spec => []AckMemoryExact
<1>1. TypeOK /\ AckInv => AckMemoryExact
  <2> SUFFICES ASSUME TypeOK, AckInv PROVE AckMemoryExact
    OBVIOUS
  <2> DEFINE kept == {ack_log[i] : i \in {j \in 1 .. Len(ack_log) : j > Len(ack_log) - AckedWindow}}
  <2>1. acked_count - 1 <= AckedWindow - 1 /\ acked_count \in Nat /\ AckedWindow \in Nat
    BY LimitAssumption DEF TypeOK, TypeAcks
  <2>2. ASSUME NEW s, HasAckedSequence(s) PROVE s \in kept
    BY <2>2, RingPoints DEF HasAckedSequence, TypeOK, AckInv, RingInv
  <2>3. ASSUME NEW s \in kept
        PROVE  HasAckedSequence(s) /\ s \in {acked_sequences[i] : i \in 0 .. AckedWindow - 1}
    <3>1. PICK j \in 1 .. Len(ack_log) : j > Len(ack_log) - AckedWindow /\ s = ack_log[j]
      BY <2>3
    <3>2. PICK i \in 0 .. acked_count - 1 : LogIndex(i) = j
      BY <3>1, RingKnows DEF TypeOK, AckInv
    <3>3. acked_sequences[i] = s
      BY <3>1, <3>2 DEF AckInv, RingInv
    <3> QED BY <2>1, <3>2, <3>3 DEF HasAckedSequence
  <2> QED BY <2>2, <2>3 DEF AckMemoryExact
<1> QED BY <1>1, TypeCorrect, AckCorrect, PTL
=============================================================================
