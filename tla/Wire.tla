--------------------------------- MODULE Wire ---------------------------------
(***************************************************************************)
(* One direction of a heartbeat connection, byte by byte: the sender's     *)
(* write_pending_, the socket, the receiver's read_accum_ (Connection has  *)
(* the same code for both roles).  Sends are cut where the socket is full, *)
(* reads where the buffer of recv ends, and a message may be spread over   *)
(* several of each.                                                        *)
(*                                                                         *)
(* A byte is the pair of the message's number on this connection and the   *)
(* byte's place in it.  Bytes that are not one message from its start do   *)
(* not decode: magic, version, type and CRC32 together.                    *)
(***************************************************************************)
EXTENDS Naturals, Sequences

CONSTANTS
  MessageSize,        \* kHeartbeatMessageSize, in the model's bytes
  SocketSize,         \* bytes the two kernels hold between send() and recv()
  RecvSize,           \* the buffer of one recv()
  MaxWritePending,    \* kMaxWritePendingBytes
  MaxReadAccum,       \* kMaxReadAccumBytes
  MaxSent             \* bound: messages sent on one connection

ASSUME WireAssumption ==
  /\ MessageSize \in Nat \ {0} /\ SocketSize \in Nat \ {0} /\ RecvSize \in Nat \ {0}
  /\ MaxWritePending \in Nat /\ MaxReadAccum \in Nat /\ MaxSent \in Nat
  /\ MessageSize <= MaxWritePending /\ MessageSize <= MaxReadAccum

VARIABLES
  write_pending, sender_up,
  socket, eof,                  \* the bytes under way; the sender's end is closed
  armed,                        \* the sender's descriptor is registered for EPOLLOUT
  out_edge, in_edge,            \* what epoll has to report to either end
  read_accum, pc,               \* the receiver is idle or inside on_readable
  verdict,                      \* "none", or why the receiver failed the connection
  sent, received, garbled       \* history: messages queued and handled; a byte was altered

sender == <<write_pending, sender_up, armed, sent>>
network == <<socket, eof, out_edge, in_edge, garbled>>
receiver == <<read_accum, pc, verdict, received>>
vars == <<sender, network, receiver>>

Byte == [msg : 0 .. MaxSent, at : 1 .. MessageSize]

-----------------------------------------------------------------------------
\* encode_heartbeat
Encode(m) == [i \in 1 .. MessageSize |-> [msg |-> m, at |-> i]]

BugCrcIgnored(bytes) == bytes[1].at = 1

\* decode_heartbeat; message 0 is a byte that was altered on the way.
Decodes(bytes) == \E m \in 1 .. MaxSent : bytes = Encode(m)

Min2(a, b) == IF a < b THEN a ELSE b

\* flush_write_buffer: the socket takes what fits, the rest waits for EPOLLOUT.
FlushWriteBuffer(bytes) ==
  LET n == Min2(Len(bytes), SocketSize - Len(socket)) IN
  /\ socket' = socket \o SubSeq(bytes, 1, n)
  /\ write_pending' = SubSeq(bytes, n + 1, Len(bytes))
  /\ in_edge' = (in_edge \/ n > 0)

BugNotSynced == UNCHANGED <<armed, out_edge>>

\* sync_epoll_interest at the sender.  EPOLL_CTL_MOD looks at the socket anew.
SyncSender ==
  /\ armed' = (write_pending' # <<>>)
  /\ out_edge' = (Len(socket') < SocketSize)

Init ==
  /\ write_pending = <<>> /\ sender_up = TRUE /\ armed = FALSE
  /\ socket = <<>> /\ eof = FALSE /\ out_edge = FALSE /\ in_edge = FALSE
  /\ read_accum = <<>> /\ pc = "idle" /\ verdict = "none"
  /\ sent = 0 /\ received = <<>> /\ garbled = FALSE

-----------------------------------------------------------------------------
(* The sender                                                              *)

\* queue_write and the caller's sync_epoll_interest: while bytes are waiting,
\* only EPOLLOUT flushes.
QueueWrite ==
  /\ sender_up /\ sent < MaxSent
  /\ sent' = sent + 1
  /\ LET bytes == write_pending \o Encode(sent') IN
     IF Len(bytes) > MaxWritePending
     THEN /\ sender_up' = FALSE
          /\ write_pending' = bytes
          /\ UNCHANGED <<socket, in_edge>>
     ELSE /\ UNCHANGED sender_up
          /\ IF write_pending = <<>>
             THEN FlushWriteBuffer(bytes)
             ELSE write_pending' = bytes /\ UNCHANGED <<socket, in_edge>>
  /\ SyncSender
  /\ UNCHANGED <<eof, garbled, receiver>>

\* on_writable.  A connection that failed over the cap is flushed all the same.
OnWritable ==
  /\ ~eof /\ armed /\ out_edge
  /\ FlushWriteBuffer(write_pending)
  /\ SyncSender
  /\ UNCHANGED <<sender_up, sent, eof, garbled, receiver>>

\* The sender's descriptor is closed, after a failure or for another reason; a
\* reset drops what is under way.
SenderCloses ==
  /\ ~eof /\ eof' = TRUE
  /\ sender_up' = FALSE
  /\ in_edge' = TRUE
  /\ socket' \in {socket, <<>>}
  /\ UNCHANGED <<write_pending, armed, sent, out_edge, garbled, receiver>>

-----------------------------------------------------------------------------
\* A byte is altered under way, at most once per connection.
Garble ==
  /\ ~garbled /\ garbled' = TRUE
  /\ \E i \in DOMAIN socket : socket' = [socket EXCEPT ![i].msg = 0]
  /\ UNCHANGED <<sender, eof, out_edge, in_edge, receiver>>

-----------------------------------------------------------------------------
(* The receiver                                                            *)

\* EPOLLIN, once for what has arrived since the last report
OnReadable ==
  /\ pc = "idle" /\ verdict = "none" /\ in_edge
  /\ in_edge' = FALSE
  /\ pc' = "recv"
  /\ UNCHANGED <<sender, socket, eof, out_edge, garbled, read_accum, verdict, received>>

\* One recv() of the loop: a full socket has room again, and over the cap the connection fails.
Recv ==
  /\ pc = "recv" /\ socket # <<>>
  /\ LET n == Min2(RecvSize, Len(socket)) IN
     /\ read_accum' = read_accum \o SubSeq(socket, 1, n)
     /\ socket' = SubSeq(socket, n + 1, Len(socket))
  /\ out_edge' = (out_edge \/ Len(socket) = SocketSize)
  /\ IF Len(read_accum') > MaxReadAccum
     THEN verdict' = "overflow" /\ pc' = "idle"
     ELSE UNCHANGED <<verdict, pc>>
  /\ UNCHANGED <<sender, eof, in_edge, garbled, received>>

\* EAGAIN, or the end of the stream
RecvEnd ==
  /\ pc = "recv" /\ socket = <<>>
  /\ pc' = IF eof THEN "last_drain" ELSE "drain"
  /\ UNCHANGED <<sender, network, read_accum, verdict, received>>

BugMoreThanOne == Len(read_accum) > MessageSize

HasMessage == Len(read_accum) >= MessageSize

\* drain_read_buffer: one message
DrainMessage ==
  /\ pc \in {"drain", "last_drain"} /\ HasMessage
  /\ LET bytes == SubSeq(read_accum, 1, MessageSize) IN
     IF Decodes(bytes)
     THEN /\ received' = Append(received, bytes[1].msg)
          /\ read_accum' = SubSeq(read_accum, MessageSize + 1, Len(read_accum))
          /\ UNCHANGED <<pc, verdict>>
     ELSE /\ verdict' = "corrupt" /\ pc' = "idle" /\ read_accum' = <<>>
          /\ UNCHANGED received
  /\ UNCHANGED <<sender, network>>

\* The rest of the buffer waits for its other half; EOF is acted on only now.
\* sync_epoll_interest follows, here too.
DrainDone ==
  /\ pc \in {"drain", "last_drain"} /\ ~HasMessage
  /\ verdict' = IF pc = "last_drain" THEN "peer_closed" ELSE "none"
  /\ pc' = "idle"
  /\ in_edge' = (in_edge \/ socket # <<>> \/ eof)
  /\ UNCHANGED <<sender, socket, eof, out_edge, garbled, read_accum, received>>

-----------------------------------------------------------------------------
BugReadAccumKept == UNCHANGED read_accum /\ write_pending' = <<>>

\* The two clears of rebind
ClearBuffers == read_accum' = <<>> /\ write_pending' = <<>>

\* rebind at one end and a new object at the other: a new socket.
Rebind ==
  /\ pc = "idle" /\ (~sender_up \/ verdict # "none")
  /\ ClearBuffers
  /\ sender_up' = TRUE /\ armed' = FALSE /\ verdict' = "none"
  /\ socket' = <<>> /\ eof' = FALSE /\ out_edge' = FALSE /\ in_edge' = FALSE
  /\ sent' = 0 /\ received' = <<>> /\ garbled' = FALSE
  /\ UNCHANGED pc

Next ==
  \/ QueueWrite \/ OnWritable \/ SenderCloses
  \/ Garble
  \/ OnReadable \/ Recv \/ RecvEnd \/ DrainMessage \/ DrainDone
  \/ Rebind

Spec == Init /\ [][Next]_vars

\* Both reactors keep running, and epoll reports what it has to report.
FairSpec ==
  Spec /\ WF_vars(OnWritable) /\ WF_vars(OnReadable) /\ WF_vars(Recv)
       /\ WF_vars(RecvEnd) /\ WF_vars(DrainMessage) /\ WF_vars(DrainDone)

-----------------------------------------------------------------------------
(* Properties                                                              *)

\* Both buffers stay within their cap and what one more call can add, and
\* between two events the receiver holds less than one message.
TypeOK ==
  /\ write_pending \in Seq(Byte) /\ Len(write_pending) <= MaxWritePending + MessageSize
  /\ socket \in Seq(Byte) /\ Len(socket) <= SocketSize
  /\ read_accum \in Seq(Byte) /\ Len(read_accum) <= MaxReadAccum + RecvSize
  /\ pc = "idle" /\ verdict # "overflow" => Len(read_accum) < MessageSize
  /\ pc \in {"idle", "recv", "drain", "last_drain"}
  /\ verdict \in {"none", "overflow", "corrupt", "peer_closed"}
  /\ sender_up \in BOOLEAN /\ armed \in BOOLEAN /\ eof \in BOOLEAN /\ out_edge \in BOOLEAN /\ in_edge \in BOOLEAN
  /\ sent \in 0 .. MaxSent /\ received \in Seq(1 .. MaxSent) /\ garbled \in BOOLEAN

FIFO == INSTANCE Channel WITH
  queue <- [i \in 1 .. sent - Len(received) |-> Len(received) + i],
  open <- sender_up

\* However sends and reads are cut, the handlers see every message of this
\* connection whole, once and in order, and none of an earlier connection or of
\* altered bytes.
ImplementsChannel == FIFO!Spec

\* The receiver never loses its place in the stream: it finds bytes that do not
\* decode only when a byte was altered on this very connection.
NeverDesynced == verdict = "corrupt" => garbled

\* Nothing is stranded in a buffer: as long as the connection lasts, a message
\* once queued is handled, although epoll reports an edge only once.
AllDelivered ==
  \A m \in 1 .. MaxSent :
    sent >= m /\ sender_up ~> Len(received) >= m \/ ~sender_up \/ verdict # "none"
=============================================================================
