------------------------------ MODULE WireProofs ------------------------------
(***************************************************************************)
(* Proofs about Wire, for every message size, buffer size and cap: the     *)
(* bounds of its buffers, that the receiver never loses its place, and     *)
(* that the byte stream implements Channel.                                *)
(***************************************************************************)
EXTENDS Wire, TLAPS, SequenceTheorems

-----------------------------------------------------------------------------
(* The inductive invariant                                                 *)

\* The place in the connection's stream of a byte that was not altered.
Place(b) == (b.msg - 1) * MessageSize + b.at

\* A buffer that continues the stream after its first off bytes; altered tells
\* whether a byte may have been altered.
Continues(s, off, altered) ==
  \A i \in 1 .. Len(s) :
    IF s[i].msg = 0 THEN altered ELSE Place(s[i]) = off + i

\* Bytes the receiver's handlers are through with.
Consumed == Len(received) * MessageSize

\* read_accum, socket and write_pending together are the rest of the stream,
\* the part not handled yet.  What a closed sender has not sent is lost.
StreamInv ==
  /\ Continues(read_accum, Consumed, garbled)
  /\ Continues(socket, Consumed + Len(read_accum), garbled)
  /\ Consumed + Len(read_accum) + Len(socket) <= sent * MessageSize
  /\ ~eof =>
       /\ Continues(write_pending, Consumed + Len(read_accum) + Len(socket), garbled)
       /\ Consumed + Len(read_accum) + Len(socket) + Len(write_pending) = sent * MessageSize

\* The caps: only a sender that has failed is over its cap, and only a receiver
\* that has failed is over its own.
CapInv ==
  /\ sender_up => Len(write_pending) <= MaxWritePending
  /\ pc # "idle" => Len(read_accum) <= MaxReadAccum
  /\ verdict # "none" => pc = "idle"
  /\ eof => ~sender_up

\* After a verdict nothing is read, so the stream matters no more.
OrderInv ==
  /\ Len(received) <= sent
  /\ NeverDesynced
  /\ verdict # "corrupt" => StreamInv

-----------------------------------------------------------------------------
(* Cutting and joining buffers                                             *)

\* The first n of a buffer's bytes, and the rest.
LEMMA Cut ==
  ASSUME NEW S, NEW s \in Seq(S), NEW n \in 0 .. Len(s)
  PROVE  /\ SubSeq(s, 1, n) \in Seq(S) /\ Len(SubSeq(s, 1, n)) = n
         /\ \A i \in 1 .. n : SubSeq(s, 1, n)[i] = s[i]
         /\ SubSeq(s, n + 1, Len(s)) \in Seq(S) /\ Len(SubSeq(s, n + 1, Len(s))) = Len(s) - n
         /\ \A i \in 1 .. Len(s) - n : SubSeq(s, n + 1, Len(s))[i] = s[n + i]
<1>0. Len(s) \in Nat /\ n \in Nat /\ n <= Len(s)
  BY LenProperties
<1>1. \A i \in 1 .. n : s[i] \in S
  BY <1>0, ElementOfSeq
<1>2. \A i \in n + 1 .. Len(s) : s[i] \in S
  BY <1>0, ElementOfSeq
<1>3. /\ SubSeq(s, 1, n) \in Seq(S)
      /\ Len(SubSeq(s, 1, n)) = IF 1 <= n THEN n - 1 + 1 ELSE 0
      /\ \A i \in 1 .. n - 1 + 1 : SubSeq(s, 1, n)[i] = s[1 + i - 1]
  BY <1>0, <1>1, SubSeqProperties
<1>4. /\ SubSeq(s, n + 1, Len(s)) \in Seq(S)
      /\ Len(SubSeq(s, n + 1, Len(s))) = IF n + 1 <= Len(s) THEN Len(s) - (n + 1) + 1 ELSE 0
      /\ \A i \in 1 .. Len(s) - (n + 1) + 1 : SubSeq(s, n + 1, Len(s))[i] = s[(n + 1) + i - 1]
  BY <1>0, <1>2, SubSeqProperties
<1>5. Len(SubSeq(s, 1, n)) = n /\ Len(SubSeq(s, n + 1, Len(s))) = Len(s) - n
  BY <1>0, <1>3, <1>4
<1>6. ASSUME NEW i \in 1 .. n PROVE SubSeq(s, 1, n)[i] = s[i]
  <2>1. i \in 1 .. n - 1 + 1 /\ 1 + i - 1 = i
    BY <1>0
  <2> QED BY <1>3, <2>1
<1>7. ASSUME NEW i \in 1 .. Len(s) - n PROVE SubSeq(s, n + 1, Len(s))[i] = s[n + i]
  <2>1. i \in 1 .. Len(s) - (n + 1) + 1 /\ (n + 1) + i - 1 = n + i
    BY <1>0
  <2> QED BY <1>4, <2>1
<1> QED BY <1>3, <1>4, <1>5, <1>6, <1>7

\* Both parts of a buffer continue the stream where they stand.
LEMMA CutContinues ==
  ASSUME NEW s \in Seq(Byte), NEW n \in 0 .. Len(s), NEW off \in Nat, NEW altered,
         Continues(s, off, altered)
  PROVE  /\ Continues(SubSeq(s, 1, n), off, altered)
         /\ Continues(SubSeq(s, n + 1, Len(s)), off + n, altered)
<1>0. Len(s) \in Nat /\ n \in Nat /\ n <= Len(s)
  BY LenProperties
<1> DEFINE a == SubSeq(s, 1, n)
           b == SubSeq(s, n + 1, Len(s))
<1>1. Len(a) = n /\ \A i \in 1 .. n : a[i] = s[i]
  BY Cut
<1>2. Len(b) = Len(s) - n /\ \A i \in 1 .. Len(s) - n : b[i] = s[n + i]
  BY Cut
<1> HIDE DEF a, b
<1>3. Continues(a, off, altered)
  <2> SUFFICES ASSUME NEW i \in 1 .. n
               PROVE  IF a[i].msg = 0 THEN altered ELSE Place(a[i]) = off + i
    BY <1>1 DEF Continues
  <2>1. i \in 1 .. Len(s) /\ a[i] = s[i]
    BY <1>0, <1>1
  <2> QED BY <2>1 DEF Continues
<1>4. Continues(b, off + n, altered)
  <2> SUFFICES ASSUME NEW i \in 1 .. Len(s) - n
               PROVE  IF b[i].msg = 0 THEN altered ELSE Place(b[i]) = (off + n) + i
    BY <1>2 DEF Continues
  <2>1. n + i \in 1 .. Len(s) /\ b[i] = s[n + i] /\ off + (n + i) = (off + n) + i
    BY <1>0, <1>2
  <2> QED BY <2>1 DEF Continues
<1> QED BY <1>3, <1>4 DEF a, b

\* A buffer joined to one that continues the stream after it.
LEMMA JoinContinues ==
  ASSUME NEW s \in Seq(Byte), NEW t \in Seq(Byte), NEW off \in Nat, NEW altered,
         Continues(s, off, altered), Continues(t, off + Len(s), altered)
  PROVE  Continues(s \o t, off, altered)
<1>0. Len(s) \in Nat /\ Len(t) \in Nat
  BY LenProperties
<1> DEFINE c == s \o t
<1>1. /\ Len(c) = Len(s) + Len(t)
      /\ \A i \in 1 .. Len(s) + Len(t) : c[i] = IF i <= Len(s) THEN s[i] ELSE t[i - Len(s)]
  BY ConcatProperties
<1> HIDE DEF c
<1>2. ASSUME NEW i \in 1 .. Len(s) + Len(t)
      PROVE  IF c[i].msg = 0 THEN altered ELSE Place(c[i]) = off + i
  <2>1. CASE i <= Len(s)
    <3>1. i \in 1 .. Len(s) /\ c[i] = s[i]
      BY <1>0, <1>1, <2>1
    <3> QED BY <3>1 DEF Continues
  <2>2. CASE ~(i <= Len(s))
    <3>1. i - Len(s) \in 1 .. Len(t) /\ c[i] = t[i - Len(s)] /\ (off + Len(s)) + (i - Len(s)) = off + i
      BY <1>0, <1>1, <2>2
    <3> QED BY <3>1 DEF Continues
  <2> QED BY <2>1, <2>2
<1>3. Continues(c, off, altered)
  BY <1>1, <1>2 DEF Continues
<1> QED BY <1>3 DEF c

\* An empty buffer continues any stream.
LEMMA EmptyContinues ==
  ASSUME NEW off, NEW altered
  PROVE  Continues(<<>>, off, altered)
  BY DEF Continues

-----------------------------------------------------------------------------
(* Messages                                                                *)

\* Message numbers and places in a message determine the place in the stream,
\* and are determined by it.
LEMMA PlaceUnique ==
  ASSUME NEW a \in Int, NEW b \in Int, NEW i \in 1 .. MessageSize, NEW j \in 1 .. MessageSize,
         a * MessageSize + i = b * MessageSize + j
  PROVE  a = b /\ i = j
<1>0. MessageSize \in Nat
  BY WireAssumption
<1>1. ASSUME NEW x \in Int, NEW y \in Int, x + 1 <= y
      PROVE  x * MessageSize + MessageSize <= y * MessageSize
  BY <1>0, <1>1
<1>2. a * MessageSize \in Int /\ b * MessageSize \in Int
  BY <1>0
<1>3. CASE a < b
  <2>1. a * MessageSize + MessageSize <= b * MessageSize
    BY <1>1, <1>3
  <2> QED BY <1>0, <1>2, <2>1
<1>4. CASE b < a
  <2>1. b * MessageSize + MessageSize <= a * MessageSize
    BY <1>1, <1>4
  <2> QED BY <1>0, <1>2, <2>1
<1>5. CASE a = b
  BY <1>0, <1>2, <1>5
<1> QED BY <1>3, <1>4, <1>5

\* As many messages fit into a stream as their bytes do.
LEMMA WholeMessages ==
  ASSUME NEW a \in Nat, NEW b \in Nat, a * MessageSize <= b * MessageSize
  PROVE  a <= b
<1>0. MessageSize \in Nat /\ MessageSize > 0
  BY WireAssumption
<1>1. CASE b + 1 <= a
  <2>1. b * MessageSize + MessageSize <= a * MessageSize
    BY <1>0, <1>1
  <2>2. a * MessageSize \in Int /\ b * MessageSize \in Int
    BY <1>0
  <2> QED BY <1>0, <2>1, <2>2
<1> QED BY <1>1

\* An encoded message is MessageSize bytes that continue the stream after the
\* messages before it.
LEMMA EncodeType ==
  ASSUME NEW m \in 1 .. MaxSent
  PROVE  /\ Encode(m) \in Seq(Byte) /\ Len(Encode(m)) = MessageSize
         /\ \A i \in 1 .. MessageSize : Encode(m)[i] = [msg |-> m, at |-> i]
<1>0. MessageSize \in Nat /\ MaxSent \in Nat
  BY WireAssumption
<1>1. Encode(m) \in [1 .. MessageSize -> Byte]
  BY <1>0 DEF Encode, Byte
<1>2. Encode(m) \in Seq(Byte)
  BY <1>0, <1>1, SeqDef
<1>3. Len(Encode(m)) = MessageSize
  BY <1>0 DEF Encode
<1> QED BY <1>2, <1>3 DEF Encode

\* An encoded message continues the stream after the messages before it.
LEMMA EncodeContinues ==
  ASSUME NEW m \in 1 .. MaxSent, NEW altered
  PROVE  Continues(Encode(m), (m - 1) * MessageSize, altered)
<1>0. MaxSent \in Nat
  BY WireAssumption
<1> DEFINE e == Encode(m)
<1>1. Len(e) = MessageSize /\ \A i \in 1 .. MessageSize : e[i] = [msg |-> m, at |-> i]
  BY EncodeType
<1> HIDE DEF e
<1>2. ASSUME NEW i \in 1 .. Len(e)
      PROVE  e[i].msg # 0 /\ Place(e[i]) = (m - 1) * MessageSize + i
  <2>1. e[i] = [msg |-> m, at |-> i]
    BY <1>1, <1>2
  <2>2. e[i].msg = m /\ e[i].at = i /\ m # 0
    BY <1>0, <2>1
  <2> QED BY <2>2 DEF Place
<1>3. Continues(e, (m - 1) * MessageSize, altered)
  BY <1>2 DEF Continues
<1> QED BY <1>3 DEF e

\* What decodes at the receiver's place in the stream is the next message.
LEMMA DecodesNext ==
  ASSUME NEW bytes \in Seq(Byte), Len(bytes) = MessageSize, NEW k \in Nat, NEW altered,
         Continues(bytes, k * MessageSize, altered), NEW m \in 1 .. MaxSent, bytes = Encode(m)
  PROVE  m = k + 1 /\ bytes[1].msg = m
<1>0. MessageSize \in Nat /\ MessageSize > 0 /\ MaxSent \in Nat
  BY WireAssumption
<1>1. 1 \in 1 .. Len(bytes) /\ 1 \in 1 .. MessageSize
  BY <1>0
<1>2. bytes[1] = [msg |-> m, at |-> 1]
  BY <1>1, EncodeType
<1>3. bytes[1].msg = m /\ bytes[1].at = 1 /\ m # 0
  BY <1>0, <1>2
<1>4. (m - 1) * MessageSize + 1 = k * MessageSize + 1
  BY <1>1, <1>3 DEF Continues, Place
<1>5. m - 1 = k
  BY <1>0, <1>1, <1>4, PlaceUnique
<1> QED BY <1>0, <1>3, <1>5

\* Bytes at the receiver's place decode unless one was altered.
LEMMA UnalteredDecodes ==
  ASSUME NEW bytes \in Seq(Byte), Len(bytes) = MessageSize, NEW k \in Nat, k + 1 \in 1 .. MaxSent,
         Continues(bytes, k * MessageSize, FALSE)
  PROVE  Decodes(bytes)
<1>0. MessageSize \in Nat /\ MaxSent \in Nat
  BY WireAssumption
<1>1. ASSUME NEW i \in 1 .. MessageSize PROVE bytes[i] = Encode(k + 1)[i]
  <2>1. bytes[i] \in Byte /\ bytes[i].msg # 0 /\ Place(bytes[i]) = k * MessageSize + i
    BY ElementOfSeq DEF Continues
  <2>2. /\ bytes[i].msg - 1 \in Int /\ bytes[i].at \in 1 .. MessageSize
        /\ bytes[i] = [msg |-> bytes[i].msg, at |-> bytes[i].at]
    BY <1>0, <2>1 DEF Byte
  <2>3. (bytes[i].msg - 1) * MessageSize + bytes[i].at = k * MessageSize + i
    BY <2>1 DEF Place
  <2>4. bytes[i].msg - 1 = k /\ bytes[i].at = i
    BY <2>2, <2>3, PlaceUnique
  <2>5. bytes[i].msg \in Int
    BY <1>0, <2>1 DEF Byte
  <2>6. bytes[i].msg = k + 1
    BY <2>4, <2>5
  <2>7. Encode(k + 1)[i] = [msg |-> k + 1, at |-> i]
    BY EncodeType
  <2> QED BY <2>2, <2>4, <2>6, <2>7
<1>2. bytes = Encode(k + 1)
  BY <1>1, EncodeType, SeqEqual
<1> QED BY <1>2 DEF Decodes

-----------------------------------------------------------------------------
(* Types and caps                                                          *)

\* flush_write_buffer cuts what is pending where the socket is full.
LEMMA FlushCuts ==
  ASSUME TypeOK, NEW bytes \in Seq(Byte), FlushWriteBuffer(bytes)
  PROVE  \E n \in 0 .. Len(bytes) :
           /\ socket' = socket \o SubSeq(bytes, 1, n)
           /\ write_pending' = SubSeq(bytes, n + 1, Len(bytes))
           /\ socket' \in Seq(Byte) /\ Len(socket') = Len(socket) + n /\ Len(socket') <= SocketSize
           /\ write_pending' \in Seq(Byte) /\ Len(write_pending') = Len(bytes) - n
           /\ in_edge' \in BOOLEAN
<1> DEFINE n == Min2(Len(bytes), SocketSize - Len(socket))
<1>0. /\ Len(bytes) \in Nat /\ Len(socket) \in Nat /\ SocketSize \in Nat /\ Len(socket) <= SocketSize
      /\ socket \in Seq(Byte)
  BY WireAssumption, LenProperties DEF TypeOK
<1>1. n \in 0 .. Len(bytes) /\ Len(socket) + n <= SocketSize
  BY <1>0 DEF Min2
<1>2. /\ socket' = socket \o SubSeq(bytes, 1, n)
      /\ write_pending' = SubSeq(bytes, n + 1, Len(bytes))
      /\ in_edge' \in BOOLEAN
  BY DEF FlushWriteBuffer, TypeOK
<1> HIDE DEF n
<1>3. /\ SubSeq(bytes, 1, n) \in Seq(Byte) /\ Len(SubSeq(bytes, 1, n)) = n
      /\ write_pending' \in Seq(Byte) /\ Len(write_pending') = Len(bytes) - n
  BY <1>1, <1>2, Cut
<1>4. socket' \in Seq(Byte) /\ Len(socket') = Len(socket) + n
  BY <1>0, <1>2, <1>3, ConcatProperties
<1>5. Len(socket') <= SocketSize
  BY <1>1, <1>4
<1> QED BY <1>1, <1>2, <1>3, <1>4, <1>5

\* The buffers' part of TypeOK.
TypeBuffers ==
  /\ write_pending \in Seq(Byte) /\ Len(write_pending) <= MaxWritePending + MessageSize
  /\ socket \in Seq(Byte) /\ Len(socket) <= SocketSize
  /\ read_accum \in Seq(Byte) /\ Len(read_accum) <= MaxReadAccum + RecvSize
  /\ pc = "idle" /\ verdict # "overflow" => Len(read_accum) < MessageSize

\* The rest of TypeOK.
TypeFlags ==
  /\ pc \in {"idle", "recv", "drain", "last_drain"}
  /\ verdict \in {"none", "overflow", "corrupt", "peer_closed"}
  /\ sender_up \in BOOLEAN /\ armed \in BOOLEAN /\ eof \in BOOLEAN /\ out_edge \in BOOLEAN /\ in_edge \in BOOLEAN
  /\ sent \in 0 .. MaxSent /\ received \in Seq(1 .. MaxSent) /\ garbled \in BOOLEAN

\* TypeOK is its two parts.
LEMMA TypeParts == TypeOK <=> TypeBuffers /\ TypeFlags
  BY DEF TypeOK, TypeBuffers, TypeFlags

\* Every step keeps the types and the caps.
LEMMA WireTypeStep == TypeOK /\ CapInv /\ [Next]_vars => TypeOK' /\ CapInv'
<1> SUFFICES ASSUME TypeOK, CapInv, [Next]_vars PROVE TypeBuffers' /\ TypeFlags' /\ CapInv'
  BY TypeParts, PTL
<1>t. TypeBuffers /\ TypeFlags
  BY TypeParts
<1>0. /\ MessageSize \in Nat /\ MessageSize > 0 /\ SocketSize \in Nat /\ RecvSize \in Nat /\ RecvSize > 0
      /\ MaxWritePending \in Nat /\ MaxReadAccum \in Nat /\ MaxSent \in Nat
      /\ MessageSize <= MaxReadAccum
  BY WireAssumption
<1>1. Len(write_pending) \in Nat /\ Len(socket) \in Nat /\ Len(read_accum) \in Nat
  BY <1>t, LenProperties DEF TypeBuffers
<1>2. Len(<<>>) = 0 /\ <<>> \in Seq(Byte) /\ <<>> \in Seq(1 .. MaxSent)
  BY EmptySeq
<1> USE DEF sender, network, receiver
<1>3. CASE QueueWrite
  <2> DEFINE bytes == write_pending \o Encode(sent + 1)
  <2>1. /\ sender_up /\ sent < MaxSent /\ sent' = sent + 1
        /\ UNCHANGED <<eof, garbled, read_accum, pc, verdict, received>>
    BY <1>3 DEF QueueWrite
  <2>2. sent \in Nat /\ sent + 1 \in 1 .. MaxSent
    BY <1>0, <1>t, <2>1 DEF TypeFlags
  <2>3. bytes \in Seq(Byte) /\ Len(bytes) = Len(write_pending) + MessageSize
    BY <1>t, <2>2, EncodeType, ConcatProperties DEF TypeBuffers
  <2>4. Len(write_pending) <= MaxWritePending
    BY <2>1 DEF CapInv
  <2>5. armed' \in BOOLEAN /\ out_edge' \in BOOLEAN
    BY <1>3 DEF QueueWrite, SyncSender
  <2>6. CASE Len(bytes) > MaxWritePending
    <3>1. ~sender_up' /\ sender_up' \in BOOLEAN /\ write_pending' = bytes /\ UNCHANGED <<socket, in_edge>>
      BY <1>3, <2>1, <2>6 DEF QueueWrite
    <3> HIDE DEF bytes
    <3>2. write_pending' \in Seq(Byte) /\ Len(write_pending') <= MaxWritePending + MessageSize
      BY <1>0, <1>1, <2>3, <2>4, <3>1
    <3>3. TypeBuffers'
      BY <1>t, <2>1, <3>1, <3>2 DEF TypeBuffers
    <3> QED BY <1>t, <2>1, <2>2, <2>5, <3>1, <3>3 DEF TypeFlags, CapInv
  <2>7. CASE ~(Len(bytes) > MaxWritePending)
    <3>1. /\ write_pending' \in Seq(Byte) /\ Len(write_pending') <= MaxWritePending
          /\ socket' \in Seq(Byte) /\ Len(socket') <= SocketSize /\ in_edge' \in BOOLEAN
          /\ sender_up' = sender_up
      <4>1. CASE write_pending = <<>>
        <5>1. FlushWriteBuffer(bytes) /\ sender_up' = sender_up
          BY <1>3, <2>1, <2>7, <4>1 DEF QueueWrite
        <5>2. PICK n \in 0 .. Len(bytes) :
                /\ socket' \in Seq(Byte) /\ Len(socket') <= SocketSize
                /\ write_pending' \in Seq(Byte) /\ Len(write_pending') = Len(bytes) - n
                /\ in_edge' \in BOOLEAN
          BY <2>3, <5>1, FlushCuts
        <5> HIDE DEF bytes
        <5>3. Len(write_pending') <= MaxWritePending
          BY <1>0, <1>1, <2>3, <2>7, <5>2
        <5> QED BY <5>1, <5>2, <5>3
      <4>2. CASE write_pending # <<>>
        <5>1. write_pending' = bytes /\ UNCHANGED <<socket, in_edge, sender_up>>
          BY <1>3, <2>1, <2>7, <4>2 DEF QueueWrite
        <5> HIDE DEF bytes
        <5>2. Len(write_pending') <= MaxWritePending
          BY <1>0, <1>1, <2>3, <2>7, <5>1
        <5> QED BY <1>t, <2>3, <5>1, <5>2 DEF TypeBuffers, TypeFlags
      <4> QED BY <4>1, <4>2
    <3>2. Len(write_pending') <= MaxWritePending + MessageSize
      <4>1. Len(write_pending') \in Nat
        BY <3>1, LenProperties
      <4> QED BY <1>0, <3>1, <4>1
    <3>3. TypeBuffers'
      BY <1>t, <2>1, <3>1, <3>2 DEF TypeBuffers
    <3> QED BY <1>t, <2>1, <2>2, <2>5, <3>1, <3>3 DEF TypeFlags, CapInv
  <2> QED BY <2>6, <2>7
<1>4. CASE OnWritable
  <2>1. /\ FlushWriteBuffer(write_pending)
        /\ UNCHANGED <<sender_up, sent, eof, garbled, read_accum, pc, verdict, received>>
    BY <1>4 DEF OnWritable
  <2>2. armed' \in BOOLEAN /\ out_edge' \in BOOLEAN
    BY <1>4 DEF OnWritable, SyncSender
  <2>3. PICK n \in 0 .. Len(write_pending) :
          /\ socket' \in Seq(Byte) /\ Len(socket') <= SocketSize
          /\ write_pending' \in Seq(Byte) /\ Len(write_pending') = Len(write_pending) - n
          /\ in_edge' \in BOOLEAN
    BY <1>t, <2>1, FlushCuts DEF TypeBuffers
  <2>4. Len(write_pending') <= Len(write_pending) /\ Len(write_pending') \in Nat
    BY <1>1, <2>3
  <2>5. /\ Len(write_pending') <= MaxWritePending + MessageSize
        /\ sender_up => Len(write_pending') <= MaxWritePending
    BY <1>0, <1>1, <1>t, <2>4 DEF TypeBuffers, CapInv
  <2>6. TypeBuffers'
    BY <1>t, <2>1, <2>3, <2>5 DEF TypeBuffers
  <2> QED BY <1>t, <2>1, <2>2, <2>3, <2>5, <2>6 DEF TypeFlags, CapInv
<1>5. CASE SenderCloses
  <2>1. Len(socket') <= SocketSize /\ socket' \in Seq(Byte)
    <3>1. CASE socket' = socket
      BY <1>t, <3>1 DEF TypeBuffers
    <3>2. CASE socket' = <<>>
      BY <1>0, <1>2, <3>2
    <3> QED BY <1>5, <3>1, <3>2 DEF SenderCloses
  <2> QED BY <1>5, <1>t, <2>1 DEF SenderCloses, TypeBuffers, TypeFlags, CapInv
<1>6. CASE Garble
  <2>1. /\ garbled' = TRUE
        /\ UNCHANGED <<write_pending, sender_up, armed, sent, eof, out_edge, in_edge, read_accum, pc,
                       verdict, received>>
    BY <1>6 DEF Garble
  <2>2. PICK i \in DOMAIN socket : socket' = [socket EXCEPT ![i].msg = 0]
    BY <1>6 DEF Garble
  <2>3. i \in 1 .. Len(socket) /\ socket \in Seq(Byte)
    BY <1>t, <2>2, LenProperties DEF TypeBuffers
  <2>4. socket[i] \in Byte
    BY <2>3, ElementOfSeq
  <2> DEFINE e == [socket[i] EXCEPT !.msg = 0]
  <2>5. e \in Byte /\ socket' = [socket EXCEPT ![i] = e]
    BY <1>0, <2>2, <2>4 DEF Byte
  <2> HIDE DEF e
  <2>6. socket' \in Seq(Byte) /\ Len(socket') = Len(socket)
    BY <2>3, <2>5, ExceptSeq
  <2>7. TypeBuffers'
    BY <1>t, <2>1, <2>6 DEF TypeBuffers
  <2> QED BY <1>t, <2>1, <2>7 DEF TypeFlags, CapInv
<1>7. CASE OnReadable
  <2>1. Len(read_accum) <= MaxReadAccum
    BY <1>0, <1>1, <1>7, <1>t DEF OnReadable, TypeBuffers
  <2> QED BY <1>7, <1>t, <2>1 DEF OnReadable, TypeBuffers, TypeFlags, CapInv
<1>8. CASE Recv
  <2> DEFINE n == Min2(RecvSize, Len(socket))
  <2>1. /\ pc = "recv" /\ out_edge' \in BOOLEAN
        /\ read_accum' = read_accum \o SubSeq(socket, 1, n)
        /\ socket' = SubSeq(socket, n + 1, Len(socket))
        /\ UNCHANGED <<write_pending, sender_up, armed, sent, eof, in_edge, garbled, received>>
    BY <1>8, <1>t DEF Recv, TypeFlags
  <2>2. n \in 0 .. Len(socket) /\ n <= RecvSize
    BY <1>0, <1>1 DEF Min2
  <2>3. IF Len(read_accum') > MaxReadAccum
        THEN verdict' = "overflow" /\ pc' = "idle"
        ELSE UNCHANGED <<verdict, pc>>
    BY <1>8 DEF Recv
  <2> HIDE DEF n
  <2>4. /\ SubSeq(socket, 1, n) \in Seq(Byte) /\ Len(SubSeq(socket, 1, n)) = n
        /\ socket' \in Seq(Byte) /\ Len(socket') = Len(socket) - n
    BY <1>t, <2>1, <2>2, Cut DEF TypeBuffers
  <2>5. read_accum' \in Seq(Byte) /\ Len(read_accum') = Len(read_accum) + n
    BY <1>t, <2>1, <2>4, ConcatProperties DEF TypeBuffers
  <2>6. Len(read_accum) <= MaxReadAccum
    BY <2>1 DEF CapInv
  <2>7. Len(read_accum') <= MaxReadAccum + RecvSize /\ Len(socket') <= Len(socket)
    BY <1>0, <1>1, <2>2, <2>4, <2>5, <2>6
  <2>8. Len(socket') <= SocketSize
    BY <1>0, <1>1, <1>t, <2>2, <2>4 DEF TypeBuffers
  <2>9. TypeBuffers'
    BY <1>t, <2>1, <2>3, <2>4, <2>5, <2>7, <2>8 DEF TypeBuffers
  <2>10. CASE Len(read_accum') > MaxReadAccum
    BY <1>t, <2>1, <2>3, <2>9, <2>10 DEF TypeFlags, CapInv
  <2>11. CASE ~(Len(read_accum') > MaxReadAccum)
    <3>1. Len(read_accum') <= MaxReadAccum
      BY <1>0, <1>1, <2>2, <2>5, <2>11
    <3> QED BY <1>t, <2>1, <2>3, <2>9, <2>11, <3>1 DEF TypeFlags, CapInv
  <2> QED BY <2>10, <2>11
<1>9. CASE RecvEnd
  BY <1>9, <1>t DEF RecvEnd, TypeBuffers, TypeFlags, CapInv
<1>10. CASE DrainMessage
  <2> DEFINE bytes == SubSeq(read_accum, 1, MessageSize)
             rest == SubSeq(read_accum, MessageSize + 1, Len(read_accum))
  <2>1. /\ pc \in {"drain", "last_drain"} /\ Len(read_accum) >= MessageSize
        /\ UNCHANGED <<write_pending, sender_up, armed, sent, socket, eof, out_edge, in_edge, garbled>>
    BY <1>10 DEF DrainMessage, HasMessage
  <2>2. MessageSize \in 0 .. Len(read_accum)
    BY <1>0, <1>1, <2>1
  <2>3. rest \in Seq(Byte) /\ Len(rest) = Len(read_accum) - MessageSize
    BY <1>t, <2>2, Cut DEF TypeBuffers
  <2>4. CASE Decodes(bytes)
    <3>1. /\ received' = Append(received, bytes[1].msg) /\ read_accum' = rest
          /\ UNCHANGED <<pc, verdict>>
      BY <1>10, <2>4 DEF DrainMessage
    <3>2. bytes[1].msg \in 1 .. MaxSent
      <4>1. PICK m \in 1 .. MaxSent : bytes = Encode(m)
        BY <2>4 DEF Decodes
      <4>2. 1 \in 1 .. MessageSize
        BY <1>0
      <4>3. bytes[1] = [msg |-> m, at |-> 1]
        BY <4>1, <4>2, EncodeType
      <4> HIDE DEF bytes
      <4>4. bytes[1].msg = m
        BY <4>3
      <4> QED BY <4>4
    <3> HIDE DEF bytes, rest
    <3>3. received' \in Seq(1 .. MaxSent)
      BY <1>t, <3>1, <3>2, AppendProperties DEF TypeFlags
    <3>4. /\ Len(read_accum') <= MaxReadAccum + RecvSize /\ Len(read_accum') <= MaxReadAccum
          /\ read_accum' \in Seq(Byte)
      <4>1. Len(read_accum) <= MaxReadAccum
        BY <2>1 DEF CapInv
      <4>2. Len(rest) <= MaxReadAccum + RecvSize /\ Len(rest) <= MaxReadAccum
        BY <1>0, <1>1, <2>3, <4>1
      <4> QED BY <2>3, <3>1, <4>2
    <3>5. TypeBuffers'
      BY <1>t, <2>1, <3>1, <3>4 DEF TypeBuffers
    <3> QED BY <1>t, <2>1, <3>1, <3>3, <3>4, <3>5 DEF TypeFlags, CapInv
  <2>5. CASE ~Decodes(bytes)
    <3>1. verdict' = "corrupt" /\ pc' = "idle" /\ read_accum' = <<>> /\ received' = received
      BY <1>10, <2>5 DEF DrainMessage
    <3>2. TypeBuffers'
      BY <1>0, <1>2, <1>t, <2>1, <3>1 DEF TypeBuffers
    <3> QED BY <1>t, <2>1, <3>1, <3>2 DEF TypeFlags, CapInv
  <2> QED BY <2>4, <2>5
<1>11. CASE DrainDone
  <2>1. Len(read_accum) < MessageSize
    BY <1>0, <1>1, <1>11 DEF DrainDone, HasMessage
  <2>2. TypeBuffers'
    BY <1>11, <1>t, <2>1 DEF DrainDone, TypeBuffers
  <2> QED BY <1>11, <1>t, <2>2 DEF DrainDone, TypeFlags, CapInv
<1>12. CASE Rebind
  <2>1. TypeBuffers'
    BY <1>0, <1>2, <1>12, <1>t DEF Rebind, ClearBuffers, TypeBuffers
  <2>2. /\ pc' = "idle" /\ verdict' = "none" /\ sender_up' = TRUE /\ armed' = FALSE /\ eof' = FALSE
        /\ out_edge' = FALSE /\ in_edge' = FALSE /\ sent' = 0 /\ received' = <<>> /\ garbled' = FALSE
        /\ write_pending' = <<>>
    BY <1>12 DEF Rebind, ClearBuffers
  <2>3. sent' \in 0 .. MaxSent /\ Len(write_pending') <= MaxWritePending
    BY <1>0, <1>2, <2>2
  <2>4. TypeFlags'
    BY <1>2, <2>2, <2>3 DEF TypeFlags
  <2>5. CapInv'
    BY <2>2, <2>3 DEF CapInv
  <2> QED BY <2>1, <2>4, <2>5
<1>13. CASE UNCHANGED vars
  BY <1>13, <1>t DEF vars, TypeBuffers, TypeFlags, CapInv
<1> QED
  BY <1>3, <1>4, <1>5, <1>6, <1>7, <1>8, <1>9, <1>10, <1>11, <1>12, <1>13 DEF Next

\* The initial state is typed and within the caps.
LEMMA WireTypeInit == Init => TypeOK /\ CapInv
<1> SUFFICES ASSUME Init PROVE TypeBuffers /\ TypeFlags /\ CapInv
  BY TypeParts
<1>0. /\ MessageSize \in Nat /\ MessageSize > 0 /\ SocketSize \in Nat /\ RecvSize \in Nat
      /\ MaxWritePending \in Nat /\ MaxReadAccum \in Nat /\ MaxSent \in Nat
  BY WireAssumption
<1>1. Len(<<>>) = 0 /\ <<>> \in Seq(Byte) /\ <<>> \in Seq(1 .. MaxSent)
  BY EmptySeq
<1>2. 0 <= MaxWritePending + MessageSize /\ 0 <= MaxReadAccum + RecvSize /\ 0 \in 0 .. MaxSent
  BY <1>0
<1>3. TypeBuffers
  BY <1>0, <1>1, <1>2 DEF Init, TypeBuffers
<1>4. TypeFlags
  BY <1>1, <1>2 DEF Init, TypeFlags
<1>5. CapInv
  BY <1>0, <1>1 DEF Init, CapInv
<1> QED BY <1>3, <1>4, <1>5

\* The buffers stay within their caps and what one more call can add, and
\* between two events the receiver holds less than one message.
THEOREM WireTypeCorrect == Spec => []TypeOK
  BY WireTypeInit, WireTypeStep, PTL DEF Spec

-----------------------------------------------------------------------------
(* The receiver's place in the stream                                      *)

\* Flushing moves bytes from the buffer to the socket and keeps their order.
LEMMA FlushOrder ==
  ASSUME TypeOK, NEW bytes \in Seq(Byte), NEW off \in Nat, NEW altered, FlushWriteBuffer(bytes),
         Continues(socket, off, altered), Continues(bytes, off + Len(socket), altered)
  PROVE  /\ Continues(socket', off, altered)
         /\ Continues(write_pending', off + Len(socket'), altered)
         /\ Len(socket') + Len(write_pending') = Len(socket) + Len(bytes)
         /\ Len(socket') \in Nat /\ Len(write_pending') \in Nat
<1>0. Len(bytes) \in Nat /\ Len(socket) \in Nat /\ socket \in Seq(Byte) /\ off + Len(socket) \in Nat
  BY LenProperties DEF TypeOK
<1>1. PICK n \in 0 .. Len(bytes) :
        /\ socket' = socket \o SubSeq(bytes, 1, n)
        /\ write_pending' = SubSeq(bytes, n + 1, Len(bytes))
        /\ Len(socket') = Len(socket) + n
        /\ Len(write_pending') = Len(bytes) - n
  BY FlushCuts
<1>2. /\ Continues(SubSeq(bytes, 1, n), off + Len(socket), altered)
      /\ Continues(write_pending', (off + Len(socket)) + n, altered)
  BY <1>0, <1>1, CutContinues
<1>3. SubSeq(bytes, 1, n) \in Seq(Byte)
  BY Cut
<1>4. Continues(socket', off, altered)
  BY <1>0, <1>1, <1>2, <1>3, JoinContinues
<1>5. /\ (off + Len(socket)) + n = off + Len(socket')
      /\ Len(socket') + Len(write_pending') = Len(socket) + Len(bytes)
      /\ Len(socket') \in Nat /\ Len(write_pending') \in Nat
  <2>1. Len(socket') = Len(socket) + n /\ Len(write_pending') = Len(bytes) - n
    BY <1>1
  <2>2. Len(bytes) \in Nat /\ Len(socket) \in Nat
    BY <1>0
  <2> QED BY <2>1, <2>2
<1>6. Continues(write_pending', off + Len(socket'), altered)
  BY <1>2, <1>5
<1> QED BY <1>4, <1>5, <1>6

\* Altering a byte of a buffer keeps every other byte in its place.
LEMMA GarbleContinues ==
  ASSUME NEW s \in Seq(Byte), NEW off \in Nat, NEW altered, NEW i \in DOMAIN s,
         Continues(s, off, altered)
  PROVE  Continues([s EXCEPT ![i].msg = 0], off, TRUE)
<1> DEFINE e == [s[i] EXCEPT !.msg = 0]
           r == [s EXCEPT ![i] = e]
<1>1. i \in 1 .. Len(s)
  BY LenProperties
<1>2. s[i] \in Byte
  BY <1>1, ElementOfSeq
<1>3. e \in Byte /\ e.msg = 0
  <2>1. 0 \in 0 .. MaxSent
    BY WireAssumption
  <2> QED BY <1>2, <2>1 DEF Byte
<1> HIDE DEF e
<1>4. Len(r) = Len(s) /\ \A j \in 1 .. Len(s) : r[j] = IF j = i THEN e ELSE s[j]
  BY <1>1, <1>3, ExceptSeq
<1> HIDE DEF r
<1>5. Continues(r, off, TRUE)
  <2> SUFFICES ASSUME NEW j \in 1 .. Len(s)
               PROVE  r[j].msg = 0 \/ Place(r[j]) = off + j
    BY <1>4 DEF Continues
  <2>1. CASE j = i
    BY <1>3, <1>4, <2>1
  <2>2. CASE j # i
    BY <1>4, <2>2 DEF Continues
  <2> QED BY <2>1, <2>2
<1> QED BY <1>5 DEF r, e

\* A byte altered later does no harm to what is in place.
LEMMA AlteredContinues ==
  ASSUME NEW s, NEW off, NEW altered, Continues(s, off, altered)
  PROVE  Continues(s, off, TRUE)
  BY DEF Continues

\* Every step keeps the receiver's place.
LEMMA OrderStep == TypeOK /\ CapInv /\ OrderInv /\ [Next]_vars => OrderInv'
<1> SUFFICES ASSUME TypeOK, CapInv, OrderInv, [Next]_vars PROVE OrderInv'
  OBVIOUS
<1>0. MessageSize \in Nat /\ MessageSize > 0 /\ RecvSize \in Nat /\ MaxSent \in Nat
  BY WireAssumption
<1>1. /\ Len(write_pending) \in Nat /\ Len(socket) \in Nat /\ Len(read_accum) \in Nat
      /\ Len(received) \in Nat /\ sent \in Nat /\ sent <= MaxSent
  BY <1>0, LenProperties DEF TypeOK
<1>2. Consumed \in Nat /\ sent * MessageSize \in Nat
  BY <1>0, <1>1 DEF Consumed
<1>t. write_pending \in Seq(Byte) /\ socket \in Seq(Byte) /\ read_accum \in Seq(Byte)
  BY DEF TypeOK
<1>e. Len(<<>>) = 0
  OBVIOUS
<1> DEFINE off == Consumed + Len(read_accum)
<1>off. off \in Nat
  BY <1>1, <1>2
<1> USE DEF sender, network, receiver
<1>3. CASE QueueWrite
  <2> DEFINE e == Encode(sent + 1)
             bytes == write_pending \o e
  <2>1. /\ sender_up /\ sent < MaxSent /\ sent' = sent + 1 /\ ~eof
        /\ UNCHANGED <<eof, garbled, read_accum, pc, verdict, received>>
    BY <1>3 DEF QueueWrite, CapInv, TypeOK
  <2>2. sent + 1 \in 1 .. MaxSent /\ (sent + 1) - 1 = sent
    BY <1>0, <1>1, <2>1
  <2>3. e \in Seq(Byte) /\ Len(e) = MessageSize /\ Continues(e, sent * MessageSize, garbled)
    BY <2>2, EncodeType, EncodeContinues
  <2> HIDE DEF e
  <2>4. bytes \in Seq(Byte) /\ Len(bytes) = Len(write_pending) + MessageSize
    BY <1>t, <2>3, ConcatProperties
  <2>5. Len(received') <= sent' /\ NeverDesynced'
    BY <1>1, <2>1 DEF OrderInv, NeverDesynced
  <2>6. ASSUME verdict # "corrupt" PROVE StreamInv'
    <3>1. /\ Continues(write_pending, off + Len(socket), garbled)
          /\ Continues(socket, off, garbled) /\ Continues(read_accum, Consumed, garbled)
          /\ off + Len(socket) + Len(write_pending) = sent * MessageSize
      BY <2>1, <2>6 DEF OrderInv, StreamInv
    <3>2. (off + Len(socket)) + Len(write_pending) = sent * MessageSize /\ off + Len(socket) \in Nat
      BY <1>1, <1>off, <3>1
    <3> HIDE DEF off
    <3>3. Continues(bytes, off + Len(socket), garbled)
      BY <1>t, <2>3, <3>1, <3>2, JoinContinues
    <3>4. sent' * MessageSize = sent * MessageSize + MessageSize
      BY <1>0, <1>1, <2>1
    <3> HIDE DEF bytes
    <3>5. /\ Continues(socket', off, garbled)
          /\ Continues(write_pending', off + Len(socket'), garbled)
          /\ Len(socket') + Len(write_pending') = Len(socket) + Len(bytes)
          /\ Len(socket') \in Nat /\ Len(write_pending') \in Nat
      <4>1. CASE FlushWriteBuffer(bytes)
        BY <1>off, <2>4, <3>1, <3>3, <4>1, FlushOrder
      <4>2. CASE write_pending' = bytes /\ UNCHANGED socket
        <5>1. Len(bytes) \in Nat
          BY <2>4, LenProperties
        <5> QED BY <1>1, <3>1, <3>3, <4>2, <5>1
      <4> QED BY <1>3, <2>1, <4>1, <4>2 DEF QueueWrite, bytes, e
    <3>6. /\ off + Len(socket') + Len(write_pending') = sent' * MessageSize
          /\ off + Len(socket') <= sent' * MessageSize
      <4>1. /\ Len(socket') + Len(write_pending') = Len(socket) + Len(write_pending) + MessageSize
            /\ Len(socket') \in Nat /\ Len(write_pending') \in Nat
        BY <1>0, <1>1, <2>4, <3>5
      <4> QED BY <1>0, <1>1, <1>2, <1>off, <3>2, <3>4, <4>1
    <3>7. Consumed' = Consumed /\ Len(read_accum') = Len(read_accum)
      BY <2>1 DEF Consumed
    <3> QED BY <2>1, <3>1, <3>5, <3>6, <3>7 DEF StreamInv, off
  <2> QED BY <2>1, <2>5, <2>6 DEF OrderInv
<1>4. CASE OnWritable
  <2>1. /\ FlushWriteBuffer(write_pending) /\ ~eof
        /\ UNCHANGED <<sender_up, sent, eof, garbled, read_accum, pc, verdict, received>>
    BY <1>4 DEF OnWritable
  <2>2. ASSUME verdict # "corrupt" PROVE StreamInv'
    <3>1. /\ Continues(write_pending, off + Len(socket), garbled)
          /\ Continues(socket, off, garbled) /\ Continues(read_accum, Consumed, garbled)
          /\ off + Len(socket) + Len(write_pending) = sent * MessageSize
      BY <2>1, <2>2 DEF OrderInv, StreamInv
    <3>2. Consumed' = Consumed /\ Len(read_accum') = Len(read_accum)
      BY <2>1 DEF Consumed
    <3> HIDE DEF off
    <3>3. /\ Continues(socket', off, garbled)
          /\ Continues(write_pending', off + Len(socket'), garbled)
          /\ Len(socket') + Len(write_pending') = Len(socket) + Len(write_pending)
          /\ Len(socket') \in Nat /\ Len(write_pending') \in Nat
      BY <1>off, <1>t, <2>1, <3>1, FlushOrder
    <3>4. /\ off + Len(socket') + Len(write_pending') = sent * MessageSize
          /\ off + Len(socket') <= sent * MessageSize
      BY <1>1, <1>2, <1>off, <3>1, <3>3
    <3> QED BY <2>1, <3>1, <3>2, <3>3, <3>4 DEF StreamInv, off
  <2> QED BY <2>1, <2>2 DEF OrderInv, NeverDesynced
<1>5. CASE SenderCloses
  <2>1. /\ eof' = TRUE /\ socket' \in {socket, <<>>}
        /\ UNCHANGED <<write_pending, sent, garbled, read_accum, pc, verdict, received>>
    BY <1>5 DEF SenderCloses
  <2>2. ASSUME verdict # "corrupt" PROVE StreamInv'
    <3>1. /\ Continues(read_accum, Consumed, garbled) /\ Continues(socket, off, garbled)
          /\ off + Len(socket) <= sent * MessageSize
      BY <2>2 DEF OrderInv, StreamInv
    <3>2. Consumed' = Consumed /\ Len(read_accum') = Len(read_accum)
      BY <2>1 DEF Consumed
    <3> HIDE DEF off
    <3>3. Continues(socket', off, garbled) /\ off + Len(socket') <= sent * MessageSize
      <4>1. CASE socket' = socket
        BY <3>1, <4>1
      <4>2. CASE socket' = <<>>
        <5>1. Continues(socket', off, garbled)
          BY <4>2, EmptyContinues
        <5>2. Len(socket') = 0
          BY <4>2
        <5> QED BY <1>1, <1>2, <1>off, <3>1, <5>1, <5>2
      <4> QED BY <2>1, <4>1, <4>2
    <3> QED BY <2>1, <3>1, <3>2, <3>3 DEF StreamInv, off
  <2> QED BY <2>1, <2>2 DEF OrderInv, NeverDesynced
<1>6. CASE Garble
  <2>1. /\ garbled' = TRUE
        /\ UNCHANGED <<write_pending, sent, eof, read_accum, pc, verdict, received>>
    BY <1>6 DEF Garble
  <2>2. PICK i \in DOMAIN socket : socket' = [socket EXCEPT ![i].msg = 0]
    BY <1>6 DEF Garble
  <2>3. Len(socket') = Len(socket)
    BY <1>t, <2>2
  <2>4. ASSUME verdict # "corrupt" PROVE StreamInv'
    <3>1. StreamInv
      BY <2>4 DEF OrderInv
    <3>2. Continues(socket', off, TRUE)
      BY <1>off, <1>t, <2>2, <3>1, GarbleContinues DEF StreamInv
    <3>3. /\ Continues(read_accum, Consumed, TRUE)
          /\ ~eof => Continues(write_pending, off + Len(socket), TRUE)
      BY <3>1, AlteredContinues DEF StreamInv
    <3>4. Consumed' = Consumed
      BY <2>1 DEF Consumed
    <3> QED BY <2>1, <2>3, <3>1, <3>2, <3>3, <3>4 DEF StreamInv
  <2> QED BY <2>1, <2>4 DEF OrderInv, NeverDesynced
<1>7. CASE OnReadable \/ RecvEnd
  BY <1>7 DEF OnReadable, RecvEnd, OrderInv, NeverDesynced, StreamInv, Consumed
<1>8. CASE Recv
  <2> DEFINE n == Min2(RecvSize, Len(socket))
             a == SubSeq(socket, 1, n)
  <2>1. /\ pc = "recv" /\ read_accum' = read_accum \o a
        /\ socket' = SubSeq(socket, n + 1, Len(socket))
        /\ UNCHANGED <<write_pending, sent, eof, garbled, received>>
    BY <1>8 DEF Recv
  <2>2. n \in 0 .. Len(socket)
    BY <1>0, <1>1 DEF Min2
  <2>3. verdict = "none" /\ verdict' # "corrupt"
    BY <1>8, <2>1 DEF Recv, CapInv
  <2> HIDE DEF n
  <2>4. /\ a \in Seq(Byte) /\ Len(a) = n /\ Len(socket') = Len(socket) - n
        /\ socket' \in Seq(Byte)
    BY <1>t, <2>1, <2>2, Cut
  <2>5. StreamInv
    BY <2>3 DEF OrderInv
  <2>6. /\ Continues(a, off, garbled) /\ Continues(socket', off + n, garbled)
    BY <1>off, <1>t, <2>1, <2>2, <2>5, CutContinues DEF StreamInv
  <2> HIDE DEF a
  <2>7. Len(read_accum') = Len(read_accum) + n
    BY <1>t, <2>1, <2>4, ConcatProperties
  <2>8. Continues(read_accum', Consumed, garbled)
    BY <1>2, <1>t, <2>1, <2>4, <2>5, <2>6, JoinContinues DEF StreamInv
  <2>9. /\ off + n = Consumed + Len(read_accum')
        /\ Consumed + Len(read_accum') + Len(socket') = off + Len(socket)
    BY <1>1, <1>2, <2>2, <2>4, <2>7
  <2>10. Consumed' = Consumed
    BY <2>1 DEF Consumed
  <2>11. StreamInv'
    BY <2>1, <2>5, <2>6, <2>8, <2>9, <2>10 DEF StreamInv
  <2> QED BY <2>1, <2>3, <2>11 DEF OrderInv, NeverDesynced
<1>9. CASE DrainMessage
  <2> DEFINE bytes == SubSeq(read_accum, 1, MessageSize)
             rest == SubSeq(read_accum, MessageSize + 1, Len(read_accum))
             k == Len(received)
  <2>1. /\ pc # "idle" /\ Len(read_accum) >= MessageSize
        /\ UNCHANGED <<write_pending, sent, socket, eof, garbled>>
    BY <1>9 DEF DrainMessage, HasMessage
  <2>2. MessageSize \in 0 .. Len(read_accum)
    BY <1>0, <1>1, <2>1
  <2>3. StreamInv /\ verdict = "none"
    BY <2>1 DEF OrderInv, CapInv
  <2>4. /\ bytes \in Seq(Byte) /\ Len(bytes) = MessageSize
        /\ rest \in Seq(Byte) /\ Len(rest) = Len(read_accum) - MessageSize
    BY <1>t, <2>2, Cut
  <2>5. /\ Continues(bytes, Consumed, garbled) /\ Continues(rest, Consumed + MessageSize, garbled)
    BY <1>2, <1>t, <2>2, <2>3, CutContinues DEF StreamInv
  <2>6. (k + 1) * MessageSize = Consumed + MessageSize
    BY <1>0, <1>1 DEF Consumed
  <2>7. k + 1 <= sent
    <3>1. (k + 1) * MessageSize <= sent * MessageSize
      <4>1. Consumed + Len(read_accum) + Len(socket) <= sent * MessageSize
        BY <2>3 DEF StreamInv
      <4> QED BY <1>0, <1>1, <1>2, <2>1, <2>6, <4>1
    <3>2. k + 1 \in Nat
      BY <1>1
    <3> QED BY <1>1, <3>1, <3>2, WholeMessages
  <2>8. CASE Decodes(bytes)
    <3>1. /\ received' = Append(received, bytes[1].msg) /\ read_accum' = rest
          /\ UNCHANGED <<pc, verdict>>
      BY <1>9, <2>8 DEF DrainMessage
    <3> HIDE DEF bytes, rest
    <3>2. Len(received') = k + 1
      BY <3>1 DEF TypeOK
    <3>3. Consumed' = Consumed + MessageSize
      BY <2>6, <3>2 DEF Consumed
    <3>4. Consumed' + Len(read_accum') = off
      <4>1. Len(read_accum') = Len(read_accum) - MessageSize
        BY <2>4, <3>1
      <4> QED BY <1>0, <1>1, <1>2, <3>3, <4>1
    <3>5. StreamInv'
      BY <2>1, <2>3, <2>5, <3>1, <3>3, <3>4 DEF StreamInv
    <3> QED BY <2>1, <2>3, <2>7, <3>1, <3>2, <3>5 DEF OrderInv, NeverDesynced
  <2>9. CASE ~Decodes(bytes)
    <3>1. verdict' = "corrupt" /\ received' = received
      BY <1>9, <2>9 DEF DrainMessage
    <3>2. garbled
      <4>1. SUFFICES ASSUME ~garbled PROVE FALSE
        OBVIOUS
      <4>2. Continues(bytes, k * MessageSize, FALSE)
        BY <2>5, <4>1 DEF Continues, Consumed
      <4>3. k + 1 \in 1 .. MaxSent
        BY <1>0, <1>1, <2>7
      <4> QED BY <1>1, <2>4, <2>9, <4>2, <4>3, UnalteredDecodes
    <3> QED BY <2>1, <3>1, <3>2 DEF OrderInv, NeverDesynced
  <2> QED BY <2>8, <2>9
<1>10. CASE DrainDone
  <2>1. verdict' \in {"peer_closed", "none"} /\ verdict = "none"
    BY <1>10 DEF DrainDone, CapInv
  <2> QED BY <1>10, <2>1 DEF DrainDone, OrderInv, NeverDesynced, StreamInv, Consumed
<1>11. CASE Rebind
  <2>1. /\ read_accum' = <<>> /\ write_pending' = <<>> /\ socket' = <<>> /\ received' = <<>>
        /\ sent' = 0 /\ verdict' = "none"
    BY <1>11 DEF Rebind, ClearBuffers
  <2>2. /\ Len(read_accum') = 0 /\ Len(write_pending') = 0 /\ Len(socket') = 0 /\ Len(received') = 0
        /\ Consumed' = 0 /\ sent' * MessageSize = 0
    BY <1>0, <1>e, <2>1 DEF Consumed
  <2>3. StreamInv'
    BY <2>1, <2>2, EmptyContinues DEF StreamInv
  <2> QED BY <2>1, <2>2, <2>3 DEF OrderInv, NeverDesynced
<1>12. CASE UNCHANGED vars
  BY <1>12 DEF vars, OrderInv, NeverDesynced, StreamInv, Consumed
<1> QED
  BY <1>3, <1>4, <1>5, <1>6, <1>7, <1>8, <1>9, <1>10, <1>11, <1>12 DEF Next

\* A new connection has nothing in its buffers.
LEMMA OrderInit == Init => OrderInv
<1> SUFFICES ASSUME Init PROVE OrderInv
  OBVIOUS
<1>1. MessageSize \in Nat
  BY WireAssumption
<1>2. Len(<<>>) = 0
  OBVIOUS
<1>3. Consumed = 0 /\ sent * MessageSize = 0
  BY <1>1, <1>2 DEF Consumed, Init
<1>4. StreamInv
  BY <1>2, <1>3, EmptyContinues DEF Init, StreamInv
<1> QED BY <1>2, <1>4 DEF Init, OrderInv, NeverDesynced

\* The three buffers together are always the rest of the stream.
THEOREM WireCorrect == Spec => [](TypeOK /\ CapInv /\ OrderInv)
<1>1. Init => TypeOK /\ CapInv /\ OrderInv
  BY WireTypeInit, OrderInit
<1>2. TypeOK /\ CapInv /\ OrderInv /\ [Next]_vars => (TypeOK /\ CapInv /\ OrderInv)'
  BY WireTypeStep, OrderStep
<1> QED BY <1>1, <1>2, PTL DEF Spec

\* However sends and reads are cut, drain_read_buffer finds bytes that do not
\* decode only when a byte was altered on this very connection.
THEOREM NeverDesyncedCorrect == Spec => []NeverDesynced
<1>1. OrderInv => NeverDesynced
  BY DEF OrderInv
<1> QED BY <1>1, WireCorrect, PTL

-----------------------------------------------------------------------------
(* The byte stream implements Channel                                      *)

\* The messages under way when k of n messages have been handled.
Ahead(k, n) == [i \in 1 .. n - k |-> k + i]

\* Sending adds to the end of the messages under way.
LEMMA AheadSend ==
  ASSUME NEW k \in Nat, NEW n \in Nat, k <= n
  PROVE  Ahead(k, n + 1) = Append(Ahead(k, n), k + Len(Ahead(k, n)) + 1)
<1>0. n - k \in Nat /\ (n + 1) - k = (n - k) + 1 /\ k + (n - k) + 1 = n + 1
  OBVIOUS
<1> DEFINE a == Ahead(k, n)
           b == Ahead(k, n + 1)
<1>1. a \in Seq(Nat) /\ Len(a) = n - k /\ \A i \in 1 .. n - k : a[i] = k + i
  <2>1. a \in [1 .. n - k -> Nat]
    BY <1>0 DEF Ahead
  <2> QED BY <1>0, <2>1, SeqDef DEF Ahead
<1>2. b \in Seq(Nat) /\ Len(b) = (n - k) + 1 /\ \A i \in 1 .. (n - k) + 1 : b[i] = k + i
  <2>1. b \in [1 .. (n - k) + 1 -> Nat]
    BY <1>0 DEF Ahead
  <2> QED BY <1>0, <2>1, SeqDef DEF Ahead
<1> HIDE DEF a, b
<1> DEFINE c == Append(a, n + 1)
<1>3. /\ c \in Seq(Nat) /\ Len(c) = (n - k) + 1
      /\ \A i \in 1 .. Len(a) : c[i] = a[i]
      /\ c[(n - k) + 1] = n + 1
  BY <1>1, AppendProperties
<1> HIDE DEF c
<1>4. ASSUME NEW i \in 1 .. (n - k) + 1 PROVE b[i] = c[i]
  <2>1. CASE i <= n - k
    <3>1. i \in 1 .. n - k
      BY <1>0, <2>1
    <3> QED BY <1>1, <1>2, <1>3, <3>1
  <2>2. CASE i = (n - k) + 1
    <3>1. b[i] = k + i /\ k + i = n + 1
      BY <1>0, <1>2, <2>2
    <3> QED BY <1>3, <2>2, <3>1
  <2> QED BY <1>0, <2>1, <2>2
<1>5. b = c
  BY <1>2, <1>3, <1>4, SeqEqual
<1>6. c = Append(a, k + Len(a) + 1)
  BY <1>0, <1>1 DEF c
<1> QED BY <1>5, <1>6 DEF a, b

\* Handling a message takes the first of the messages under way.
LEMMA AheadReceive ==
  ASSUME NEW k \in Nat, NEW n \in Nat, k + 1 <= n
  PROVE  /\ Ahead(k, n) # <<>> /\ Head(Ahead(k, n)) = k + 1
         /\ Ahead(k + 1, n) = Tail(Ahead(k, n))
<1>0. n - k \in Nat /\ n - k >= 1 /\ n - (k + 1) = (n - k) - 1 /\ (n - k) - 1 \in Nat
  OBVIOUS
<1> DEFINE a == Ahead(k, n)
           b == Ahead(k + 1, n)
<1>1. a \in Seq(Nat) /\ Len(a) = n - k /\ \A i \in 1 .. n - k : a[i] = k + i
  <2>1. a \in [1 .. n - k -> Nat]
    BY <1>0 DEF Ahead
  <2> QED BY <1>0, <2>1, SeqDef DEF Ahead
<1>2. b \in Seq(Nat) /\ Len(b) = (n - k) - 1 /\ \A i \in 1 .. (n - k) - 1 : b[i] = (k + 1) + i
  <2>1. b \in [1 .. (n - k) - 1 -> Nat]
    BY <1>0 DEF Ahead
  <2> QED BY <1>0, <2>1, SeqDef DEF Ahead
<1> HIDE DEF a, b
<1>3. a # <<>>
  BY <1>0, <1>1
<1>4. Head(a) = k + 1
  <2>1. 1 \in 1 .. n - k /\ Head(a) = a[1]
    BY <1>0, <1>1, <1>3, HeadTailProperties
  <2> QED BY <1>1, <2>1
<1>5. /\ Tail(a) \in Seq(Nat) /\ Len(Tail(a)) = (n - k) - 1
      /\ \A i \in 1 .. (n - k) - 1 : Tail(a)[i] = a[i + 1]
  BY <1>0, <1>1, <1>3, HeadTailProperties
<1>6. ASSUME NEW i \in 1 .. (n - k) - 1 PROVE b[i] = Tail(a)[i]
  <2>1. i + 1 \in 1 .. n - k /\ k + (i + 1) = (k + 1) + i
    BY <1>0
  <2> QED BY <1>1, <1>2, <1>5, <2>1
<1>7. b = Tail(a)
  BY <1>2, <1>5, <1>6, SeqEqual
<1> QED BY <1>3, <1>4, <1>7 DEF a, b

\* Every step of the byte stream is a step of Channel or changes nothing of it.
LEMMA ChannelStep ==
  TypeOK /\ CapInv /\ OrderInv /\ [Next]_vars => [FIFO!Next]_(FIFO!vars)
<1> SUFFICES ASSUME TypeOK, CapInv, OrderInv, [Next]_vars PROVE [FIFO!Next]_(FIFO!vars)
  OBVIOUS
<1>0. MessageSize \in Nat /\ MessageSize > 0 /\ MaxSent \in Nat
  BY WireAssumption
<1>1. /\ Len(received) \in Nat /\ sent \in Nat /\ Len(received) <= sent /\ sent <= MaxSent
      /\ Len(read_accum) \in Nat /\ Len(socket) \in Nat
  BY <1>0, LenProperties DEF TypeOK, OrderInv
<1>q. /\ Ahead(Len(received), sent) = [i \in 1 .. sent - Len(received) |-> Len(received) + i]
      /\ Ahead(Len(received'), sent') = [i \in 1 .. sent' - Len(received') |-> Len(received') + i]
  BY DEF Ahead
<1> USE DEF sender, network, receiver
<1>2. ASSUME UNCHANGED <<sent, received, sender_up>> PROVE UNCHANGED FIFO!vars
  BY <1>2 DEF FIFO!vars
<1>3. CASE QueueWrite
  <2>1. sender_up /\ sender_up' \in BOOLEAN /\ sent' = sent + 1 /\ received' = received
    BY <1>3 DEF QueueWrite, TypeOK
  <2>2. Ahead(Len(received'), sent')
          = Append(Ahead(Len(received), sent), Len(received) + Len(Ahead(Len(received), sent)) + 1)
    BY <1>1, <2>1, AheadSend
  <2>3. FIFO!Send
    BY <1>q, <2>1, <2>2 DEF FIFO!Send
  <2> QED BY <2>3 DEF FIFO!Next
<1>4. CASE SenderCloses
  <2>1. sender_up' = FALSE /\ UNCHANGED <<sent, received>> /\ sender_up \in BOOLEAN
    BY <1>4 DEF SenderCloses, TypeOK
  <2>2. CASE sender_up
    <3>1. FIFO!Close
      BY <2>1, <2>2 DEF FIFO!Close
    <3> QED BY <3>1 DEF FIFO!Next
  <2>3. CASE ~sender_up
    BY <1>2, <2>1, <2>3
  <2> QED BY <2>2, <2>3
<1>5. CASE DrainMessage
  <2> DEFINE bytes == SubSeq(read_accum, 1, MessageSize)
             k == Len(received)
  <2>1. /\ pc # "idle" /\ Len(read_accum) >= MessageSize /\ UNCHANGED <<sender_up, sent>>
    BY <1>5 DEF DrainMessage, HasMessage
  <2>2. CASE Decodes(bytes)
    <3>1. received' = Append(received, bytes[1].msg)
      BY <1>5, <2>2 DEF DrainMessage
    <3>2. StreamInv
      BY <2>1 DEF OrderInv, CapInv
    <3>3. MessageSize \in 0 .. Len(read_accum) /\ read_accum \in Seq(Byte)
      BY <1>0, <1>1, <2>1 DEF TypeOK
    <3>4. bytes \in Seq(Byte) /\ Len(bytes) = MessageSize
      BY <3>3, Cut
    <3>5. Consumed \in Nat /\ sent * MessageSize \in Nat /\ (k + 1) * MessageSize = Consumed + MessageSize
      BY <1>0, <1>1 DEF Consumed
    <3>6. Continues(bytes, k * MessageSize, garbled)
      BY <3>2, <3>3, <3>5, CutContinues DEF StreamInv, Consumed
    <3>7. PICK m \in 1 .. MaxSent : bytes = Encode(m)
      BY <2>2 DEF Decodes
    <3> HIDE DEF bytes
    <3>8. bytes[1].msg = k + 1
      BY <1>1, <3>4, <3>6, <3>7, DecodesNext
    <3>9. k + 1 <= sent
      <4>1. Consumed + Len(read_accum) + Len(socket) <= sent * MessageSize
        BY <3>2 DEF StreamInv
      <4>2. (k + 1) * MessageSize <= sent * MessageSize
        BY <1>0, <1>1, <2>1, <3>5, <4>1
      <4>3. k + 1 \in Nat
        BY <1>1
      <4> QED BY <1>1, <4>2, <4>3, WholeMessages
    <3>10. Len(received') = k + 1
      BY <3>1 DEF TypeOK
    <3>11. /\ Ahead(k, sent) # <<>> /\ Head(Ahead(k, sent)) = k + 1
           /\ Ahead(Len(received'), sent') = Tail(Ahead(k, sent))
      BY <1>1, <2>1, <3>9, <3>10, AheadReceive
    <3>12. received' = Append(received, Head(Ahead(k, sent)))
      BY <3>1, <3>8, <3>11
    <3>13. FIFO!Receive
      BY <1>q, <2>1, <3>11, <3>12 DEF FIFO!Receive
    <3> QED BY <3>13 DEF FIFO!Next
  <2>3. CASE ~Decodes(bytes)
    <3>1. received' = received
      BY <1>5, <2>3 DEF DrainMessage
    <3> QED BY <1>2, <2>1, <3>1
  <2> QED BY <2>2, <2>3
<1>6. CASE Rebind
  <2>1. received' = <<>> /\ sent' = 0 /\ sender_up' = TRUE
    BY <1>6 DEF Rebind
  <2>2. sent' - Len(received') = 0
    <3>1. sent' = 0 /\ Len(received') = 0
      BY <2>1
    <3> QED BY <3>1
  <2>3. [i \in 1 .. sent' - Len(received') |-> Len(received') + i] = <<>>
    BY <2>2
  <2>4. FIFO!Reopen
    BY <2>1, <2>3 DEF FIFO!Reopen
  <2> QED BY <2>4 DEF FIFO!Next
<1>7. CASE OnWritable \/ Garble \/ OnReadable \/ Recv \/ RecvEnd \/ DrainDone
  <2>1. UNCHANGED <<sent, received, sender_up>>
    BY <1>7 DEF OnWritable, Garble, OnReadable, Recv, RecvEnd, DrainDone
  <2> QED BY <1>2, <2>1
<1>8. CASE UNCHANGED vars
  BY <1>2, <1>8 DEF vars
<1> QED
  BY <1>3, <1>4, <1>5, <1>6, <1>7, <1>8 DEF Next

\* A new byte stream is an empty Channel.
LEMMA ChannelInit == Init => FIFO!Init
<1> SUFFICES ASSUME Init PROVE FIFO!Init
  OBVIOUS
<1>1. sent - Len(received) = 0
  <2>1. sent = 0 /\ Len(received) = 0
    BY DEF Init
  <2> QED BY <2>1
<1>2. [i \in 1 .. sent - Len(received) |-> Len(received) + i] = <<>>
  BY <1>1
<1> QED BY <1>2 DEF Init, FIFO!Init

\* However sends and reads are cut, the handlers see every message of this
\* connection whole, once and in order, and none of an earlier connection or of
\* altered bytes.
THEOREM ChannelImplemented == Spec => ImplementsChannel
<1>1. Init => FIFO!Init
  BY ChannelInit
<1>2. TypeOK /\ CapInv /\ OrderInv /\ [Next]_vars => [FIFO!Next]_(FIFO!vars)
  BY ChannelStep
<1> QED BY <1>1, <1>2, WireCorrect, PTL DEF Spec, ImplementsChannel, FIFO!Spec
=============================================================================
