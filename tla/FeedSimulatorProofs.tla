------------------------- MODULE FeedSimulatorProofs -------------------------
(***************************************************************************)
(* Proofs about FeedSimulator, for every number of clients, descriptors,   *)
(* faults, delays and bounds.                                              *)
(***************************************************************************)
EXTENDS FeedSimulator, TLAPS, SequenceTheorems, FiniteSetTheorems, WellFoundedInduction

-----------------------------------------------------------------------------
(* The inductive invariant                                                 *)

Up == {"open", "eof", "reset"}

\* Where the reactor is: the client of the event being handled is there, nothing
\* is left in the hands of a handler that has returned, and a tick that is over
\* has no replies to visit.
ReactorInv ==
  /\ pc \in {"drain", "finish"} <=> current # {}
  /\ \A e \in current : e.fd \in DOMAIN clients
  /\ \A e, d \in current : e = d
  /\ reading # <<>> => pc = "drain"
  /\ todo > 0 => pc = "replies"

\* A session waits in the backlog once or is one client's, and its socket is there.
SocketInv ==
  /\ \A f \in DOMAIN clients : link[clients[f].peer] \in Up
  /\ \A f, g \in DOMAIN clients : clients[f].peer = clients[g].peer => f = g
  /\ \A i \in 1 .. Len(backlog) : link[backlog[i]] \in Up
  /\ \A i, j \in 1 .. Len(backlog) : backlog[i] = backlog[j] => i = j
  /\ \A i \in 1 .. Len(backlog), f \in DOMAIN clients : backlog[i] # clients[f].peer

\* Only the client being handled may have bytes pending and EPOLLOUT not armed.
ArmedInv ==
  \A f \in DOMAIN clients :
    clients[f].write_pending # <<>> /\ ~clients[f].epollout => \E e \in current : e.fd = f

\* The sign of life check_timeout looks at is the last, no older than the batch
\* and one tick allow.
SignInv(c) ==
  /\ c.state = "kHandshaking" => c.last_liveness = 0
  /\ c.state = "kHealthy" => c.state_entered <= c.last_liveness /\ c.last_liveness <= batch_now
  /\ c.state # "kFailed" => tick_now - LastSign(c) < HeartbeatTimeout

\* The tick keeps up with the clock, and the batch's clock with the tick's.
TimeInv ==
  /\ tick_now <= now /\ batch_now <= now
  /\ now - tick_now <= TickGap /\ tick_now - batch_now <= TickGap
  /\ "timer" \in batch => tick_now <= batch_now
  /\ \A f \in DOMAIN clients : SignInv(clients[f])

\* TypeOK in parts.
TypeClock == now \in 0 .. MaxTime /\ batch_now \in 0 .. MaxTime /\ tick_now \in 0 .. MaxTime
TypeReactor ==
  /\ pc \in {"loop", "accept", "drain", "finish", "replies", "command"}
  /\ batch \subseteq {"timer", "listen", "command"} /\ events \subseteq Event
  /\ current \subseteq Event /\ Cardinality(current) <= 1
  /\ reading \in Seq(Message) /\ recv_end \in Up
TypeClients == DOMAIN clients \subseteq Fds /\ \A f \in DOMAIN clients : clients[f] \in Client
TypeReplies == pending_replies \in Seq(PendingReply) /\ todo \in 0 .. Len(pending_replies)
TypeSockets ==
  /\ dropping \in BOOLEAN /\ listen_edge \in BOOLEAN /\ backlog \in Seq(Sessions)
  /\ link \in [Sessions -> {"idle", "open", "eof", "reset", "gone"}]
  /\ inbox \in [Sessions -> Seq(Message)] /\ received \in [Sessions -> Seq(Message)]
  /\ sent \in [Sessions -> 0 .. MaxPings + 1]
Typed == TypeClock /\ TypeReactor /\ TypeClients /\ TypeReplies /\ TypeSockets

SimInv ==
  Typed /\ ReactorInv /\ SocketInv /\ DeferredReplyFindsAsker /\ ArmedInv /\ TimeInv

-----------------------------------------------------------------------------
(* The purge of the deferred replies                                       *)

\* A set of natural numbers that is not empty has a least member.
LEMMA LeastNat ==
  ASSUME NEW S, S \subseteq Nat, S # {}
  PROVE  \E m \in S : \A k \in S : m <= k
<1>1. PICK m \in S : \A k \in S : ~(<<k, m>> \in OpToRel(<, Nat))
  BY WFMin, NatLessThanWellFounded
<1>2. ASSUME NEW k \in S PROVE m <= k
  <2>1. m \in Nat /\ k \in Nat
    OBVIOUS
  <2>2. k < m => <<k, m>> \in OpToRel(<, Nat)
    BY <2>1 DEF OpToRel
  <2>3. ~(k < m)
    BY <1>1, <2>2
  <2> QED BY <2>1, <2>3
<1> QED BY <1>2

\* f[n] keeps those of the first n members of q that are not for one of fds.
KeepValue(f, q, fds, n) ==
  IF n = 0 THEN <<>> ELSE IF q[n].fd \in fds THEN f[n - 1] ELSE Append(f[n - 1], q[n])
Keeps(f, q, fds, n) == f = [i \in 0 .. n |-> KeepValue(f, q, fds, i)]

\* The purge is the last of them.
LEMMA PurgedDef ==
  ASSUME NEW fds
  PROVE  PurgedReplies(fds) =
           (CHOOSE f : Keeps(f, pending_replies, fds, Len(pending_replies)))[Len(pending_replies)]
  BY DEF PurgedReplies, Keeps, KeepValue

\* There is such an f for every n.
LEMMA KeepsExist == ASSUME NEW q, NEW fds PROVE \A n \in Nat : \E f : Keeps(f, q, fds, n)
<1> DEFINE Bad == {n \in Nat : ~ \E f : Keeps(f, q, fds, n)}
<1> SUFFICES ASSUME Bad # {} PROVE FALSE
  OBVIOUS
<1>1. PICK n \in Bad : \A k \in Bad : n <= k
  <2>1. Bad \subseteq Nat
    OBVIOUS
  <2> HIDE DEF Bad
  <2> QED BY <2>1, LeastNat
<1>2. n # 0
  <2> SUFFICES ASSUME n = 0 PROVE \E f : Keeps(f, q, fds, 0)
    BY <1>1
  <2> DEFINE f == [i \in 0 .. 0 |-> <<>>]
  <2>1. \A i \in 0 .. 0 : KeepValue(f, q, fds, i) = <<>>
    BY DEF KeepValue
  <2> HIDE DEF f
  <2>2. f = [i \in 0 .. 0 |-> KeepValue(f, q, fds, i)]
    BY <2>1 DEF f
  <2> QED BY <2>2 DEF Keeps
<1>3. n \in Nat /\ n - 1 \in Nat /\ ~(n <= n - 1)
  BY <1>2
<1>4. PICK f : Keeps(f, q, fds, n - 1)
  BY <1>1, <1>3
<1> DEFINE g == [i \in 0 .. n |-> IF i = n THEN KeepValue(f, q, fds, n) ELSE f[i]]
<1>5. \A i \in 0 .. n - 1 : f[i] = KeepValue(f, q, fds, i)
  <2> DEFINE K(i) == KeepValue(f, q, fds, i)
  <2>1. f = [i \in 0 .. n - 1 |-> K(i)]
    BY <1>4 DEF Keeps
  <2> HIDE DEF K
  <2>2. \A i \in 0 .. n - 1 : f[i] = K(i)
    BY <2>1
  <2> QED BY <2>2 DEF K
<1>6. \A i \in 0 .. n - 1 : g[i] = f[i]
  BY <1>3
<1>7. g[n] = KeepValue(f, q, fds, n)
  BY <1>3
<1>8. DOMAIN g = 0 .. n /\ g = [i \in 0 .. n |-> g[i]]
  OBVIOUS
<1> HIDE DEF g
<1>9. ASSUME NEW i \in 0 .. n PROVE KeepValue(g, q, fds, i) = KeepValue(f, q, fds, i)
  <2>1. i # 0 => i - 1 \in 0 .. n - 1
    BY <1>3
  <2>2. i # 0 => g[i - 1] = f[i - 1]
    BY <1>6, <2>1
  <2> QED BY <2>2, Zenon DEF KeepValue
<1>10. ASSUME NEW i \in 0 .. n PROVE g[i] = KeepValue(g, q, fds, i)
  <2>1. CASE i = n
    BY <1>7, <1>9, <2>1
  <2>2. CASE i # n
    <3>1. i \in 0 .. n - 1
      BY <1>3, <2>2
    <3> QED BY <1>5, <1>6, <1>9, <3>1
  <2> QED BY <2>1, <2>2
<1>11. Keeps(g, q, fds, n)
  BY <1>8, <1>10 DEF Keeps
<1> QED BY <1>1, <1>11

\* What is kept was there before, is for none of fds, and is in the same order.
KeptOf(r, q, fds, n) ==
  /\ \A i \in 1 .. Len(r) : \E j \in 1 .. n : r[i] = q[j] /\ q[j].fd \notin fds
  /\ \A i, k \in 1 .. Len(r) : i < k => \E j, l \in 1 .. n : j < l /\ r[i] = q[j] /\ r[k] = q[l]

\* One more reply is looked at.
LEMMA KeptNext ==
  ASSUME NEW S, NEW q \in Seq(S), NEW fds, NEW n \in 1 .. Len(q),
         NEW r \in Seq(S), KeptOf(r, q, fds, n - 1), NEW t,
         t = IF q[n].fd \in fds THEN r ELSE Append(r, q[n])
  PROVE  t \in Seq(S) /\ KeptOf(t, q, fds, n)
<1>1. n \in Nat /\ n # 0 /\ \A j \in 1 .. n - 1 : j \in 1 .. n /\ j < n
  BY LenProperties
<1>2. CASE q[n].fd \in fds
  BY <1>1, <1>2 DEF KeptOf
<1>3. CASE q[n].fd \notin fds
  <2> DEFINE m == Len(r)
  <2>1. q[n] \in S /\ m \in Nat /\ t = Append(r, q[n])
    BY <1>3, ElementOfSeq, LenProperties
  <2>2. t \in Seq(S) /\ Len(t) = m + 1 /\ t[m + 1] = q[n] /\ \A i \in 1 .. m : t[i] = r[i]
    BY <2>1, AppendProperties
  <2>3. n \in 1 .. n
    BY <1>1
  <2>4. /\ \A i \in 1 .. m : \E j \in 1 .. n - 1 : r[i] = q[j] /\ q[j].fd \notin fds
        /\ \A i, k \in 1 .. m : i < k =>
             \E j, l \in 1 .. n - 1 : j < l /\ r[i] = q[j] /\ r[k] = q[l]
    BY DEF KeptOf
  <2> HIDE DEF m
  <2>5. ASSUME NEW i \in 1 .. m + 1 PROVE i = m + 1 \/ i \in 1 .. m
    BY <2>1
  <2>6. ASSUME NEW i \in 1 .. m + 1 PROVE \E j \in 1 .. n : t[i] = q[j] /\ q[j].fd \notin fds
    <3>1. CASE i = m + 1
      BY <1>3, <2>2, <2>3, <3>1
    <3>2. CASE i \in 1 .. m
      <4>1. PICK j \in 1 .. n - 1 : r[i] = q[j] /\ q[j].fd \notin fds
        BY <2>4, <3>2
      <4> QED BY <1>1, <2>2, <3>2, <4>1
    <3> QED BY <2>5, <3>1, <3>2
  <2>7. ASSUME NEW i \in 1 .. m + 1, NEW k \in 1 .. m + 1, i < k
        PROVE  \E j, l \in 1 .. n : j < l /\ t[i] = q[j] /\ t[k] = q[l]
    <3>1. i \in 1 .. m
      BY <2>1, <2>7
    <3>2. CASE k = m + 1
      <4>1. PICK j \in 1 .. n - 1 : r[i] = q[j]
        BY <2>4, <3>1
      <4>2. j \in 1 .. n /\ j < n
        BY <1>1
      <4> QED BY <2>2, <2>3, <3>1, <3>2, <4>1, <4>2
    <3>3. CASE k \in 1 .. m
      <4>1. PICK j \in 1 .. n - 1, l \in 1 .. n - 1 : j < l /\ r[i] = q[j] /\ r[k] = q[l]
        BY <2>4, <2>7, <3>1, <3>3
      <4> QED BY <1>1, <2>2, <3>1, <3>3, <4>1
    <3> QED BY <2>5, <3>2, <3>3
  <2>8. 1 .. Len(t) = 1 .. m + 1
    BY <2>2
  <2>9. \A i \in 1 .. Len(t) : \E j \in 1 .. n : t[i] = q[j] /\ q[j].fd \notin fds
    BY <2>6, <2>8
  <2>10. \A i, k \in 1 .. Len(t) :
           i < k => \E j, l \in 1 .. n : j < l /\ t[i] = q[j] /\ t[k] = q[l]
    <3> SUFFICES ASSUME NEW i \in 1 .. Len(t), NEW k \in 1 .. Len(t), i < k
                 PROVE  \E j, l \in 1 .. n : j < l /\ t[i] = q[j] /\ t[k] = q[l]
      OBVIOUS
    <3>1. i \in 1 .. m + 1 /\ k \in 1 .. m + 1
      BY <2>8
    <3> QED BY <2>7, <3>1
  <2> QED BY <2>2, <2>9, <2>10, Zenon DEF KeptOf
<1> QED BY <1>2, <1>3

\* remove_client's purge keeps the other clients' replies, in order, and no more.
LEMMA Purged ==
  ASSUME NEW fds, pending_replies \in Seq(PendingReply)
  PROVE  /\ PurgedReplies(fds) \in Seq(PendingReply)
         /\ KeptOf(PurgedReplies(fds), pending_replies, fds, Len(pending_replies))
<1> DEFINE q == pending_replies
           N == Len(pending_replies)
<1>1. N \in Nat /\ q \in Seq(PendingReply)
  BY LenProperties
<1>2. PICK f : Keeps(f, q, fds, N) /\ PurgedReplies(fds) = f[N]
  <2>1. \E f : Keeps(f, q, fds, N)
    BY <1>1, KeepsExist
  <2>2. Keeps(CHOOSE f : Keeps(f, q, fds, N), q, fds, N)
    BY <2>1
  <2> QED BY <2>2, PurgedDef
<1> HIDE DEF q
<1>3. \A i \in 0 .. N : f[i] = KeepValue(f, q, fds, i)
  <2> DEFINE K(i) == KeepValue(f, q, fds, i)
  <2>1. f = [i \in 0 .. N |-> K(i)]
    BY <1>2 DEF Keeps
  <2> HIDE DEF K
  <2>2. \A i \in 0 .. N : f[i] = K(i)
    BY <2>1
  <2> QED BY <2>2 DEF K
<1> DEFINE Good(n) == f[n] \in Seq(PendingReply) /\ KeptOf(f[n], q, fds, n)
           Bad == {n \in 0 .. N : ~Good(n)}
<1>4. Bad = {}
  <2> SUFFICES ASSUME Bad # {} PROVE FALSE
    OBVIOUS
  <2>1. PICK n \in Bad : \A k \in Bad : n <= k
    <3>1. Bad \subseteq Nat
      OBVIOUS
    <3> HIDE DEF Bad
    <3> QED BY <3>1, LeastNat
  <2>2. n \in 0 .. N /\ ~Good(n)
    OBVIOUS
  <2>3. CASE n = 0
    <3>1. f[n] = <<>>
      BY <1>3, <2>2, <2>3 DEF KeepValue
    <3>2. f[n] \in Seq(PendingReply) /\ Len(f[n]) = 0
      BY <3>1, EmptySeq
    <3> HIDE DEF q
    <3>3. KeptOf(f[n], q, fds, n)
      BY <3>2 DEF KeptOf
    <3> QED BY <2>2, <3>2, <3>3
  <2>4. CASE n # 0
    <3>1. n - 1 \in 0 .. N /\ ~(n <= n - 1) /\ n \in 1 .. N
      BY <1>1, <2>2, <2>4
    <3>2. Good(n - 1)
      BY <2>1, <3>1
    <3> DEFINE r == f[n - 1]
               t == f[n]
    <3>3. t = IF q[n].fd \in fds THEN r ELSE Append(r, q[n])
      BY <1>3, <2>2, <2>4, Zenon DEF KeepValue
    <3>4. r \in Seq(PendingReply) /\ KeptOf(r, q, fds, n - 1)
      BY <3>2
    <3>5. n \in 1 .. Len(q)
      BY <3>1 DEF q
    <3> HIDE DEF r, t
    <3>6. t \in Seq(PendingReply) /\ KeptOf(t, q, fds, n)
      BY <1>1, <3>3, <3>4, <3>5, KeptNext
    <3> QED BY <2>2, <3>6 DEF t
  <2> QED BY <2>3, <2>4
<1>5. N \in 0 .. N
  BY <1>1
<1>6. Good(N)
  BY <1>4, <1>5
<1> QED BY <1>2, <1>6 DEF q

-----------------------------------------------------------------------------
(* What queue_write, flush_write_buffer and send_pong make of a client     *)

\* c is client but for its state, which is as before or kFailed, and what it has
\* to write.
Kin(c, client) ==
  /\ c \in Client /\ c.peer = client.peer /\ c.state \in {client.state, "kFailed"}
  /\ c.state_entered = client.state_entered /\ c.last_liveness = client.last_liveness
  /\ c.epollout = client.epollout

\* o is what becomes of client: what is sent and what is left to write is pending.
Outcome(o, client, pending) ==
  /\ o = [client |-> o.client, sent |-> o.sent] /\ Kin(o.client, client)
  /\ o.sent \in Seq(Message) /\ o.sent \o o.client.write_pending = pending

\* A client with other bytes to write.
LEMMA PendingKin ==
  ASSUME NEW client \in Client, NEW x \in Seq(Message)
  PROVE  /\ Kin([client EXCEPT !.write_pending = x], client)
         /\ [client EXCEPT !.write_pending = x].write_pending = x
         /\ [client EXCEPT !.write_pending = x].state = client.state
<1> DEFINE c == [client EXCEPT !.write_pending = x]
<1>1. c \in Client
  BY DEF Client
<1>2. /\ c.peer = client.peer /\ c.state = client.state /\ c.epollout = client.epollout
      /\ c.state_entered = client.state_entered /\ c.last_liveness = client.last_liveness
      /\ c.write_pending = x
  BY DEF Client
<1> HIDE DEF c
<1>3. Kin(c, client) /\ c.write_pending = x /\ c.state = client.state
  BY <1>1, <1>2 DEF Kin
<1> QED BY <1>3 DEF c

\* A client that transition_to(kFailed) was called for.
LEMMA FailedKin ==
  ASSUME NEW client \in Client
  PROVE  /\ Kin(Failed(client), client) /\ Failed(client).state = "kFailed"
         /\ Failed(client).write_pending = client.write_pending
<1>1. Failed(client) \in Client
  BY DEF Client, Failed
<1>2. /\ Failed(client).peer = client.peer /\ Failed(client).state = "kFailed"
      /\ Failed(client).epollout = client.epollout
      /\ Failed(client).state_entered = client.state_entered
      /\ Failed(client).last_liveness = client.last_liveness
      /\ Failed(client).write_pending = client.write_pending
  BY DEF Client, Failed
<1> QED BY <1>1, <1>2 DEF Kin

\* A client is its own kin.
LEMMA SelfKin == ASSUME NEW client \in Client PROVE Kin(client, client)
  BY DEF Kin

\* Kin of kin.
LEMMA KinOfKin ==
  ASSUME NEW a, NEW b, NEW c, Kin(a, b), Kin(b, c)
  PROVE  Kin(a, c)
  BY DEF Kin

\* A client's fields.
LEMMA ClientFields ==
  ASSUME NEW client \in Client
  PROVE  /\ client.peer \in Sessions /\ client.write_pending \in Seq(Message)
         /\ client.state \in {"kHandshaking", "kHealthy", "kFailed"}
         /\ client.state_entered \in 0 .. MaxTime /\ client.last_liveness \in 0 .. MaxTime
         /\ client.epollout \in BOOLEAN
  BY DEF Client

\* A client to which nothing is sent.
LEMMA NothingSent ==
  ASSUME NEW client \in Client, NEW c, Kin(c, client)
  PROVE  Outcome([client |-> c, sent |-> <<>>], client, c.write_pending)
<1>1. c.write_pending \in Seq(Message)
  BY ClientFields DEF Kin
<1>2. <<>> \in Seq(Message) /\ <<>> \o c.write_pending = c.write_pending
  BY <1>1, EmptySeq, ConcatEmptySeq
<1> QED BY <1>2 DEF Outcome

\* flush_write_buffer sends a prefix of what is pending and keeps the rest.
LEMMA FlushSteps ==
  ASSUME NEW client \in Client, NEW o \in FlushOutcomes(client)
  PROVE  Outcome(o, client, client.write_pending)
<1> DEFINE pending == client.write_pending
<1>1. pending \in Seq(Message)
  BY ClientFields
<1>2. CASE o = [client |-> client, sent |-> <<>>]
  BY <1>2, SelfKin, NothingSent
<1>3. CASE o = [client |-> Failed(client), sent |-> <<>>]
  BY <1>3, FailedKin, NothingSent
<1>4. ASSUME NEW n \in 0 .. Len(pending),
             o = [client |-> [client EXCEPT !.write_pending = SubSeq(pending, n + 1, Len(pending))],
                  sent |-> SubSeq(pending, 1, n)]
      PROVE  Outcome(o, client, pending)
  <2> DEFINE rest == SubSeq(pending, n + 1, Len(pending))
             front == SubSeq(pending, 1, n)
  <2>1. Len(pending) \in Nat
    BY <1>1, LenProperties
  <2>2. rest \in Seq(Message) /\ front \in Seq(Message) /\ front \o rest = pending
    <3> HIDE DEF pending
    <3>1. rest \in Seq(Message) /\ front \in Seq(Message)
      BY <1>1, <2>1
    <3>2. 1 \in 1 .. Len(pending) + 1 /\ n \in 1 - 1 .. Len(pending)
            /\ Len(pending) \in n .. Len(pending)
      BY <2>1
    <3>3. front \o rest = SubSeq(pending, 1, Len(pending))
      BY <1>1, <3>2, ConcatAdjacentSubSeq
    <3>4. SubSeq(pending, 1, Len(pending)) = pending
      BY <1>1, SubSeqFull
    <3> QED BY <3>1, <3>3, <3>4
  <2>3. /\ o = [client |-> o.client, sent |-> o.sent]
        /\ o.client = [client EXCEPT !.write_pending = rest] /\ o.sent = front
    BY <1>4
  <2> HIDE DEF rest, front
  <2>4. Kin(o.client, client) /\ o.client.write_pending = rest
    BY <2>2, <2>3, PendingKin
  <2> QED BY <2>2, <2>3, <2>4 DEF Outcome
<1>5. \/ o = [client |-> client, sent |-> <<>>]
      \/ o = [client |-> Failed(client), sent |-> <<>>]
      \/ \E n \in 0 .. Len(pending) :
           o = [client |-> [client EXCEPT !.write_pending = SubSeq(pending, n + 1, Len(pending))],
                sent |-> SubSeq(pending, 1, n)]
  BY DEF FlushOutcomes
<1> QED BY <1>2, <1>3, <1>4, <1>5

\* queue_write puts one message behind what is pending, and may send a prefix.
LEMMA QueueSteps ==
  ASSUME NEW client \in Client, NEW msg \in Message, NEW o \in QueueOutcomes(client, msg)
  PROVE  Outcome(o, client, Append(client.write_pending, msg))
<1> DEFINE x == Append(client.write_pending, msg)
           queued == [client EXCEPT !.write_pending = Append(@, msg)]
<1>1. x \in Seq(Message)
  BY ClientFields, AppendProperties
<1>2. queued = [client EXCEPT !.write_pending = x]
  BY DEF Client
<1>3. \/ o = [client |-> Failed(queued), sent |-> <<>>]
      \/ o \in FlushOutcomes(queued)
      \/ o = [client |-> queued, sent |-> <<>>]
  BY DEF QueueOutcomes
<1> HIDE DEF x, queued
<1>4. Kin(queued, client) /\ queued.write_pending = x /\ queued \in Client
  BY <1>1, <1>2, PendingKin DEF Kin
<1>5. CASE o = [client |-> Failed(queued), sent |-> <<>>]
  <2>1. Kin(Failed(queued), queued) /\ Failed(queued).write_pending = x
    BY <1>4, FailedKin
  <2>2. Kin(Failed(queued), client)
    BY <1>4, <2>1, KinOfKin
  <2> QED BY <1>5, <2>1, <2>2, NothingSent DEF x
<1>6. CASE o \in FlushOutcomes(queued)
  <2>1. Outcome(o, queued, x)
    BY <1>4, <1>6, FlushSteps
  <2>2. Kin(o.client, client)
    BY <1>4, <2>1, KinOfKin DEF Outcome
  <2> QED BY <2>1, <2>2 DEF Outcome, x
<1>7. CASE o = [client |-> queued, sent |-> <<>>]
  BY <1>4, <1>7, NothingSent DEF x
<1> QED BY <1>3, <1>5, <1>6, <1>7

\* send_pong queues a PONG if the client is healthy, and does nothing otherwise.
LEMMA PongSteps ==
  ASSUME NEW client \in Client, NEW sequence \in 0 .. MaxPings,
         NEW o \in PongOutcomes(client, sequence)
  PROVE  \/ client.state = "kHealthy"
              /\ Outcome(o, client, Append(client.write_pending, Msg("kPong", sequence)))
         \/ client.state # "kHealthy" /\ o.client = client /\ o.sent = <<>>
<1>1. Msg("kPong", sequence) \in Message
  BY DEF Msg, Message
<1>2. CASE client.state = "kHealthy"
  <2>1. o \in QueueOutcomes(client, Msg("kPong", sequence))
    BY <1>2 DEF PongOutcomes
  <2> QED BY <1>1, <1>2, <2>1, QueueSteps
<1>3. CASE client.state # "kHealthy"
  BY <1>3 DEF PongOutcomes
<1> QED BY <1>2, <1>3

-----------------------------------------------------------------------------
(* What a step leaves alone keeps its part of the invariant                *)

\* The parts are TypeOK.
LEMMA TypeParts == TypeOK <=> Typed
<1>1. Range(clients) \subseteq Client <=> \A f \in DOMAIN clients : clients[f] \in Client
  BY DEF Range
<1> QED BY <1>1 DEF TypeOK, Typed, TypeClock, TypeReactor, TypeClients, TypeReplies,
                    TypeSockets, Up

\* The types of what does not change.
LEMMA SameTypes ==
  ASSUME Typed
  PROVE  /\ UNCHANGED clock => TypeClock'
         /\ UNCHANGED <<pc, batch, events, current, reading, recv_end>> => TypeReactor'
         /\ UNCHANGED clients => TypeClients'
         /\ UNCHANGED <<pending_replies, todo>> => TypeReplies'
         /\ UNCHANGED <<dropping, listen_edge, backlog, peers>> => TypeSockets'
  BY DEF Typed, clock, peers, TypeClock, TypeReactor, TypeClients, TypeReplies, TypeSockets

\* The invariants of what does not change.
LEMMA SameParts ==
  ASSUME SimInv
  PROVE  /\ UNCHANGED <<pc, current, reading, todo, clients>> => ReactorInv'
         /\ UNCHANGED <<link, backlog, clients>> => SocketInv'
         /\ UNCHANGED <<pending_replies, clients>> => DeferredReplyFindsAsker'
         /\ UNCHANGED <<current, clients>> => ArmedInv'
         /\ UNCHANGED <<clock, clients>> /\ ("timer" \in batch' => "timer" \in batch) => TimeInv'
<1>1. UNCHANGED <<pc, current, reading, todo, clients>> => ReactorInv'
  BY DEF SimInv, ReactorInv
<1>2. UNCHANGED <<link, backlog, clients>> => SocketInv'
  BY DEF SimInv, SocketInv
<1>3. UNCHANGED <<pending_replies, clients>> => DeferredReplyFindsAsker'
  BY DEF SimInv, DeferredReplyFindsAsker
<1>4. UNCHANGED <<current, clients>> => ArmedInv'
  BY DEF SimInv, ArmedInv
<1>5. UNCHANGED <<clock, clients>> /\ ("timer" \in batch' => "timer" \in batch) => TimeInv'
  BY DEF SimInv, TimeInv, SignInv, LastSign, clock
<1> QED BY <1>1, <1>2, <1>3, <1>4, <1>5

\* The clients a removal leaves are the ones they were, and so are their sockets;
\* no reply is left for a client that is gone.
LEMMA RemoveSteps ==
  ASSUME SimInv, NEW fds \in SUBSET DOMAIN clients, RemoveClients(fds), backlog' = backlog
  PROVE  /\ DOMAIN clients' = DOMAIN clients \ fds
         /\ \A f \in DOMAIN clients' : clients'[f] = clients[f]
         /\ TypeClients' /\ pending_replies' \in Seq(PendingReply)
         /\ link' \in [Sessions -> {"idle", "open", "eof", "reset", "gone"}]
         /\ inbox' \in [Sessions -> Seq(Message)]
         /\ SocketInv' /\ DeferredReplyFindsAsker'
<1> DEFINE gone == {clients[f].peer : f \in fds}
<1>1. DOMAIN clients' = DOMAIN clients \ fds
  BY DEF RemoveClients, Restrict
<1>2. \A f \in DOMAIN clients' : f \in DOMAIN clients /\ f \notin fds /\ clients'[f] = clients[f]
  BY <1>1 DEF RemoveClients, Restrict
<1>3. TypeClients'
  BY <1>1, <1>2 DEF SimInv, Typed, TypeClients
<1>4. /\ pending_replies' \in Seq(PendingReply)
      /\ KeptOf(pending_replies', pending_replies, fds, Len(pending_replies))
  BY Purged DEF RemoveClients, SimInv, Typed, TypeReplies
<1>5. /\ link' = [s \in Sessions |-> IF s \in gone THEN "gone" ELSE link[s]]
      /\ inbox' = [s \in Sessions |-> IF s \in gone THEN <<>> ELSE inbox[s]]
  BY DEF RemoveClients
<1>6. link' \in [Sessions -> {"idle", "open", "eof", "reset", "gone"}]
  BY <1>5 DEF SimInv, Typed, TypeSockets
<1>7. inbox' \in [Sessions -> Seq(Message)]
  <2>1. <<>> \in Seq(Message)
    BY EmptySeq
  <2> QED BY <1>5, <2>1 DEF SimInv, Typed, TypeSockets
<1>8. \A f \in DOMAIN clients' : clients'[f].peer \in Sessions /\ clients'[f].peer \notin gone
  BY <1>2, ClientFields DEF SimInv, Typed, TypeClients, SocketInv
<1>9. backlog \in Seq(Sessions) /\ \A i \in 1 .. Len(backlog) : backlog[i] \in Sessions
  BY ElementOfSeq DEF SimInv, Typed, TypeSockets
<1>10. \A i \in 1 .. Len(backlog) : backlog[i] \notin gone
  BY DEF SimInv, SocketInv
<1> HIDE DEF gone
<1>11. SocketInv'
  <2>1. \A f \in DOMAIN clients' : link'[clients'[f].peer] \in Up
    BY <1>2, <1>5, <1>8 DEF SimInv, SocketInv
  <2>2. \A i \in 1 .. Len(backlog) : link'[backlog[i]] \in Up
    BY <1>5, <1>9, <1>10 DEF SimInv, SocketInv
  <2> QED BY <1>2, <2>1, <2>2 DEF SimInv, SocketInv
<1>12. DeferredReplyFindsAsker'
  <2> SUFFICES ASSUME NEW i \in DOMAIN pending_replies'
               PROVE  /\ pending_replies'[i].fd \in DOMAIN clients'
                      /\ clients'[pending_replies'[i].fd].peer = pending_replies'[i].asker
    BY DEF DeferredReplyFindsAsker
  <2>1. i \in 1 .. Len(pending_replies')
    BY <1>4, LenProperties
  <2>2. PICK j \in 1 .. Len(pending_replies) :
          pending_replies'[i] = pending_replies[j] /\ pending_replies[j].fd \notin fds
    BY <1>4, <2>1 DEF KeptOf
  <2>3. j \in DOMAIN pending_replies
    BY LenProperties DEF SimInv, Typed, TypeReplies
  <2> QED BY <1>1, <1>2, <2>2, <2>3 DEF SimInv, DeferredReplyFindsAsker
<1> QED BY <1>1, <1>2, <1>3, <1>4, <1>6, <1>7, <1>11, <1>12

\* A removal disturbs neither what is armed nor the signs of life.
LEMMA RemoveParts ==
  ASSUME SimInv, NEW fds \in SUBSET DOMAIN clients, RemoveClients(fds), backlog' = backlog
  PROVE  /\ current = {} \/ (\A e \in current : e.fd \in fds) => ArmedInv'
         /\ UNCHANGED clock /\ ("timer" \in batch' => "timer" \in batch) => TimeInv'
<1>1. \A f \in DOMAIN clients' : f \in DOMAIN clients /\ f \notin fds /\ clients'[f] = clients[f]
  BY RemoveSteps
<1>2. current = {} \/ (\A e \in current : e.fd \in fds) => ArmedInv'
  BY <1>1 DEF SimInv, ArmedInv
<1>3. UNCHANGED clock /\ ("timer" \in batch' => "timer" \in batch) => TimeInv'
  BY <1>1 DEF SimInv, TimeInv, SignInv, LastSign, clock
<1> QED BY <1>2, <1>3

\* One client changes, but not whose it is.
LEMMA UpdateSteps ==
  ASSUME SimInv, NEW fd \in DOMAIN clients, NEW c \in Client, c.peer = clients[fd].peer,
         clients' = [clients EXCEPT ![fd] = c]
  PROVE  /\ DOMAIN clients' = DOMAIN clients /\ clients'[fd] = c
         /\ \A f \in DOMAIN clients : f # fd => clients'[f] = clients[f]
         /\ \A f \in DOMAIN clients : clients'[f].peer = clients[f].peer
         /\ TypeClients'
         /\ UNCHANGED <<link, backlog>> => SocketInv'
         /\ pending_replies' = pending_replies => DeferredReplyFindsAsker'
         /\ current' = current /\ (\A e \in current : e.fd = fd) /\ current # {} => ArmedInv'
         /\ UNCHANGED <<clock, batch>> /\ SignInv(c) => TimeInv'
<1>1. /\ DOMAIN clients' = DOMAIN clients /\ clients'[fd] = c
      /\ \A f \in DOMAIN clients : f # fd => clients'[f] = clients[f]
  OBVIOUS
<1>2. \A f \in DOMAIN clients : clients'[f].peer = clients[f].peer
  BY <1>1
<1>3. TypeClients'
  BY <1>1 DEF SimInv, Typed, TypeClients
<1>4. UNCHANGED <<link, backlog>> => SocketInv'
  BY <1>1, <1>2 DEF SimInv, SocketInv
<1>5. pending_replies' = pending_replies => DeferredReplyFindsAsker'
  BY <1>1, <1>2 DEF SimInv, DeferredReplyFindsAsker
<1>6. current' = current /\ (\A e \in current : e.fd = fd) /\ current # {} => ArmedInv'
  BY <1>1 DEF SimInv, ArmedInv
<1>7. UNCHANGED <<clock, batch>> /\ SignInv(c) => TimeInv'
  BY <1>1 DEF SimInv, TimeInv, SignInv, LastSign, clock
<1> QED BY <1>1, <1>2, <1>3, <1>4, <1>5, <1>6, <1>7

-----------------------------------------------------------------------------
(* The steps of the environment                                            *)

\* The constants as numbers.
LEMMA Numbers ==
  /\ HeartbeatTimeout \in Nat /\ TickGap \in Nat /\ TickGap > 0 /\ TickGap < HeartbeatTimeout
  /\ MaxTime \in Nat /\ MaxPings \in Nat /\ MaxWritePending \in Nat /\ MaxReadAccum \in Nat
  BY SimulatorAssumption

\* Initially.
LEMMA InitSim == Init => SimInv
<1> SUFFICES ASSUME Init PROVE SimInv
  OBVIOUS
<1>1. DOMAIN clients = {} /\ Len(pending_replies) = 0 /\ Len(backlog) = 0
        /\ DOMAIN pending_replies = {}
  BY EmptySeq DEF Init
<1>2. <<>> \in Seq(Message) /\ <<>> \in Seq(PendingReply) /\ <<>> \in Seq(Sessions)
  BY EmptySeq
<1>3. Cardinality(current) = 0
  BY FS_EmptySet DEF Init
<1>4. TypeClock
  BY Numbers DEF Init, TypeClock
<1>5. TypeReactor
  BY <1>2, <1>3 DEF Init, TypeReactor, Up
<1>6. TypeClients
  BY <1>1 DEF TypeClients
<1>7. TypeReplies
  BY <1>1, <1>2 DEF Init, TypeReplies
<1>8. TypeSockets
  <2>1. sent \in [Sessions -> 0 .. MaxPings + 1]
    BY Numbers DEF Init
  <2>4. dropping \in BOOLEAN
    <3>1. dropping = ("drop" \in Faults)
      BY DEF Init
    <3>2. ("drop" \in Faults) \in BOOLEAN
      OBVIOUS
    <3> QED BY <3>1, <3>2, Zenon
  <2>2. listen_edge \in BOOLEAN /\ backlog \in Seq(Sessions)
    BY <1>2 DEF Init
  <2>3. /\ link \in [Sessions -> {"idle", "open", "eof", "reset", "gone"}]
        /\ inbox \in [Sessions -> Seq(Message)] /\ received \in [Sessions -> Seq(Message)]
    BY <1>2 DEF Init
  <2> QED BY <2>1, <2>2, <2>3, <2>4 DEF TypeSockets
<1>9. ReactorInv
  BY DEF Init, ReactorInv
<1>10. SocketInv
  BY <1>1 DEF SocketInv
<1>11. DeferredReplyFindsAsker /\ ArmedInv
  BY <1>1 DEF DeferredReplyFindsAsker, ArmedInv
<1>12. TimeInv
  BY <1>1, Numbers DEF Init, TimeInv
<1> QED BY <1>4, <1>5, <1>6, <1>7, <1>8, <1>9, <1>10, <1>11, <1>12 DEF SimInv, Typed

\* The clock advances.
LEMMA AdvanceKeeps == SimInv /\ Advance => SimInv'
<1> SUFFICES ASSUME SimInv, Advance PROVE SimInv'
  OBVIOUS
<1> USE DEF reactor, clock, peers
<1>1. Typed /\ now' = now + 1 /\ UNCHANGED <<batch_now, tick_now, batch, clients>>
        /\ now < MaxTime /\ now - tick_now < TickGap
  BY DEF SimInv, Advance
<1>2. TypeReactor' /\ TypeClients' /\ TypeReplies' /\ TypeSockets'
  BY <1>1, SameTypes DEF Advance
<1>3. ReactorInv' /\ SocketInv' /\ DeferredReplyFindsAsker' /\ ArmedInv'
  BY SameParts DEF Advance
<1>4. TypeClock'
  BY <1>1, Numbers DEF Typed, TypeClock
<1>5. TimeInv'
  <2>1. now \in Nat /\ batch_now \in Nat /\ tick_now \in Nat
    BY <1>1, Numbers DEF Typed, TypeClock
  <2>2. /\ tick_now <= now /\ batch_now <= now
        /\ now - tick_now <= TickGap /\ tick_now - batch_now <= TickGap
    BY DEF SimInv, TimeInv
  <2>3. /\ tick_now <= now + 1 /\ batch_now <= now + 1 /\ now + 1 - tick_now <= TickGap
    BY <1>1, <2>1, <2>2, Numbers
  <2>4. \A f \in DOMAIN clients : SignInv(clients[f])'
    BY <1>1 DEF SimInv, TimeInv, SignInv, LastSign
  <2>5. "timer" \in batch' => tick_now' <= batch_now'
    BY <1>1 DEF SimInv, TimeInv
  <2>6. /\ tick_now' <= now' /\ batch_now' <= now'
        /\ now' - tick_now' <= TickGap /\ tick_now' - batch_now' <= TickGap
    <3>1. now' = now + 1 /\ tick_now' = tick_now /\ batch_now' = batch_now
      BY <1>1
    <3> QED BY <2>1, <2>2, <2>3, <3>1, Numbers
  <2>7. \A f \in DOMAIN clients' : SignInv(clients[f])'
    BY <1>1, <2>4
  <2> QED BY <2>5, <2>6, <2>7 DEF TimeInv
<1> QED BY <1>2, <1>3, <1>4, <1>5 DEF SimInv, Typed

\* A client connects.
LEMMA PeerConnectKeeps == ASSUME SimInv, NEW s \in Sessions, PeerConnect(s) PROVE SimInv'
<1> USE DEF reactor, clock, peers
<1>1. Typed /\ link[s] = "idle" /\ link' = [link EXCEPT ![s] = "open"]
        /\ backlog' = Append(backlog, s) /\ clients' = clients
  BY DEF SimInv, PeerConnect
<1>2. TypeClock' /\ TypeReactor' /\ TypeClients' /\ TypeReplies'
  BY <1>1, SameTypes DEF PeerConnect
<1>3. ReactorInv' /\ DeferredReplyFindsAsker' /\ ArmedInv' /\ TimeInv'
  BY SameParts DEF PeerConnect
<1>4. backlog \in Seq(Sessions) /\ backlog' \in Seq(Sessions)
  BY <1>1, AppendProperties DEF Typed, TypeSockets
<1>5. TypeSockets'
  BY <1>1, <1>4 DEF PeerConnect, Typed, TypeSockets
<1>6. SocketInv'
  <2> DEFINE n == Len(backlog)
  <2>1. n \in Nat /\ Len(backlog') = n + 1 /\ backlog'[n + 1] = s
          /\ \A i \in 1 .. n : backlog'[i] = backlog[i]
    BY <1>1, <1>4, LenProperties, AppendProperties
  <2>2. \A x \in Sessions : link[x] \in Up => link'[x] \in Up /\ x # s
    BY <1>1 DEF Typed, TypeSockets, Up
  <2>3. link'[s] \in Up
    BY <1>1 DEF Typed, TypeSockets, Up
  <2>4. \A i \in 1 .. n : backlog[i] \in Sessions /\ link[backlog[i]] \in Up
    BY <1>4, ElementOfSeq DEF SimInv, SocketInv
  <2>5. \A f \in DOMAIN clients : clients[f].peer \in Sessions /\ link[clients[f].peer] \in Up
    BY <1>1, ClientFields DEF SimInv, SocketInv, Typed, TypeClients
  <2>6. /\ \A i, j \in 1 .. n : backlog[i] = backlog[j] => i = j
        /\ \A i \in 1 .. n, f \in DOMAIN clients : backlog[i] # clients[f].peer
        /\ \A f, g \in DOMAIN clients : clients[f].peer = clients[g].peer => f = g
    BY DEF SimInv, SocketInv
  <2> HIDE DEF n
  <2>7. \A i \in 1 .. n + 1 : i = n + 1 \/ i \in 1 .. n
    BY <2>1
  <2>8. \A i \in 1 .. n + 1 : link'[backlog'[i]] \in Up
    BY <2>1, <2>2, <2>3, <2>4, <2>7
  <2>9. \A i, j \in 1 .. n + 1 : backlog'[i] = backlog'[j] => i = j
    BY <2>1, <2>2, <2>4, <2>6, <2>7
  <2>10. \A i \in 1 .. n + 1, f \in DOMAIN clients : backlog'[i] # clients[f].peer
    BY <2>1, <2>2, <2>5, <2>6, <2>7
  <2>11. \A f \in DOMAIN clients : link'[clients[f].peer] \in Up
    BY <2>2, <2>5
  <2> QED BY <1>1, <2>1, <2>6, <2>8, <2>9, <2>10, <2>11 DEF SocketInv
<1> QED BY <1>2, <1>3, <1>5, <1>6 DEF SimInv, Typed

\* A client sends its CONNECT_HELLO or a PING.
LEMMA PeerSendKeeps ==
  ASSUME SimInv, NEW s \in Sessions, PeerHello(s) \/ PeerPing(s) PROVE SimInv'
<1> USE DEF reactor, clock, peers
<1>0. Typed /\ sent[s] \in 0 .. MaxPings + 1
  BY DEF SimInv, Typed, TypeSockets
<1>1. \E m \in Message, n \in 0 .. MaxPings + 1 :
        PeerSend(s, m) /\ sent' = [sent EXCEPT ![s] = n]
  <2>1. CASE PeerHello(s)
    <3>1. Msg("kConnectHello", 0) \in Message /\ 1 \in 0 .. MaxPings + 1
      BY Numbers DEF Msg, Message
    <3> QED BY <2>1, <3>1 DEF PeerHello
  <2>2. CASE PeerPing(s)
    <3>1. sent[s] \in 1 .. MaxPings /\ PeerSend(s, Msg("kPing", sent[s]))
            /\ sent' = [sent EXCEPT ![s] = sent[s] + 1]
      BY <2>2 DEF PeerPing
    <3>2. sent[s] \in 0 .. MaxPings /\ sent[s] + 1 \in 0 .. MaxPings + 1
      BY <3>1, Numbers
    <3>3. Msg("kPing", sent[s]) \in Message
      BY <3>2 DEF Msg, Message
    <3> QED BY <3>1, <3>2, <3>3
  <2> QED BY <2>1, <2>2
<1>2. PICK m \in Message, n \in 0 .. MaxPings + 1 :
        PeerSend(s, m) /\ sent' = [sent EXCEPT ![s] = n]
  BY <1>1
<1>3. TypeClock' /\ TypeReactor' /\ TypeClients' /\ TypeReplies'
  BY <1>0, <1>2, SameTypes DEF PeerSend
<1>4. ReactorInv' /\ SocketInv' /\ DeferredReplyFindsAsker' /\ ArmedInv' /\ TimeInv'
  BY <1>2, SameParts DEF PeerSend
<1>5. TypeSockets'
  <2>1. Append(inbox[s], m) \in Seq(Message)
    BY <1>0, AppendProperties DEF Typed, TypeSockets
  <2> QED BY <1>0, <1>2, <2>1 DEF PeerSend, Typed, TypeSockets
<1> QED BY <1>3, <1>4, <1>5 DEF SimInv, Typed

\* A client closes its connection, or it is reset.
LEMMA PeerCloseKeeps ==
  ASSUME SimInv, NEW s \in Sessions, PeerClose(s) \/ PeerReset(s) PROVE SimInv'
<1> USE DEF reactor, clock, peers
<1>0. Typed
  BY DEF SimInv
<1>1. PICK l \in Up : link' = [link EXCEPT ![s] = l]
  BY DEF PeerClose, PeerReset, Up
<1>2. UNCHANGED <<clock, reactor, clients, pending_replies, dropping, listen_edge, backlog,
                 sent, received>>
  BY DEF PeerClose, PeerReset
<1>3. TypeClock' /\ TypeReactor' /\ TypeClients' /\ TypeReplies'
  BY <1>0, <1>2, SameTypes
<1>4. ReactorInv' /\ DeferredReplyFindsAsker' /\ ArmedInv' /\ TimeInv'
  BY <1>2, SameParts
<1>5. inbox' \in [Sessions -> Seq(Message)]
  <2>1. inbox \in [Sessions -> Seq(Message)]
    BY <1>0 DEF Typed, TypeSockets
  <2>2. <<>> \in Seq(Message) /\ <<Msg("fatal", 0)>> \in Seq(Message)
    <3>1. Msg("fatal", 0) \in Message
      BY Numbers DEF Msg, Message
    <3> QED BY <3>1, EmptySeq
  <2>3. \E q \in Seq(Message) : inbox' = [inbox EXCEPT ![s] = q]
    <3>1. CASE PeerReset(s)
      BY <2>2, <3>1 DEF PeerReset
    <3>2. CASE PeerClose(s)
      <4>1. PICK bye \in {<<>>, <<Msg("fatal", 0)>>} : inbox' = [inbox EXCEPT ![s] = inbox[s] \o bye]
        BY <3>2 DEF PeerClose
      <4>2. inbox[s] \o bye \in Seq(Message)
        BY <2>1, <2>2, ConcatProperties
      <4> QED BY <4>1, <4>2
    <3> QED BY <3>1, <3>2
  <2> QED BY <2>1, <2>3
<1>6. TypeSockets'
  BY <1>0, <1>1, <1>2, <1>5 DEF Typed, TypeSockets, Up
<1>7. SocketInv'
  <2>1. \A x \in Sessions : link[x] \in Up => link'[x] \in Up
    BY <1>0, <1>1 DEF Typed, TypeSockets
  <2>2. \A i \in 1 .. Len(backlog) : backlog[i] \in Sessions
    BY <1>0, ElementOfSeq DEF Typed, TypeSockets
  <2>3. \A f \in DOMAIN clients : clients[f].peer \in Sessions
    BY <1>0, ClientFields DEF Typed, TypeClients
  <2> QED BY <1>2, <2>1, <2>2, <2>3 DEF SimInv, SocketInv
<1> QED BY <1>3, <1>4, <1>6, <1>7 DEF SimInv, Typed

-----------------------------------------------------------------------------
(* The reactor's loop, accept_new_connections and the commands             *)

\* epoll_wait returns and the batch's clock is read.
LEMMA EpollWaitKeeps == SimInv /\ EpollWait => SimInv'
<1> SUFFICES ASSUME SimInv, EpollWait PROVE SimInv'
  OBVIOUS
<1> USE DEF peers
<1>1. Typed /\ UNCHANGED <<now, tick_now, pc, current, reading, recv_end, todo, clients,
                          pending_replies, dropping, backlog, peers>> /\ batch_now' = now
  BY DEF SimInv, EpollWait
<1>2. TypeClients' /\ TypeReplies'
  BY <1>1, SameTypes
<1>3. ReactorInv' /\ SocketInv' /\ DeferredReplyFindsAsker' /\ ArmedInv'
  BY <1>1, SameParts
<1>4. TypeClock'
  BY <1>1 DEF Typed, TypeClock
<1>5. TypeReactor'
  <2>1. batch' \subseteq {"timer", "listen", "command"}
    BY DEF EpollWait
  <2>2. \A f \in DOMAIN clients : Ready(f) \in Event
    <3> SUFFICES ASSUME NEW f \in DOMAIN clients PROVE Ready(f) \in Event
      OBVIOUS
    <3>1. f \in Fds /\ clients[f].epollout \in BOOLEAN
      BY <1>1, ClientFields DEF Typed, TypeClients
    <3> QED BY <3>1 DEF Ready, Event
  <2>3. events' \subseteq Event
    BY <2>2 DEF EpollWait
  <2> QED BY <1>1, <2>1, <2>3 DEF Typed, TypeReactor
<1>6. TypeSockets'
  <2>1. listen_edge' \in BOOLEAN
    BY <1>1 DEF EpollWait, Typed, TypeSockets
  <2> QED BY <1>1, <2>1 DEF Typed, TypeSockets
<1>7. TimeInv'
  <2>1. now \in Nat /\ batch_now \in Nat /\ tick_now \in Nat
    BY <1>1, Numbers DEF Typed, TypeClock
  <2>2. tick_now <= now /\ now - tick_now <= TickGap /\ batch_now <= now
    BY DEF SimInv, TimeInv
  <2>3. now <= now /\ tick_now - now <= TickGap
    BY <2>1, <2>2, Numbers
  <2>4. ASSUME NEW f \in DOMAIN clients PROVE SignInv(clients[f])'
    <3> DEFINE c == clients[f]
    <3>1. SignInv(c) /\ c' = c /\ tick_now' = tick_now /\ batch_now' = now
      BY <1>1 DEF SimInv, TimeInv
    <3>2. c.last_liveness \in Nat
      BY <1>1, ClientFields, Numbers DEF Typed, TypeClients
    <3>3. c.last_liveness <= batch_now => c.last_liveness <= now
      BY <2>1, <2>2, <3>2
    <3> HIDE DEF c
    <3>4. SignInv(c)'
      BY <3>1, <3>3 DEF SignInv, LastSign
    <3> QED BY <3>4 DEF c
  <2> QED BY <1>1, <2>2, <2>3, <2>4 DEF TimeInv
<1> QED BY <1>2, <1>3, <1>4, <1>5, <1>6, <1>7 DEF SimInv, Typed

\* A handler starts, or returns, or an event finds no client.
LEMMA MovesKeep ==
  ASSUME SimInv,
         \/ AcceptStart \/ AcceptEnd \/ CommandStart \/ CommandEnd \/ SetFaultConfig
         \/ \E e \in events : SkipEvent(e)
  PROVE  SimInv'
<1> USE DEF clock, peers, reactor
<1>1. /\ Typed
      /\ UNCHANGED <<clock, current, reading, recv_end, todo, clients, pending_replies,
                     listen_edge, backlog, peers>>
      /\ batch' \subseteq batch /\ events' \subseteq events /\ dropping' \in BOOLEAN
      /\ pc \in {"loop", "accept", "command"} /\ pc' \in {"loop", "accept", "command"}
  BY DEF SimInv, Typed, TypeSockets, AcceptStart, AcceptEnd, CommandStart, CommandEnd,
         SetFaultConfig, SkipEvent
<1>2. TypeClock' /\ TypeClients' /\ TypeReplies'
  BY <1>1, SameTypes
<1>3. SocketInv' /\ DeferredReplyFindsAsker' /\ ArmedInv' /\ TimeInv'
  BY <1>1, SameParts
<1>4. TypeReactor'
  BY <1>1 DEF Typed, TypeReactor
<1>5. TypeSockets'
  BY <1>1 DEF Typed, TypeSockets
<1>6. ReactorInv'
  BY <1>1 DEF SimInv, ReactorInv
<1> QED BY <1>2, <1>3, <1>4, <1>5, <1>6 DEF SimInv, Typed

\* accept4() gives the least descriptor that is free.
LEMMA LowestFreeFd == FreeFds # {} => LowestFree \in Fds /\ LowestFree \notin DOMAIN clients
<1> SUFFICES ASSUME FreeFds # {} PROVE LowestFree \in FreeFds
  BY DEF FreeFds
<1>1. FreeFds \subseteq Nat
  BY SimulatorAssumption DEF FreeFds
<1>2. \E f \in FreeFds : \A g \in FreeFds : f <= g
  BY <1>1, LeastNat
<1> QED BY <1>2 DEF LowestFree

\* The head of the backlog is taken off it.
LEMMA BacklogTail ==
  ASSUME SimInv, backlog # <<>>
  PROVE  /\ Head(backlog) \in Sessions /\ link[Head(backlog)] \in Up
         /\ Tail(backlog) \in Seq(Sessions)
         /\ \A i \in 1 .. Len(Tail(backlog)) : link[Tail(backlog)[i]] \in Up
         /\ \A i, j \in 1 .. Len(Tail(backlog)) : Tail(backlog)[i] = Tail(backlog)[j] => i = j
         /\ \A i \in 1 .. Len(Tail(backlog)), f \in DOMAIN clients :
              Tail(backlog)[i] # clients[f].peer
         /\ \A i \in 1 .. Len(Tail(backlog)) : Tail(backlog)[i] \in Sessions
                                              /\ Tail(backlog)[i] # Head(backlog)
         /\ \A f \in DOMAIN clients : clients[f].peer # Head(backlog)
<1> DEFINE n == Len(backlog)
           t == Tail(backlog)
<1>1. backlog \in Seq(Sessions) /\ n \in Nat
  BY LenProperties DEF SimInv, Typed, TypeSockets
<1>2. n > 0
  BY <1>1, EmptySeq
<1>3. Head(backlog) = backlog[1] /\ 1 \in 1 .. n
  BY <1>1, <1>2
<1>4. t \in Seq(Sessions) /\ Len(t) = n - 1 /\ \A i \in 1 .. n - 1 : t[i] = backlog[i + 1]
  BY <1>1, <1>2, HeadTailProperties
<1>5. \A i \in 1 .. n : backlog[i] \in Sessions
  BY <1>1, ElementOfSeq
<1>6. /\ \A i \in 1 .. n : link[backlog[i]] \in Up
      /\ \A i, j \in 1 .. n : backlog[i] = backlog[j] => i = j
      /\ \A i \in 1 .. n, f \in DOMAIN clients : backlog[i] # clients[f].peer
  BY DEF SimInv, SocketInv
<1> HIDE DEF n, t
<1>7. \A i \in 1 .. n - 1 : i + 1 \in 1 .. n /\ i + 1 # 1
  BY <1>1
<1>8. \A i \in 1 .. n - 1 : /\ t[i] \in Sessions /\ link[t[i]] \in Up /\ t[i] # Head(backlog)
                            /\ \A f \in DOMAIN clients : t[i] # clients[f].peer
  BY <1>3, <1>4, <1>5, <1>6, <1>7
<1>9. \A i, j \in 1 .. n - 1 : t[i] = t[j] => i = j
  <2> SUFFICES ASSUME NEW i \in 1 .. n - 1, NEW j \in 1 .. n - 1, t[i] = t[j] PROVE i = j
    OBVIOUS
  <2>1. i + 1 = j + 1
    BY <1>4, <1>6, <1>7
  <2> QED BY <1>1, <2>1
<1> QED BY <1>3, <1>4, <1>5, <1>6, <1>8, <1>9 DEF t

\* A connection is accepted and gets a Connection of its own, or is closed again.
LEMMA AcceptClientKeeps == SimInv /\ AcceptClient => SimInv'
<1> SUFFICES ASSUME SimInv, AcceptClient PROVE SimInv'
  OBVIOUS
<1> USE DEF clock, peers
<1> DEFINE s == Head(backlog)
           fd == LowestFree
           c == NewClient(s)
<1>1. /\ Typed /\ pc = "accept" /\ backlog # <<>> /\ backlog' = Tail(backlog) /\ pc' = "accept"
      /\ fd \in Fds /\ fd \notin DOMAIN clients
      /\ UNCHANGED <<clock, batch, events, current, reading, recv_end, todo, pending_replies,
                     dropping, listen_edge, sent, received>>
  BY LowestFreeFd DEF SimInv, AcceptClient, AcceptAgain
<1>2. current = {} /\ reading = <<>> /\ todo = 0
  BY <1>1 DEF SimInv, ReactorInv, Typed, TypeReplies
<1>3. s \in Sessions /\ link[s] \in Up /\ \A f \in DOMAIN clients : clients[f].peer # s
  BY <1>1, BacklogTail
<1>4. TypeClock' /\ TypeReactor' /\ TypeReplies'
  BY <1>1, SameTypes DEF Typed, TypeReactor
<1>5. CASE clients' = Put(fd, c) /\ UNCHANGED <<link, inbox>>
  <2>1. /\ c \in Client /\ c.peer = s /\ c.write_pending = <<>> /\ c.state = "kHandshaking"
        /\ c.last_liveness = 0 /\ c.state_entered = now
    <3>1. <<>> \in Seq(Message) /\ now \in 0 .. MaxTime /\ 0 \in 0 .. MaxTime
      BY <1>1, EmptySeq, Numbers DEF Typed, TypeClock
    <3> QED BY <1>3, <3>1 DEF NewClient, Client
  <2> HIDE DEF c, s, fd
  <2>2. /\ DOMAIN clients' = DOMAIN clients \cup {fd} /\ clients'[fd] = c
        /\ \A f \in DOMAIN clients : clients'[f] = clients[f] /\ f # fd
    BY <1>1, <1>5 DEF Put
  <2>3. TypeClients'
    BY <1>1, <2>1, <2>2 DEF Typed, TypeClients
  <2>4. TypeSockets'
    BY <1>1, <1>5, BacklogTail DEF Typed, TypeSockets
  <2>5. ReactorInv'
    BY <1>1, <1>2 DEF ReactorInv
  <2>6. SocketInv'
    <3>1. /\ \A i \in 1 .. Len(backlog') : link'[backlog'[i]] \in Up /\ backlog'[i] # s
          /\ \A i, j \in 1 .. Len(backlog') : backlog'[i] = backlog'[j] => i = j
          /\ \A i \in 1 .. Len(backlog'), f \in DOMAIN clients : backlog'[i] # clients[f].peer
      BY <1>1, <1>5, BacklogTail DEF s
    <3>2. \A f \in DOMAIN clients' : link'[clients'[f].peer] \in Up
      BY <1>3, <1>5, <2>1, <2>2 DEF SimInv, SocketInv
    <3>3. \A f, g \in DOMAIN clients' : clients'[f].peer = clients'[g].peer => f = g
      BY <1>3, <2>1, <2>2 DEF SimInv, SocketInv
    <3>4. \A i \in 1 .. Len(backlog'), f \in DOMAIN clients' : backlog'[i] # clients'[f].peer
      BY <2>1, <2>2, <3>1
    <3> QED BY <3>1, <3>2, <3>3, <3>4 DEF SocketInv
  <2>7. DeferredReplyFindsAsker'
    BY <1>1, <2>2 DEF SimInv, DeferredReplyFindsAsker
  <2>8. ArmedInv'
    BY <1>1, <2>1, <2>2 DEF SimInv, ArmedInv
  <2>9. TimeInv'
    <3>1. now \in Nat /\ tick_now \in Nat /\ tick_now <= now
      BY <1>1, Numbers DEF Typed, TypeClock, SimInv, TimeInv
    <3>2. tick_now - now < HeartbeatTimeout /\ (0 > now <=> FALSE)
      BY <3>1, Numbers
    <3>3. SignInv(c)
      BY <2>1, <3>1, <3>2 DEF SignInv, LastSign
    <3>4. \A f \in DOMAIN clients' : SignInv(clients'[f])
      BY <2>2, <3>3 DEF SimInv, TimeInv
    <3>5. \A f \in DOMAIN clients' : SignInv(clients[f])'
      BY <1>1, <3>4 DEF SignInv, LastSign
    <3> QED BY <1>1, <3>5 DEF SimInv, TimeInv
  <2> QED BY <1>4, <2>3, <2>4, <2>5, <2>6, <2>7, <2>8, <2>9 DEF SimInv, Typed
<1>6. CASE /\ link' = [link EXCEPT ![s] = "gone"] /\ inbox' = [inbox EXCEPT ![s] = <<>>]
           /\ UNCHANGED clients
  <2>1. TypeClients'
    BY <1>1, <1>6, SameTypes
  <2>2. DeferredReplyFindsAsker' /\ ArmedInv' /\ TimeInv'
    BY <1>1, <1>6, SameParts
  <2>3. ReactorInv'
    BY <1>1, <1>2 DEF ReactorInv
  <2>4. TypeSockets'
    <3>1. <<>> \in Seq(Message)
      BY EmptySeq
    <3> QED BY <1>1, <1>6, <3>1, BacklogTail DEF Typed, TypeSockets
  <2>5. SocketInv'
    <3> HIDE DEF s
    <3>1. /\ \A i \in 1 .. Len(backlog') : link[backlog'[i]] \in Up /\ backlog'[i] # s
                                          /\ backlog'[i] \in Sessions
          /\ \A i, j \in 1 .. Len(backlog') : backlog'[i] = backlog'[j] => i = j
          /\ \A i \in 1 .. Len(backlog'), f \in DOMAIN clients : backlog'[i] # clients[f].peer
      BY <1>1, BacklogTail DEF s
    <3>2. \A x \in Sessions : x # s => link'[x] = link[x]
      BY <1>1, <1>6 DEF Typed, TypeSockets
    <3>3. \A f \in DOMAIN clients : clients[f].peer \in Sessions
      BY <1>1, ClientFields DEF Typed, TypeClients
    <3> QED BY <1>3, <1>6, <3>1, <3>2, <3>3 DEF SimInv, SocketInv
  <2> QED BY <1>4, <2>1, <2>2, <2>3, <2>4, <2>5 DEF SimInv, Typed
<1> QED BY <1>5, <1>6 DEF AcceptClient

\* A connection that was reset while it was queued is passed over.
LEMMA AcceptAbortedKeeps == SimInv /\ AcceptAborted => SimInv'
<1> SUFFICES ASSUME SimInv, AcceptAborted PROVE SimInv'
  OBVIOUS
<1> USE DEF clock, peers, reactor
<1> DEFINE s == Head(backlog)
<1>1. /\ Typed /\ backlog # <<>> /\ backlog' = Tail(backlog) /\ link' = [link EXCEPT ![s] = "gone"]
      /\ UNCHANGED <<clock, reactor, clients, pending_replies, dropping, listen_edge, inbox,
                     sent, received>>
  BY DEF SimInv, AcceptAborted
<1>2. TypeClock' /\ TypeReactor' /\ TypeClients' /\ TypeReplies'
  BY <1>1, SameTypes
<1>3. ReactorInv' /\ DeferredReplyFindsAsker' /\ ArmedInv' /\ TimeInv'
  BY <1>1, SameParts
<1>4. TypeSockets'
  BY <1>1, BacklogTail DEF Typed, TypeSockets
<1>5. SocketInv'
  <2> HIDE DEF s
  <2>1. /\ \A i \in 1 .. Len(backlog') : link[backlog'[i]] \in Up /\ backlog'[i] # s
                                        /\ backlog'[i] \in Sessions
        /\ \A i, j \in 1 .. Len(backlog') : backlog'[i] = backlog'[j] => i = j
        /\ \A i \in 1 .. Len(backlog'), f \in DOMAIN clients : backlog'[i] # clients[f].peer
        /\ \A f \in DOMAIN clients : clients[f].peer # s
    BY <1>1, BacklogTail DEF s
  <2>2. \A x \in Sessions : x # s => link'[x] = link[x]
    BY <1>1 DEF Typed, TypeSockets
  <2>3. \A f \in DOMAIN clients : clients[f].peer \in Sessions
    BY <1>1, ClientFields DEF Typed, TypeClients
  <2> QED BY <1>1, <2>1, <2>2, <2>3 DEF SimInv, SocketInv
<1> QED BY <1>2, <1>3, <1>4, <1>5 DEF SimInv, Typed

\* A client is killed, or hung up.
LEMMA RemovalKeeps ==
  ASSUME SimInv,
         \/ \E fd \in DOMAIN clients : KillRandomConnection(fd)
         \/ \E e \in events : OnHangup(e)
  PROVE  SimInv'
<1> USE DEF clock, peers, reactor
<1>1. PICK fd \in DOMAIN clients : RemoveClients({fd})
  BY DEF KillRandomConnection, OnHangup
<1>2. /\ Typed /\ pc \in {"loop", "command"} /\ events' \subseteq events
      /\ UNCHANGED <<clock, pc, batch, current, reading, recv_end, todo, dropping, listen_edge,
                     backlog, sent, received>>
  BY DEF SimInv, KillRandomConnection, OnHangup
<1>3. current = {} /\ reading = <<>> /\ todo = 0
  BY <1>2 DEF SimInv, ReactorInv, Typed, TypeReplies
<1>4. /\ TypeClients' /\ pending_replies' \in Seq(PendingReply)
      /\ link' \in [Sessions -> {"idle", "open", "eof", "reset", "gone"}]
      /\ inbox' \in [Sessions -> Seq(Message)]
      /\ SocketInv' /\ DeferredReplyFindsAsker'
  BY <1>1, <1>2, RemoveSteps
<1>5. ArmedInv'
  BY <1>1, <1>2, <1>3, RemoveParts
<1>6. TimeInv'
  BY <1>1, <1>2, RemoveParts
<1>7. TypeReplies'
  <2>1. Len(pending_replies') \in Nat
    BY <1>4, LenProperties
  <2>2. 0 \in 0 .. Len(pending_replies')
    BY <2>1
  <2> QED BY <1>2, <1>3, <1>4, <2>2 DEF TypeReplies
<1>8. TypeClock' /\ TypeReactor' /\ TypeSockets'
  BY <1>2, <1>4 DEF Typed, TypeClock, TypeReactor, TypeSockets
<1>9. ReactorInv'
  BY <1>2, <1>3 DEF ReactorInv
<1> QED BY <1>4, <1>5, <1>6, <1>7, <1>8, <1>9 DEF SimInv, Typed

-----------------------------------------------------------------------------
(* handle_client_event                                                     *)

\* Kin have given the same sign of life.
LEMMA KinSign ==
  ASSUME NEW client \in Client, SignInv(client), NEW c, Kin(c, client)
  PROVE  SignInv(c)
<1>1. CASE c.state = "kFailed"
  BY <1>1 DEF SignInv
<1>2. CASE c.state = client.state
  BY <1>2 DEF Kin, SignInv, LastSign
<1> QED BY <1>1, <1>2 DEF Kin

\* on_readable's recv loop.
LEMMA OnReadableKeeps == ASSUME SimInv, NEW e \in events, OnReadable(e) PROVE SimInv'
<1> USE DEF clock, peers
<1> DEFINE s == clients[e.fd].peer
<1>1. /\ Typed /\ pc = "loop" /\ e.fd \in DOMAIN clients
      /\ events' = events \ {e} /\ current' = {e} /\ e \in Event
      /\ UNCHANGED <<clock, batch, todo, pending_replies, dropping, listen_edge, backlog, link,
                     sent, received>>
  BY DEF SimInv, OnReadable, Typed, TypeReactor
<1>2. current = {} /\ reading = <<>> /\ todo = 0
  BY <1>1 DEF SimInv, ReactorInv, Typed, TypeReplies
<1>3. s \in Sessions /\ clients[e.fd] \in Client /\ link[s] \in Up
  BY <1>1, ClientFields DEF SimInv, SocketInv, Typed, TypeClients
<1>4. Cardinality(current') = 1
  BY <1>1, FS_Singleton
<1>5. TypeClock' /\ TypeReplies'
  BY <1>1, SameTypes
<1>6. clients' = clients \/ clients' = [clients EXCEPT ![e.fd] = Failed(clients[e.fd])]
  BY DEF OnReadable
<1>7. /\ pc' \in {"finish", "drain"} /\ (pc' = "finish" => reading' = <<>>)
      /\ reading' \in Seq(Message) /\ recv_end' \in Up /\ inbox' \in [Sessions -> Seq(Message)]
  <2>1. <<>> \in Seq(Message) /\ inbox \in [Sessions -> Seq(Message)] /\ recv_end \in Up
    BY <1>1, EmptySeq DEF Typed, TypeSockets, TypeReactor
  <2>2. \/ pc' = "finish" /\ UNCHANGED <<reading, recv_end>>
        \/ pc' = "drain" /\ reading' = inbox[s] /\ recv_end' = link[s]
    BY DEF OnReadable
  <2>3. inbox' = inbox \/ inbox' = [inbox EXCEPT ![s] = <<>>]
    BY DEF OnReadable
  <2>4. inbox' \in [Sessions -> Seq(Message)]
    BY <2>1, <2>3
  <2> QED BY <1>2, <1>3, <2>1, <2>2, <2>4
<1>8. TypeReactor'
  BY <1>1, <1>4, <1>7 DEF Typed, TypeReactor
<1>9. TypeSockets'
  BY <1>1, <1>7 DEF Typed, TypeSockets
<1>10. /\ TypeClients' /\ SocketInv' /\ DeferredReplyFindsAsker' /\ TimeInv'
       /\ DOMAIN clients' = DOMAIN clients
       /\ \A f \in DOMAIN clients : f # e.fd => clients'[f] = clients[f]
  <2>1. CASE clients' = clients
    BY <1>1, <2>1, SameTypes, SameParts
  <2>2. CASE clients' = [clients EXCEPT ![e.fd] = Failed(clients[e.fd])]
    <3> DEFINE c == Failed(clients[e.fd])
    <3>1. Kin(c, clients[e.fd]) /\ SignInv(clients[e.fd])
      BY <1>1, <1>3, FailedKin DEF SimInv, TimeInv
    <3>2. c \in Client /\ c.peer = clients[e.fd].peer /\ SignInv(c)
      BY <1>3, <3>1, KinSign DEF Kin
    <3> HIDE DEF c
    <3> QED BY <1>1, <2>2, <3>2, UpdateSteps DEF c
  <2> QED BY <1>6, <2>1, <2>2
<1>11. ReactorInv'
  BY <1>1, <1>2, <1>7, <1>10 DEF ReactorInv
<1>12. ArmedInv'
  BY <1>1, <1>2, <1>10 DEF SimInv, ArmedInv
<1> QED BY <1>5, <1>8, <1>9, <1>10, <1>11, <1>12 DEF SimInv, Typed

\* One message is handled: the parts of the invariant that do not depend on which.
LEMMA HandleSteps ==
  ASSUME SimInv, NEW fd \in DOMAIN clients, NEW m, NEW o, Handle(m, fd, o),
         o.client \in Client, o.client.peer = clients[fd].peer, o.sent \in Seq(Message),
         SignInv(o.client)
  PROVE  /\ TypeClock' /\ TypeReactor' /\ TypeClients' /\ TypeSockets'
         /\ ReactorInv' /\ SocketInv' /\ ArmedInv' /\ TimeInv'
         /\ pending_replies' = pending_replies => DeferredReplyFindsAsker' /\ TypeReplies'
         /\ \A f \in DOMAIN clients : clients'[f].peer = clients[f].peer
         /\ DOMAIN clients' = DOMAIN clients /\ todo' = todo
<1> USE DEF clock, peers
<1> DEFINE c == o.client
           s == clients[fd].peer
<1>1. /\ Typed /\ pc = "drain" /\ reading # <<>> /\ current # {} /\ \A e \in current : e.fd = fd
      /\ clients' = [clients EXCEPT ![fd] = c]
      /\ received' = [received EXCEPT ![s] = received[s] \o o.sent]
      /\ UNCHANGED <<clock, batch, events, current, todo, dropping, listen_edge,
                     backlog, link, inbox, sent>>
  BY DEF SimInv, Handle, Deliver
<1>2. /\ \/ pc' = "finish" /\ reading' = <<>> /\ recv_end' = "open"
         \/ pc' = "drain" /\ reading' = Tail(reading) /\ recv_end' = recv_end
  BY DEF Handle
<1>3. /\ DOMAIN clients' = DOMAIN clients
      /\ \A f \in DOMAIN clients : clients'[f].peer = clients[f].peer
      /\ TypeClients' /\ SocketInv' /\ ArmedInv' /\ TimeInv'
      /\ pending_replies' = pending_replies => DeferredReplyFindsAsker'
  <2> HIDE DEF c
  <2>1. c \in Client /\ c.peer = clients[fd].peer /\ SignInv(c)
    BY DEF c
  <2> QED BY <1>1, <2>1, UpdateSteps
<1>4. TypeClock' /\ (pending_replies' = pending_replies => TypeReplies')
  BY <1>1, SameTypes
<1>5. reading' \in Seq(Message)
  <2>1. <<>> \in Seq(Message)
    BY EmptySeq
  <2>2. Tail(reading) \in Seq(Message)
    BY <1>1, HeadTailProperties DEF Typed, TypeReactor
  <2> QED BY <1>2, <2>1, <2>2
<1>6. TypeReactor'
  BY <1>1, <1>2, <1>5 DEF Typed, TypeReactor, Up
<1>7. TypeSockets'
  <2>1. s \in Sessions /\ received[s] \in Seq(Message)
    BY <1>1, ClientFields DEF Typed, TypeClients, TypeSockets
  <2>2. received[s] \o o.sent \in Seq(Message)
    BY <2>1, ConcatProperties
  <2> QED BY <1>1, <2>2 DEF Typed, TypeSockets
<1>8. ReactorInv'
  BY <1>1, <1>2, <1>3 DEF SimInv, ReactorInv
<1> QED BY <1>1, <1>3, <1>4, <1>6, <1>7, <1>8

\* A CONNECT_HELLO, a PING in each of its three ways, or a failure.
LEMMA HandleMessageKeeps == SimInv /\ HandleMessage => SimInv'
<1> SUFFICES ASSUME SimInv, HandleMessage PROVE SimInv'
  OBVIOUS
<1>0. Typed
  BY DEF SimInv
<1>1. PICK m \in {reading[i] : i \in DOMAIN reading}, fd \in DOMAIN clients :
        \/ HandleConnectHello(m, fd) \/ HandlePingDropped(m, fd) \/ HandlePingDeferred(m, fd)
        \/ HandlePingAnswered(m, fd) \/ HandleFailure(m, fd)
  BY DEF HandleMessage
<1> DEFINE client == clients[fd]
<1>2. m \in Message
  <2>1. reading \in Seq(Message)
    BY <1>0 DEF Typed, TypeReactor
  <2> QED BY <2>1, ElementOfSeq, LenProperties
<1>3. client \in Client /\ SignInv(client)
  BY <1>0 DEF SimInv, Typed, TypeClients, TimeInv
<1>4. batch_now \in 0 .. MaxTime /\ batch_now \in Nat /\ tick_now \in Nat
        /\ tick_now - batch_now <= TickGap
  BY <1>0, Numbers DEF Typed, TypeClock, SimInv, TimeInv
<1>5. tick_now - batch_now < HeartbeatTimeout
  BY <1>4, Numbers
<1>6. m.sequence \in 0 .. MaxPings
  BY <1>2 DEF Message
<1>7. ASSUME NEW o, Handle(m, fd, o), o.client \in Client, o.client.peer = client.peer,
             o.sent \in Seq(Message), SignInv(o.client), pending_replies' = pending_replies
      PROVE  SimInv'
  BY <1>7, HandleSteps DEF SimInv, Typed
<1>8. CASE HandleConnectHello(m, fd)
  <2>1. PICK o \in QueueOutcomes(client, Msg("kConnectAck", 0)) :
          Handle(m, fd, [o EXCEPT !.client = [@ EXCEPT !.state = "kHealthy",
                                                      !.state_entered = batch_now,
                                                      !.last_liveness = batch_now]])
    BY <1>8 DEF HandleConnectHello
  <2> DEFINE c == [o.client EXCEPT !.state = "kHealthy", !.state_entered = batch_now,
                                   !.last_liveness = batch_now]
             q == [o EXCEPT !.client = c]
  <2>2. Outcome(o, client, Append(client.write_pending, Msg("kConnectAck", 0)))
    <3>1. Msg("kConnectAck", 0) \in Message
      BY Numbers DEF Msg, Message
    <3> QED BY <1>3, <3>1, QueueSteps
  <2>3. o.client \in Client /\ o.client.peer = client.peer /\ o.sent \in Seq(Message)
    BY <2>2 DEF Outcome, Kin
  <2>4. c \in Client /\ c.peer = client.peer /\ c.state = "kHealthy"
          /\ c.state_entered = batch_now /\ c.last_liveness = batch_now
    BY <1>4, <2>3 DEF Client
  <2>5. SignInv(c)
    <3> HIDE DEF c
    <3>1. LastSign(c) = batch_now /\ batch_now <= batch_now
      BY <1>4, <2>4 DEF LastSign
    <3> QED BY <1>5, <2>4, <3>1 DEF SignInv
  <2>6. Handle(m, fd, q)
    BY <2>1
  <2>7. q.client = c /\ q.sent = o.sent
    <3>1. DOMAIN o = {"client", "sent"}
      BY <2>2 DEF Outcome
    <3> QED BY <3>1
  <2>8. pending_replies' = pending_replies
    BY <1>8 DEF HandleConnectHello
  <2> HIDE DEF c, q
  <2> QED BY <1>7, <2>3, <2>4, <2>5, <2>6, <2>7, <2>8
<1>10. CASE HandleFailure(m, fd)
  <2> DEFINE o == [client |-> Failed(client), sent |-> <<>>]
  <2>1. Handle(m, fd, o) /\ pending_replies' = pending_replies
    BY <1>10 DEF HandleFailure
  <2>2. Kin(Failed(client), client)
    BY <1>3, FailedKin
  <2>3. SignInv(Failed(client))
    BY <1>3, <2>2, KinSign
  <2>4. o.client = Failed(client) /\ o.sent \in Seq(Message)
    BY EmptySeq
  <2> HIDE DEF o
  <2> QED BY <1>7, <2>1, <2>2, <2>3, <2>4 DEF Kin
<1>9. CASE IsPing(m, fd)
  <2> DEFINE c == Pinged(fd)
  <2>1. c \in Client /\ c.peer = client.peer /\ c.state = "kHealthy"
          /\ c.last_liveness = batch_now /\ c.state_entered = client.state_entered
    BY <1>3, <1>4, <1>9 DEF Pinged, Client, IsPing
  <2>2. SignInv(c)
    <3>1. client.state_entered <= client.last_liveness /\ client.last_liveness <= batch_now
      BY <1>3, <1>9 DEF IsPing, SignInv
    <3>2. client.state_entered \in Nat /\ client.last_liveness \in Nat
      BY <1>3, ClientFields, Numbers
    <3>3. client.state_entered <= batch_now
      BY <1>4, <3>1, <3>2
    <3> HIDE DEF c
    <3>4. LastSign(c) = batch_now /\ batch_now <= batch_now
      BY <1>4, <2>1, <3>2, <3>3 DEF LastSign
    <3> QED BY <1>5, <2>1, <3>3, <3>4 DEF SignInv
  <2> HIDE DEF c
  <2>3. CASE HandlePingDropped(m, fd)
    <3> DEFINE o == [client |-> c, sent |-> <<>>]
    <3>1. Handle(m, fd, o) /\ pending_replies' = pending_replies
      BY <2>3 DEF HandlePingDropped, c
    <3>2. o.client = c /\ o.sent \in Seq(Message)
      BY EmptySeq
    <3> HIDE DEF o
    <3> QED BY <1>7, <2>1, <2>2, <3>1, <3>2
  <2>4. CASE HandlePingAnswered(m, fd)
    <3>1. PICK o \in PongOutcomes(c, m.sequence) : Handle(m, fd, o)
      BY <2>4 DEF HandlePingAnswered, c
    <3>2. Outcome(o, c, Append(c.write_pending, Msg("kPong", m.sequence)))
      BY <1>6, <2>1, PongSteps
    <3>3. o.client \in Client /\ o.client.peer = client.peer /\ o.sent \in Seq(Message)
      BY <2>1, <3>2 DEF Outcome, Kin
    <3>4. SignInv(o.client)
      BY <2>1, <2>2, <3>2, KinSign DEF Outcome
    <3>5. pending_replies' = pending_replies
      BY <2>4 DEF HandlePingAnswered
    <3> QED BY <1>7, <3>1, <3>3, <3>4, <3>5
  <2>5. CASE HandlePingDeferred(m, fd)
    <3> DEFINE o == [client |-> c, sent |-> <<>>]
    <3>1. PICK d \in Delays : pending_replies' = Append(pending_replies,
            [fire_at |-> now + d, fd |-> fd, sequence |-> m.sequence, asker |-> client.peer])
      BY <2>5 DEF HandlePingDeferred
    <3> DEFINE reply == [fire_at |-> now + d, fd |-> fd, sequence |-> m.sequence,
                         asker |-> client.peer]
               n == Len(pending_replies)
    <3>2. Handle(m, fd, o) /\ o.client = c /\ o.sent \in Seq(Message)
      BY <2>5, EmptySeq DEF HandlePingDeferred, c
    <3>3. reply \in PendingReply /\ reply.fd = fd /\ reply.asker = client.peer
      <4>1. now + d \in Nat
        BY <1>0, SimulatorAssumption, Numbers DEF Typed, TypeClock
      <4>2. fd \in Fds /\ client.peer \in Sessions
        BY <1>0, <1>3, ClientFields DEF Typed, TypeClients
      <4> QED BY <1>6, <4>1, <4>2 DEF PendingReply
    <3> HIDE DEF o, reply, client
    <3>4. /\ TypeClock' /\ TypeReactor' /\ TypeClients' /\ TypeSockets'
          /\ ReactorInv' /\ SocketInv' /\ ArmedInv' /\ TimeInv'
          /\ \A f \in DOMAIN clients : clients'[f].peer = clients[f].peer
          /\ DOMAIN clients' = DOMAIN clients /\ todo' = todo
      BY <2>1, <2>2, <3>2, HandleSteps DEF client
    <3>5. pending_replies \in Seq(PendingReply) /\ n \in Nat /\ todo \in 0 .. n
            /\ DOMAIN pending_replies = 1 .. n
      BY <1>0, LenProperties DEF Typed, TypeReplies
    <3>6. pending_replies' = Append(pending_replies, reply)
      BY <3>1 DEF reply, client
    <3>7. pending_replies' \in Seq(PendingReply) /\ Len(pending_replies') = n + 1
            /\ pending_replies'[n + 1] = reply
            /\ \A i \in 1 .. n : pending_replies'[i] = pending_replies[i]
      BY <3>3, <3>5, <3>6, AppendProperties
    <3>8. DOMAIN pending_replies' = 1 .. n + 1
      BY <3>7, LenProperties
    <3> HIDE DEF n
    <3>9. todo \in 0 .. n + 1 /\ \A i \in 1 .. n + 1 : i = n + 1 \/ i \in 1 .. n
      BY <3>5
    <3>10. TypeReplies'
      BY <3>4, <3>7, <3>9 DEF TypeReplies
    <3>11. DeferredReplyFindsAsker'
      <4> SUFFICES ASSUME NEW i \in 1 .. n + 1
                   PROVE  /\ pending_replies'[i].fd \in DOMAIN clients'
                          /\ clients'[pending_replies'[i].fd].peer = pending_replies'[i].asker
        BY <3>8 DEF DeferredReplyFindsAsker
      <4>1. CASE i = n + 1
        BY <3>3, <3>4, <3>7, <4>1 DEF client
      <4>2. CASE i \in 1 .. n
        BY <3>4, <3>5, <3>7, <4>2 DEF SimInv, DeferredReplyFindsAsker
      <4> QED BY <3>9, <4>1, <4>2
    <3> QED BY <3>4, <3>10, <3>11 DEF SimInv, Typed
  <2> QED BY <1>1, <1>8, <2>3, <2>4, <2>5, <1>10
<1>11. ~IsPing(m, fd) => HandleConnectHello(m, fd) \/ HandleFailure(m, fd)
  BY <1>1 DEF HandlePingDropped, HandlePingDeferred, HandlePingAnswered
<1> QED BY <1>8, <1>9, <1>10, <1>11

\* The end of drain_read_buffer: EOF or an error fails the client.
LEMMA DrainDoneKeeps == SimInv /\ DrainDone => SimInv'
<1> SUFFICES ASSUME SimInv, DrainDone PROVE SimInv'
  OBVIOUS
<1> USE DEF clock, peers
<1>1. /\ Typed /\ pc = "drain" /\ reading = <<>> /\ pc' = "finish" /\ recv_end' = "open"
      /\ UNCHANGED <<clock, batch, events, current, reading, todo, pending_replies, dropping,
                     listen_edge, backlog, peers>>
  BY DEF SimInv, DrainDone
<1>2. /\ DOMAIN clients' = DOMAIN clients
      /\ \A f \in DOMAIN clients : \/ clients'[f] = clients[f]
                                   \/ clients'[f] = Failed(clients[f]) /\ \E e \in current : e.fd = f
  BY DEF DrainDone
<1>3. \A f \in DOMAIN clients : Kin(clients'[f], clients[f]) /\ clients[f] \in Client
  BY <1>1, <1>2, FailedKin, SelfKin DEF Typed, TypeClients
<1>4. TypeClock' /\ TypeReplies' /\ TypeSockets'
  BY <1>1, SameTypes
<1>5. TypeReactor'
  BY <1>1 DEF Typed, TypeReactor, Up
<1>6. TypeClients' /\ \A f \in DOMAIN clients : clients'[f].peer = clients[f].peer
  BY <1>1, <1>2, <1>3 DEF Typed, TypeClients, Kin
<1>7. ReactorInv'
  BY <1>1, <1>2 DEF SimInv, ReactorInv
<1>8. SocketInv'
  BY <1>1, <1>2, <1>6 DEF SimInv, SocketInv
<1>9. DeferredReplyFindsAsker'
  BY <1>1, <1>2, <1>6 DEF SimInv, DeferredReplyFindsAsker
<1>10. ArmedInv'
  BY <1>1, <1>2 DEF SimInv, ArmedInv
<1>11. TimeInv'
  <2>1. \A f \in DOMAIN clients : SignInv(clients'[f])
    BY <1>3, KinSign DEF SimInv, TimeInv
  <2>2. \A f \in DOMAIN clients' : SignInv(clients[f])'
    BY <1>1, <1>2, <2>1 DEF SignInv, LastSign
  <2> QED BY <1>1, <2>2 DEF SimInv, TimeInv
<1> QED BY <1>4, <1>5, <1>6, <1>7, <1>8, <1>9, <1>10, <1>11 DEF SimInv, Typed

\* sync_epoll_interest changes what is armed, and nothing else.
LEMMA SyncedSteps ==
  ASSUME NEW client \in Client
  PROVE  /\ Synced(client) \in Client /\ Synced(client).peer = client.peer
         /\ Synced(client).write_pending = client.write_pending
         /\ Synced(client).state = client.state
         /\ Synced(client).write_pending # <<>> => Synced(client).epollout
         /\ SignInv(client) => SignInv(Synced(client))
<1> DEFINE armed == client.write_pending # <<>>
           c == Synced(client)
<1>1. armed \in BOOLEAN
  OBVIOUS
<1>2. c = [client EXCEPT !.epollout = armed]
  BY DEF Synced
<1> HIDE DEF armed, c
<1>3. /\ c \in Client /\ c.peer = client.peer /\ c.write_pending = client.write_pending
      /\ c.state = client.state /\ c.state_entered = client.state_entered
      /\ c.last_liveness = client.last_liveness /\ c.epollout = armed
  BY <1>1, <1>2 DEF Client
<1>4. c.write_pending # <<>> => c.epollout
  BY <1>3 DEF armed
<1>5. SignInv(client) => SignInv(c)
  BY <1>3 DEF SignInv, LastSign
<1> QED BY <1>3, <1>4, <1>5 DEF c

\* The end of handle_client_event.
LEMMA FinishEventKeeps == ASSUME SimInv, NEW e \in current, FinishEvent(e) PROVE SimInv'
<1> USE DEF clock, peers
<1> DEFINE client == clients[e.fd]
<1>1. /\ Typed /\ pc = "finish" /\ pc' = "loop" /\ current' = {} /\ e.fd \in DOMAIN clients
      /\ UNCHANGED <<clock, batch, events, reading, recv_end, todo, dropping, listen_edge,
                     backlog, sent>>
  BY DEF SimInv, FinishEvent, ReactorInv
<1>2. client \in Client /\ SignInv(client) /\ client.peer \in Sessions
  BY <1>1, ClientFields DEF Typed, TypeClients, SimInv, TimeInv
<1>3. PICK o \in IF e.out /\ client.state # "kFailed" THEN FlushOutcomes(client)
                 ELSE {[client |-> client, sent |-> <<>>]} :
        /\ Deliver(client.peer, o.sent)
        /\ IF o.client.state = "kFailed"
           THEN RemoveClients({e.fd})
           ELSE /\ clients' = [clients EXCEPT ![e.fd] = Synced(o.client)]
                /\ UNCHANGED <<pending_replies, link, inbox>>
  BY DEF FinishEvent
<1>4. Outcome(o, client, client.write_pending)
  <2>1. CASE o \in FlushOutcomes(client)
    BY <1>2, <2>1, FlushSteps
  <2>2. CASE o = [client |-> client, sent |-> <<>>]
    BY <1>2, <2>2, SelfKin, NothingSent
  <2> QED BY <2>1, <2>2
<1>5. reading = <<>> /\ todo = 0 /\ \A d \in current : d.fd = e.fd
  BY <1>1 DEF SimInv, ReactorInv, Typed, TypeReplies
<1>6. received' \in [Sessions -> Seq(Message)]
  <2>1. received \in [Sessions -> Seq(Message)] /\ o.sent \in Seq(Message)
    BY <1>1, <1>4 DEF Typed, TypeSockets, Outcome
  <2>2. received[client.peer] \o o.sent \in Seq(Message)
    BY <1>2, <2>1, ConcatProperties
  <2>3. received' = [received EXCEPT ![client.peer] = received[client.peer] \o o.sent]
    BY <1>3 DEF Deliver
  <2> QED BY <2>1, <2>2, <2>3
<1>7. TypeClock' /\ TypeReactor'
  <2>1. Cardinality(current') = 0
    BY <1>1, FS_EmptySet
  <2> QED BY <1>1, <2>1, SameTypes DEF Typed, TypeReactor
<1>8. ReactorInv'
  BY <1>1, <1>5 DEF ReactorInv
<1>9. CASE o.client.state = "kFailed"
  <2>1. RemoveClients({e.fd})
    BY <1>3, <1>9
  <2>2. /\ TypeClients' /\ pending_replies' \in Seq(PendingReply)
        /\ link' \in [Sessions -> {"idle", "open", "eof", "reset", "gone"}]
        /\ inbox' \in [Sessions -> Seq(Message)]
        /\ SocketInv' /\ DeferredReplyFindsAsker'
    BY <1>1, <2>1, RemoveSteps
  <2>3. TimeInv'
    BY <1>1, <2>1, RemoveParts
  <2>4. ArmedInv'
    BY <1>1, <1>5, <2>1, RemoveParts
  <2>5. TypeReplies'
    <3>1. Len(pending_replies') \in Nat
      BY <2>2, LenProperties
    <3>2. 0 \in 0 .. Len(pending_replies')
      BY <3>1
    <3> QED BY <1>1, <1>5, <2>2, <3>2 DEF TypeReplies
  <2>6. TypeSockets'
    BY <1>1, <1>6, <2>2 DEF Typed, TypeSockets
  <2> QED BY <1>7, <1>8, <2>2, <2>3, <2>4, <2>5, <2>6 DEF SimInv, Typed
<1>10. CASE o.client.state # "kFailed"
  <2> DEFINE c == Synced(o.client)
  <2>1. clients' = [clients EXCEPT ![e.fd] = c] /\ UNCHANGED <<pending_replies, link, inbox>>
    BY <1>3, <1>10
  <2>2. o.client \in Client /\ o.client.peer = client.peer /\ SignInv(o.client)
    BY <1>2, <1>4, KinSign DEF Outcome, Kin
  <2>3. c \in Client /\ c.peer = client.peer /\ SignInv(c) /\ (c.write_pending # <<>> => c.epollout)
    BY <2>2, SyncedSteps
  <2> HIDE DEF c
  <2>4. /\ DOMAIN clients' = DOMAIN clients /\ clients'[e.fd] = c
        /\ \A f \in DOMAIN clients : f # e.fd => clients'[f] = clients[f]
        /\ TypeClients' /\ SocketInv' /\ DeferredReplyFindsAsker' /\ TimeInv'
    BY <1>1, <2>1, <2>3, UpdateSteps
  <2>5. ArmedInv'
    BY <1>1, <1>5, <2>3, <2>4 DEF SimInv, ArmedInv
  <2>6. TypeReplies'
    BY <1>1, <2>1, SameTypes
  <2>7. TypeSockets'
    BY <1>1, <1>6, <2>1 DEF Typed, TypeSockets
  <2> QED BY <1>7, <1>8, <2>4, <2>5, <2>6, <2>7 DEF SimInv, Typed
<1> QED BY <1>9, <1>10

-----------------------------------------------------------------------------
(* on_timer_tick                                                           *)

\* The clients that have timed out are removed.
LEMMA TickReapKeeps == SimInv /\ TickReap => SimInv'
<1> SUFFICES ASSUME SimInv, TickReap PROVE SimInv'
  OBVIOUS
<1> USE DEF peers
<1> DEFINE fds == {f \in DOMAIN clients : CheckTimeout(clients[f])}
<1>1. /\ Typed /\ pc = "loop" /\ "timer" \in batch /\ batch' = batch \ {"timer"}
      /\ tick_now' = now /\ RemoveClients(fds) /\ todo' = Len(pending_replies')
      /\ pc' = IF todo' = 0 THEN "loop" ELSE "replies"
      /\ UNCHANGED <<now, batch_now, events, current, reading, recv_end, dropping, listen_edge,
                     backlog, sent, received>>
  BY DEF SimInv, TickReap, RepliesToVisit
<1>2. current = {} /\ reading = <<>>
  BY <1>1 DEF SimInv, ReactorInv
<1>3. fds \in SUBSET DOMAIN clients
  OBVIOUS
<1>4. /\ DOMAIN clients' = DOMAIN clients \ fds
      /\ \A f \in DOMAIN clients' : clients'[f] = clients[f]
      /\ TypeClients' /\ pending_replies' \in Seq(PendingReply)
      /\ link' \in [Sessions -> {"idle", "open", "eof", "reset", "gone"}]
      /\ inbox' \in [Sessions -> Seq(Message)]
      /\ SocketInv' /\ DeferredReplyFindsAsker'
  <2> HIDE DEF fds
  <2> QED BY <1>1, <1>3, RemoveSteps
<1>5. ArmedInv'
  BY <1>1, <1>2, <1>4 DEF SimInv, ArmedInv
<1>6. Len(pending_replies') \in Nat
  BY <1>4, LenProperties
<1>7. TypeReplies'
  <2>1. Len(pending_replies') \in 0 .. Len(pending_replies')
    BY <1>6
  <2> QED BY <1>1, <1>4, <2>1 DEF TypeReplies
<1>8. TypeClock' /\ TypeReactor'
  BY <1>1 DEF Typed, TypeClock, TypeReactor
<1>9. TypeSockets'
  BY <1>1, <1>4 DEF Typed, TypeSockets
<1>10. ReactorInv'
  <2>1. todo' > 0 => pc' = "replies"
    BY <1>1, <1>6
  <2>2. pc' \notin {"drain", "finish"}
    BY <1>1
  <2> QED BY <1>1, <1>2, <2>1, <2>2 DEF ReactorInv
<1>11. TimeInv'
  <2>1. now \in Nat /\ batch_now \in Nat /\ tick_now \in Nat
    BY <1>1, Numbers DEF Typed, TypeClock
  <2>2. /\ tick_now <= batch_now /\ batch_now <= now /\ now - tick_now <= TickGap
    BY <1>1 DEF SimInv, TimeInv
  <2>3. now <= now /\ now - now <= TickGap /\ now - batch_now <= TickGap
    BY <2>1, <2>2, Numbers
  <2>4. ASSUME NEW f \in DOMAIN clients' PROVE SignInv(clients[f])'
    <3> DEFINE c == clients[f]
    <3>1. c \in Client /\ SignInv(c) /\ ~CheckTimeout(c) /\ clients'[f] = c
      BY <1>1, <1>4 DEF Typed, TypeClients, SimInv, TimeInv
    <3>2. c.state_entered \in Nat /\ c.last_liveness \in Nat
            /\ c.state \in {"kHandshaking", "kHealthy", "kFailed"}
      BY <3>1, ClientFields, Numbers
    <3> HIDE DEF c
    <3>3. CASE c.state = "kHandshaking"
      <4>1. now - c.state_entered < HeartbeatTimeout
        BY <2>1, <3>1, <3>2, <3>3, Numbers DEF CheckTimeout
      <4>2. LastSign(c) = c.state_entered
        BY <3>1, <3>2, <3>3 DEF SignInv, LastSign
      <4> QED BY <1>1, <3>1, <3>3, <4>1, <4>2 DEF SignInv, LastSign
    <3>4. CASE c.state = "kHealthy"
      <4>1. now - c.last_liveness < HeartbeatTimeout
        BY <2>1, <3>1, <3>2, <3>4, Numbers DEF CheckTimeout
      <4>2. c.state_entered <= c.last_liveness
        BY <3>1, <3>4 DEF SignInv
      <4>3. LastSign(c) = c.last_liveness
        BY <3>2, <4>2 DEF LastSign
      <4> QED BY <1>1, <3>1, <3>4, <4>1, <4>3 DEF SignInv, LastSign
    <3>5. CASE c.state = "kFailed"
      BY <3>1, <3>5 DEF SignInv
    <3> QED BY <3>2, <3>3, <3>4, <3>5
  <2>5. "timer" \notin batch'
    BY <1>1
  <2> QED BY <1>1, <2>2, <2>3, <2>4, <2>5 DEF TimeInv
<1> QED BY <1>4, <1>5, <1>7, <1>8, <1>9, <1>10, <1>11 DEF SimInv, Typed

\* The reply at the front is one of the pending ones.
LEMMA FrontReply ==
  ASSUME SimInv, NextReply
  PROVE  /\ Head(pending_replies) \in PendingReply /\ Head(pending_replies).fd \in DOMAIN clients
         /\ clients[Head(pending_replies).fd].peer = Head(pending_replies).asker
         /\ Tail(pending_replies) \in Seq(PendingReply)
         /\ Len(Tail(pending_replies)) = Len(pending_replies) - 1 /\ Len(pending_replies) \in Nat
         /\ \A i \in 1 .. Len(pending_replies) - 1 :
              i + 1 \in DOMAIN pending_replies /\ Tail(pending_replies)[i] = pending_replies[i + 1]
         /\ todo - 1 \in 0 .. Len(pending_replies) - 1
<1> DEFINE q == pending_replies
           n == Len(pending_replies)
<1>1. q \in Seq(PendingReply) /\ n \in Nat /\ todo \in 0 .. n /\ todo > 0 /\ DOMAIN q = 1 .. n
  BY LenProperties DEF SimInv, Typed, TypeReplies, NextReply
<1>2. n > 0 /\ 1 \in 1 .. n /\ todo - 1 \in 0 .. n - 1
  BY <1>1
<1>3. q # <<>>
  BY <1>1, <1>2, EmptySeq
<1>4. Head(q) = q[1] /\ Head(q) \in PendingReply
  BY <1>1, <1>2, <1>3, HeadTailProperties, ElementOfSeq
<1>5. Tail(q) \in Seq(PendingReply) /\ Len(Tail(q)) = n - 1
        /\ \A i \in 1 .. n - 1 : Tail(q)[i] = q[i + 1]
  BY <1>1, <1>3, HeadTailProperties
<1>6. \A i \in 1 .. n - 1 : i + 1 \in 1 .. n
  BY <1>1
<1>7. Head(q).fd \in DOMAIN clients /\ clients[Head(q).fd].peer = Head(q).asker
  BY <1>1, <1>2, <1>4 DEF SimInv, DeferredReplyFindsAsker
<1> QED BY <1>1, <1>2, <1>4, <1>5, <1>6, <1>7

\* Replies that were pending and still are find whoever asked.
LEMMA StillPending ==
  ASSUME SimInv, NEW q \in Seq(PendingReply), pending_replies' = q,
         DOMAIN clients' = DOMAIN clients,
         \A f \in DOMAIN clients : clients'[f].peer = clients[f].peer,
         \A i \in 1 .. Len(q) : \E j \in DOMAIN pending_replies : q[i] = pending_replies[j]
  PROVE  DeferredReplyFindsAsker'
<1>1. DOMAIN q = 1 .. Len(q)
  BY LenProperties
<1> QED BY <1>1 DEF SimInv, DeferredReplyFindsAsker

\* A reply that is not due goes to the back.
LEMMA ReplyNotDueKeeps == SimInv /\ ReplyNotDue => SimInv'
<1> SUFFICES ASSUME SimInv, ReplyNotDue PROVE SimInv'
  OBVIOUS
<1> USE DEF clock, peers
<1> DEFINE p == Head(pending_replies)
           t == Tail(pending_replies)
           n == Len(pending_replies)
<1>1. /\ Typed /\ NextReply /\ pc = "replies" /\ todo' = todo - 1
      /\ pc' = (IF todo = 1 THEN "loop" ELSE "replies") /\ pending_replies' = Append(t, p)
      /\ UNCHANGED <<clock, batch, events, current, reading, recv_end, dropping, listen_edge,
                     backlog, link, inbox, sent, clients, received>>
  BY DEF SimInv, ReplyNotDue, NextReply
<1>2. TypeClock' /\ TypeClients' /\ TypeSockets'
  BY <1>1, SameTypes
<1>3. SocketInv' /\ ArmedInv' /\ TimeInv'
  BY <1>1, SameParts
<1>4. TypeReactor'
  BY <1>1 DEF Typed, TypeReactor
<1>5. /\ p \in PendingReply /\ t \in Seq(PendingReply) /\ Len(t) = n - 1 /\ n \in Nat
      /\ \A i \in 1 .. n - 1 : i + 1 \in DOMAIN pending_replies /\ t[i] = pending_replies[i + 1]
      /\ todo - 1 \in 0 .. n - 1
  BY <1>1, FrontReply
<1>6. pending_replies \in Seq(PendingReply) /\ DOMAIN pending_replies = 1 .. n /\ todo \in 0 .. n
  BY <1>1, LenProperties DEF Typed, TypeReplies
<1>7. n > 0 /\ 1 \in 1 .. n /\ n - 1 + 1 = n /\ todo - 1 \in 0 .. n
        /\ (todo - 1 > 0 => todo # 1) /\ \A i \in 1 .. n : i = n \/ i \in 1 .. n - 1
  <2> HIDE DEF n
  <2>1. n \in Nat /\ todo - 1 \in 0 .. n - 1 /\ todo \in 0 .. n
    BY <1>5, <1>6
  <2> QED BY <2>1
<1>8. p = pending_replies[1]
  <2>1. Len(pending_replies) # 0
    <3> HIDE DEF n
    <3>1. n # 0
      BY <1>5, <1>7
    <3> QED BY <3>1 DEF n
  <2>2. pending_replies # <<>>
    BY <2>1, EmptySeq
  <2> QED BY <1>6, <2>2, HeadTailProperties
<1> DEFINE q == Append(t, p)
<1>9. q \in Seq(PendingReply) /\ Len(q) = n /\ q[n] = p /\ \A i \in 1 .. n - 1 : q[i] = t[i]
  <2> HIDE DEF p, t, n
  <2>1. q \in Seq(PendingReply) /\ Len(q) = Len(t) + 1 /\ q[Len(t) + 1] = p
          /\ \A i \in 1 .. Len(t) : q[i] = t[i]
    BY <1>5, AppendProperties
  <2> QED BY <1>5, <1>7, <2>1
<1> HIDE DEF p, t, n, q
<1>10. TypeReplies'
  BY <1>1, <1>7, <1>9 DEF TypeReplies, q
<1>11. DeferredReplyFindsAsker'
  <2>1. \A i \in 1 .. Len(q) : \E j \in DOMAIN pending_replies : q[i] = pending_replies[j]
    BY <1>5, <1>6, <1>7, <1>8, <1>9
  <2>2. pending_replies' = q
    BY <1>1 DEF q
  <2> QED BY <1>1, <1>9, <2>1, <2>2, StillPending
<1>12. ReactorInv'
  BY <1>1, <1>7 DEF SimInv, ReactorInv
<1> QED BY <1>2, <1>3, <1>4, <1>10, <1>11, <1>12 DEF SimInv, Typed

\* A reply that is due is sent, or queued and EPOLLOUT armed.
LEMMA ReplyDueKeeps == SimInv /\ ReplyDue => SimInv'
<1> SUFFICES ASSUME SimInv, ReplyDue PROVE SimInv'
  OBVIOUS
<1> USE DEF clock, peers
<1> DEFINE p == Head(pending_replies)
           t == Tail(pending_replies)
           n == Len(pending_replies)
           client == clients[p.fd]
<1>1. /\ Typed /\ NextReply /\ pc = "replies" /\ todo' = todo - 1
      /\ pc' = (IF todo = 1 THEN "loop" ELSE "replies") /\ pending_replies' = t
      /\ UNCHANGED <<clock, batch, events, current, reading, recv_end, dropping, listen_edge,
                     backlog, link, inbox, sent>>
  BY DEF SimInv, ReplyDue, NextReply
<1>2. /\ p \in PendingReply /\ p.fd \in DOMAIN clients
      /\ t \in Seq(PendingReply) /\ Len(t) = n - 1 /\ n \in Nat
      /\ \A i \in 1 .. n - 1 : i + 1 \in DOMAIN pending_replies /\ t[i] = pending_replies[i + 1]
      /\ todo - 1 \in 0 .. n - 1
  BY <1>1, FrontReply
<1>3. client \in Client /\ SignInv(client) /\ client.peer \in Sessions /\ p.sequence \in 0 .. MaxPings
  BY <1>1, <1>2, ClientFields DEF Typed, TypeClients, SimInv, TimeInv, PendingReply
<1>4. PICK o \in PongOutcomes(client, p.sequence) :
        /\ clients' = [clients EXCEPT ![p.fd] = Synced(o.client)]
        /\ Deliver(client.peer, o.sent)
  BY <1>2 DEF ReplyDue, AfterReply
<1>5. o.client \in Client /\ o.client.peer = client.peer /\ SignInv(o.client) /\ o.sent \in Seq(Message)
  <2>1. CASE client.state = "kHealthy"
    <3>1. Outcome(o, client, Append(client.write_pending, Msg("kPong", p.sequence)))
      BY <1>3, <2>1, PongSteps
    <3> QED BY <1>3, <3>1, KinSign DEF Outcome, Kin
  <2>2. CASE client.state # "kHealthy"
    <3>1. o.client = client /\ o.sent = <<>>
      BY <1>3, <2>2, PongSteps
    <3> QED BY <1>3, <3>1, EmptySeq
  <2> QED BY <2>1, <2>2
<1> DEFINE c == Synced(o.client)
           fd == p.fd
<1>6. c \in Client /\ c.peer = client.peer /\ SignInv(c) /\ (c.write_pending # <<>> => c.epollout)
  BY <1>5, SyncedSteps
<1>7. clients' = [clients EXCEPT ![fd] = c] /\ fd \in DOMAIN clients /\ c.peer = clients[fd].peer
  BY <1>2, <1>4, <1>6
<1>8. received' \in [Sessions -> Seq(Message)]
  <2>1. received \in [Sessions -> Seq(Message)]
    BY <1>1 DEF Typed, TypeSockets
  <2>2. received[client.peer] \o o.sent \in Seq(Message)
    BY <1>3, <1>5, <2>1, ConcatProperties
  <2>3. received' = [received EXCEPT ![client.peer] = received[client.peer] \o o.sent]
    BY <1>4 DEF Deliver
  <2> QED BY <2>1, <2>2, <2>3
<1> HIDE DEF c, fd, t, n
<1>9. /\ DOMAIN clients' = DOMAIN clients /\ clients'[fd] = c
      /\ \A f \in DOMAIN clients : f # fd => clients'[f] = clients[f]
      /\ \A f \in DOMAIN clients : clients'[f].peer = clients[f].peer
      /\ TypeClients' /\ SocketInv' /\ TimeInv'
  BY <1>1, <1>6, <1>7, UpdateSteps
<1>10. current = {}
  BY <1>1 DEF SimInv, ReactorInv
<1>11. ArmedInv'
  BY <1>1, <1>6, <1>9, <1>10 DEF SimInv, ArmedInv
<1>12. TypeClock'
  BY <1>1, SameTypes
<1>13. TypeReactor' /\ TypeSockets'
  BY <1>1, <1>8 DEF Typed, TypeReactor, TypeSockets
<1>14. TypeReplies'
  BY <1>1, <1>2 DEF TypeReplies
<1>15. DeferredReplyFindsAsker'
  <2>1. \A i \in 1 .. Len(t) : \E j \in DOMAIN pending_replies : t[i] = pending_replies[j]
    BY <1>2
  <2> QED BY <1>1, <1>2, <1>9, <2>1, StillPending
<1>16. ReactorInv'
  <2>1. todo' > 0 => pc' = "replies"
    BY <1>1, <1>2
  <2>2. reading = <<>>
    BY <1>1 DEF SimInv, ReactorInv
  <2> QED BY <1>1, <1>10, <2>1, <2>2 DEF ReactorInv
<1> QED BY <1>9, <1>11, <1>12, <1>13, <1>14, <1>15, <1>16 DEF SimInv, Typed

-----------------------------------------------------------------------------
(* The theorems                                                            *)

\* The simulator, its clients and the clock keep SimInv.
THEOREM SimulatorCorrect == Spec => []SimInv
<1>1. SimInv /\ [Next]_vars => SimInv'
  <2> SUFFICES ASSUME SimInv, [Next]_vars PROVE SimInv'
    OBVIOUS
  <2>1. CASE Environment
    BY <2>1, AdvanceKeeps, PeerConnectKeeps, PeerSendKeeps, PeerCloseKeeps DEF Environment
  <2>2. CASE Reactor
    BY <2>2, EpollWaitKeeps, MovesKeep, AcceptClientKeeps, AcceptAbortedKeeps, RemovalKeeps,
       OnReadableKeeps, HandleMessageKeeps, DrainDoneKeeps, FinishEventKeeps, TickReapKeeps,
       ReplyNotDueKeeps, ReplyDueKeeps DEF Reactor
  <2>3. CASE UNCHANGED vars
    <3>1. /\ UNCHANGED <<clock, pc, batch, events, current, reading, recv_end, todo>>
          /\ UNCHANGED <<clients, pending_replies, dropping, listen_edge, backlog, peers>>
          /\ UNCHANGED link
      BY <2>3 DEF vars, reactor, peers
    <3> QED BY <3>1, SameTypes, SameParts DEF SimInv, Typed
  <2> QED BY <2>1, <2>2, <2>3 DEF Next
<1> QED BY InitSim, <1>1, PTL DEF Spec

\* Every variable keeps its type.
THEOREM SimulatorTypeCorrect == Spec => []TypeOK
<1>1. SimInv => TypeOK
  BY TypeParts DEF SimInv
<1> QED BY <1>1, SimulatorCorrect, PTL

\* A deferred PONG goes to the client that asked: remove_client purges the
\* replies of a descriptor before accept4() can hand its number out again.
THEOREM DeferredReplyCorrect == Spec => []DeferredReplyFindsAsker
<1>1. SimInv => DeferredReplyFindsAsker
  BY DEF SimInv
<1> QED BY <1>1, SimulatorCorrect, PTL

\* Whatever handle_client_event and on_timer_tick queue, sync_epoll_interest has
\* armed EPOLLOUT when the reactor is back in its loop.
THEOREM UnsentBytesCorrect == Spec => []UnsentBytesArmed
<1>1. SimInv => UnsentBytesArmed
  BY DEF SimInv, ArmedInv, ReactorInv, UnsentBytesArmed
<1> QED BY <1>1, SimulatorCorrect, PTL

\* on_timer_tick removes a silent client within one timeout and one tick.
THEOREM SilentClientCorrect == Spec => []SilentClientReaped
<1>1. SimInv => SilentClientReaped
  <2> SUFFICES ASSUME SimInv, NEW f \in DOMAIN clients, clients[f].state # "kFailed"
               PROVE  now - LastSign(clients[f]) < HeartbeatTimeout + TickGap
    BY DEF SilentClientReaped
  <2> DEFINE l == LastSign(clients[f])
  <2>1. now \in Nat /\ tick_now \in Nat /\ now - tick_now <= TickGap
    BY Numbers DEF SimInv, Typed, TypeClock, TimeInv
  <2>2. l \in Nat
    BY ClientFields, Numbers DEF SimInv, Typed, TypeClients, LastSign
  <2>3. tick_now - l < HeartbeatTimeout
    BY DEF SimInv, TimeInv, SignInv
  <2> HIDE DEF l
  <2>4. now - l < HeartbeatTimeout + TickGap
    BY <2>1, <2>2, <2>3, Numbers
  <2> QED BY <2>4 DEF l
<1> QED BY <1>1, SimulatorCorrect, PTL

-----------------------------------------------------------------------------
(* The listening socket                                                    *)

\* As many descriptors as there will ever be connections.
EnoughFds ==
  IsFiniteSet(Sessions) /\ IsFiniteSet(Fds) /\ Cardinality(Sessions) <= Cardinality(Fds)

\* With enough of them a connection that waits finds one.
LEMMA FdForBacklog == ASSUME EnoughFds, SimInv, backlog # <<>> PROVE FreeFds # {}
<1> SUFFICES ASSUME FreeFds = {} PROVE FALSE
  OBVIOUS
<1> DEFINE others == Sessions \ {Head(backlog)}
           peer == [f \in Fds |-> clients[f].peer]
<1>1. Fds = DOMAIN clients
  BY DEF FreeFds, SimInv, Typed, TypeClients
<1>2. Head(backlog) \in Sessions /\ \A f \in Fds : clients[f].peer # Head(backlog)
  BY <1>1, BacklogTail
<1>3. \A f \in Fds : clients[f].peer \in Sessions
  BY <1>1, ClientFields DEF SimInv, Typed, TypeClients
<1>4. peer \in [Fds -> others]
  BY <1>2, <1>3
<1>5. IsFiniteSet(others) /\ Cardinality(others) = Cardinality(Sessions) - 1
  BY <1>2, FS_RemoveElement DEF EnoughFds
<1>6. Cardinality(Sessions) \in Nat /\ Cardinality(Fds) \in Nat
  BY FS_CardinalityType DEF EnoughFds
<1>7. Cardinality(others) < Cardinality(Fds)
  <2>1. Cardinality(Sessions) - 1 < Cardinality(Fds)
    BY <1>6 DEF EnoughFds
  <2> QED BY <1>5, <2>1
<1> HIDE DEF others, peer
<1>8. PICK f \in Fds, g \in Fds : f # g /\ peer[f] = peer[g]
  BY <1>4, <1>5, <1>7, FS_PigeonHole DEF EnoughFds
<1> QED BY <1>1, <1>8 DEF peer, SimInv, SocketInv

\* accept_new_connections takes everything that waits: with descriptors to spare
\* no connection is forgotten by the edge-triggered listening socket.
THEOREM BacklogCorrect == ASSUME EnoughFds PROVE Spec => []BacklogNoticed
<1>1. Init => BacklogNoticed
  BY DEF Init, BacklogNoticed
<1>2. SimInv /\ BacklogNoticed /\ [Next]_vars => BacklogNoticed'
  <2> SUFFICES ASSUME SimInv, BacklogNoticed, [Next]_vars PROVE BacklogNoticed'
    OBVIOUS
  <2> USE DEF BacklogNoticed, reactor, clock, peers
  <2>1. CASE Environment
    <3>1. UNCHANGED <<pc, batch>> /\ (UNCHANGED <<backlog, listen_edge>> \/ listen_edge')
      BY <2>1 DEF Environment, Advance, PeerConnect, PeerHello, PeerPing, PeerSend, PeerClose,
                  PeerReset
    <3> QED BY <3>1
  <2>2. CASE EpollWait
    <3>1. pc = "loop" /\ batch = {} /\ backlog' = backlog
            /\ listen_edge' = (listen_edge /\ "listen" \notin batch')
      BY <2>2 DEF EpollWait
    <3> QED BY <3>1
  <2>3. CASE AcceptStart \/ AcceptClient \/ AcceptAborted
    <3>1. pc' = "accept"
      BY <2>3 DEF AcceptStart, AcceptClient, AcceptAgain, AcceptAborted
    <3> QED BY <3>1
  <2>4. CASE AcceptEnd
    <3>1. backlog = <<>>
      BY <2>4, FdForBacklog DEF AcceptEnd
    <3> QED BY <2>4, <3>1 DEF AcceptEnd
  <2>5. CASE \/ \E e \in events : SkipEvent(e) \/ OnHangup(e) \/ OnReadable(e)
             \/ HandleMessage \/ DrainDone \/ \E e \in current : FinishEvent(e)
             \/ TickReap \/ ReplyNotDue \/ ReplyDue \/ CommandStart \/ SetFaultConfig
             \/ CommandEnd \/ \E fd \in DOMAIN clients : KillRandomConnection(fd)
    <3>1. /\ pc # "accept" /\ UNCHANGED <<backlog, listen_edge>>
          /\ "listen" \in batch => "listen" \in batch'
      <4>1. CASE \E e \in events : SkipEvent(e) \/ OnHangup(e) \/ OnReadable(e)
        BY <4>1 DEF SkipEvent, OnHangup, OnReadable
      <4>2. CASE HandleMessage
        <5>1. PICK m, fd, o : Handle(m, fd, o)
          BY <4>2 DEF HandleMessage, HandleConnectHello, HandlePingDropped, HandlePingDeferred,
                      HandlePingAnswered, HandleFailure
        <5> QED BY <5>1 DEF Handle
      <4>3. CASE DrainDone \/ \E e \in current : FinishEvent(e)
        BY <4>3 DEF DrainDone, FinishEvent
      <4>4. CASE TickReap
        BY <4>4 DEF TickReap
      <4>5. CASE ReplyNotDue \/ ReplyDue
        BY <4>5 DEF ReplyNotDue, ReplyDue, NextReply
      <4>6. CASE CommandStart \/ SetFaultConfig \/ CommandEnd
        BY <4>6 DEF CommandStart, SetFaultConfig, CommandEnd
      <4>7. CASE \E fd \in DOMAIN clients : KillRandomConnection(fd)
        BY <4>7 DEF KillRandomConnection
      <4> QED BY <2>5, <4>1, <4>2, <4>3, <4>4, <4>5, <4>6, <4>7
    <3> QED BY <3>1
  <2>6. CASE UNCHANGED vars
    BY <2>6 DEF vars
  <2> QED BY <2>1, <2>2, <2>3, <2>4, <2>5, <2>6 DEF Next, Reactor
<1> QED BY <1>1, <1>2, SimulatorCorrect, PTL DEF Spec

-----------------------------------------------------------------------------
(* What a client is answered                                               *)

Ping(x) == Msg("kPing", x)
Pong(x) == Msg("kPong", x)

Has(q, m) == \E i \in 1 .. Len(q) : q[i] = m
Asks(q) == \E i \in 1 .. Len(q) : q[i].type = "kConnectHello"

\* No PING is in q twice.
Once(q) == \A i, j \in 1 .. Len(q) : q[i].type = "kPing" /\ q[i] = q[j] => i = j

\* A CONNECT_ACK and then PONGs, no two alike.
Shape(q) ==
  /\ \A i \in 1 .. Len(q) :
       q[i] = IF i = 1 THEN Msg("kConnectAck", 0) ELSE Pong(q[i].sequence)
  /\ \A i, j \in 1 .. Len(q) : q[i] = q[j] => i = j

\* The state of one session's replies: out is what it was sent and is queued for
\* it, taken what is being read of it, queued what waits in its socket, later the
\* PINGs whose replies are deferred, n the number of messages it sent.  Each of
\* its PINGs is in one of the four places at most.
Exact(out, taken, queued, later, n) ==
  /\ Shape(out) /\ Once(taken) /\ Once(queued)
  /\ Asks(taken) \/ Asks(queued) \/ out # <<>> => 0 < n
  /\ \A x \in 0 .. MaxPings :
       /\ Has(taken, Ping(x)) =>
            x < n /\ ~Has(queued, Ping(x)) /\ x \notin later /\ ~Has(out, Pong(x))
       /\ Has(queued, Ping(x)) => x < n /\ x \notin later /\ ~Has(out, Pong(x))
       /\ x \in later => x < n /\ ~Has(out, Pong(x))
       /\ Has(out, Pong(x)) => x < n

\* What is being read of session s.
ReadingOf(s) == IF \E e \in current : clients[e.fd].peer = s THEN reading ELSE <<>>

\* The PINGs of session s whose replies are deferred.
Later(s) ==
  {x \in 0 .. MaxPings : \E i \in 1 .. Len(pending_replies) :
     pending_replies[i].asker = s /\ pending_replies[i].sequence = x}

SessionExact(s) == Exact(Stream(s), ReadingOf(s), inbox[s], Later(s), sent[s])

\* No reply is deferred twice.
DeferredOnce ==
  \A i, j \in 1 .. Len(pending_replies) :
    pending_replies[i].asker = pending_replies[j].asker
      /\ pending_replies[i].sequence = pending_replies[j].sequence => i = j

\* The CONNECT_ACK is what makes a client healthy.
AckInv ==
  \A f \in DOMAIN clients, s \in Sessions : clients[f].peer = s =>
    /\ clients[f].state = "kHandshaking" => Stream(s) = <<>>
    /\ clients[f].state = "kHealthy" => Stream(s) # <<>>

\* A session that has not been accepted has got nothing.
FreshInv ==
  \A s \in Sessions :
    link[s] = "idle" \/ (\E i \in 1 .. Len(backlog) : backlog[i] = s) => received[s] = <<>>

RepliesInv == (\A s \in Sessions : SessionExact(s)) /\ DeferredOnce /\ AckInv /\ FreshInv

\* Messages are told apart by their numbers.
LEMMA Numbering ==
  /\ \A x \in 0 .. MaxPings :
       /\ Ping(x) \in Message /\ Ping(x).type = "kPing" /\ Ping(x).sequence = x
       /\ Pong(x) \in Message /\ Pong(x).type = "kPong" /\ Pong(x).sequence = x
       /\ Pong(x) # Msg("kConnectAck", 0)
  /\ \A x, y \in 0 .. MaxPings : (Ping(x) = Ping(y) => x = y) /\ (Pong(x) = Pong(y) => x = y)
  /\ Msg("kConnectAck", 0) \in Message /\ Msg("kConnectHello", 0) \in Message
  /\ Msg("fatal", 0) \in Message /\ 0 \in 0 .. MaxPings
<1>1. 0 \in 0 .. MaxPings
  BY Numbers
<1>2. ASSUME NEW x \in 0 .. MaxPings
      PROVE  /\ Ping(x) \in Message /\ Ping(x).type = "kPing" /\ Ping(x).sequence = x
             /\ Pong(x) \in Message /\ Pong(x).type = "kPong" /\ Pong(x).sequence = x
             /\ Pong(x) # Msg("kConnectAck", 0)
  BY DEF Ping, Pong, Msg, Message
<1>3. Msg("kConnectAck", 0) \in Message /\ Msg("kConnectHello", 0) \in Message
        /\ Msg("fatal", 0) \in Message
  BY <1>1 DEF Msg, Message
<1>4. \A x, y \in 0 .. MaxPings : (Ping(x) = Ping(y) => x = y) /\ (Pong(x) = Pong(y) => x = y)
  BY <1>2
<1> QED BY <1>1, <1>2, <1>3, <1>4

\* The empty sequence.
LEMMA EmptyHas ==
  /\ \A m : ~Has(<<>>, m)
  /\ ~Asks(<<>>) /\ Once(<<>>) /\ Shape(<<>>)
  BY EmptySeq DEF Has, Asks, Once, Shape

\* One message more.
LEMMA AppendHas ==
  ASSUME NEW q \in Seq(Message), NEW m \in Message
  PROVE  /\ \A x : Has(Append(q, m), x) <=> Has(q, x) \/ x = m
         /\ Asks(Append(q, m)) <=> Asks(q) \/ m.type = "kConnectHello"
         /\ Once(q) /\ (m.type = "kPing" => ~Has(q, m)) => Once(Append(q, m))
<1> DEFINE t == Append(q, m)
           n == Len(q)
<1>1. /\ n \in Nat /\ Len(t) = n + 1 /\ t[n + 1] = m /\ \A i \in 1 .. n : t[i] = q[i]
  BY AppendProperties, LenProperties
<1> HIDE DEF t, n
<1>2. /\ \A i \in 1 .. n + 1 : i \in 1 .. n \/ i = n + 1
      /\ \A i \in 1 .. n : i \in 1 .. n + 1
      /\ n + 1 \in 1 .. n + 1
  BY <1>1
<1>3. ASSUME NEW x PROVE Has(t, x) <=> Has(q, x) \/ x = m
  <2>1. Has(q, x) <=> \E i \in 1 .. n : q[i] = x
    BY DEF Has, n
  <2>2. Has(t, x) <=> \E i \in 1 .. n + 1 : t[i] = x
    BY <1>1 DEF Has
  <2> QED BY <1>1, <1>2, <2>1, <2>2
<1>4. Asks(t) <=> Asks(q) \/ m.type = "kConnectHello"
  <2>1. Asks(q) <=> \E i \in 1 .. n : q[i].type = "kConnectHello"
    BY DEF Asks, n
  <2>2. Asks(t) <=> \E i \in 1 .. n + 1 : t[i].type = "kConnectHello"
    BY <1>1 DEF Asks
  <2> QED BY <1>1, <1>2, <2>1, <2>2
<1>5. ASSUME Once(q), m.type = "kPing" => ~Has(q, m) PROVE Once(t)
  <2>1. \A i, j \in 1 .. n : q[i].type = "kPing" /\ q[i] = q[j] => i = j
    BY <1>5 DEF Once, n
  <2>2. m.type = "kPing" => \A i \in 1 .. n : q[i] # m
    BY <1>5 DEF Has, n
  <2> SUFFICES ASSUME NEW i \in 1 .. n + 1, NEW j \in 1 .. n + 1, t[i].type = "kPing", t[i] = t[j]
               PROVE  i = j
    BY <1>1 DEF Once
  <2>3. CASE i = n + 1
    BY <1>1, <1>2, <2>2, <2>3
  <2>4. CASE i \in 1 .. n
    BY <1>1, <1>2, <2>1, <2>2, <2>4
  <2> QED BY <1>2, <2>3, <2>4
<1> QED BY <1>3, <1>4, <1>5 DEF t

\* The first message and the rest.
LEMMA TailHas ==
  ASSUME NEW q \in Seq(Message), q # <<>>
  PROVE  /\ Tail(q) \in Seq(Message) /\ Head(q) \in Message
         /\ \A x : Has(Tail(q), x) => Has(q, x)
         /\ Has(q, Head(q))
         /\ Asks(Tail(q)) => Asks(q)
         /\ Head(q).type = "kConnectHello" => Asks(q)
         /\ Once(q) => Once(Tail(q)) /\ (Head(q).type = "kPing" => ~Has(Tail(q), Head(q)))
<1> DEFINE t == Tail(q)
           h == Head(q)
           n == Len(q)
<1>1. n \in Nat /\ n # 0 /\ t \in Seq(Message) /\ h \in Message
  BY HeadTailProperties, EmptySeq, LenProperties
<1>2. Len(t) = n - 1 /\ \A i \in 1 .. n - 1 : t[i] = q[i + 1]
  BY HeadTailProperties
<1>3. h = q[1]
  BY HeadTailProperties
<1> HIDE DEF t, h, n
<1>4. 1 \in 1 .. n /\ \A i \in 1 .. n - 1 : i + 1 \in 1 .. n /\ i + 1 # 1
  BY <1>1
<1>5. ASSUME NEW x, Has(t, x) PROVE Has(q, x)
  <2>1. PICK i \in 1 .. n - 1 : t[i] = x
    BY <1>2, <1>5 DEF Has
  <2>2. i + 1 \in 1 .. n /\ q[i + 1] = x
    BY <1>2, <1>4, <2>1
  <2> QED BY <2>2 DEF Has, n
<1>6. Has(q, h) /\ (h.type = "kConnectHello" => Asks(q))
  BY <1>3, <1>4 DEF Has, Asks, n
<1>7. ASSUME Asks(t) PROVE Asks(q)
  <2>1. PICK i \in 1 .. n - 1 : t[i].type = "kConnectHello"
    BY <1>2, <1>7 DEF Asks
  <2>2. i + 1 \in 1 .. n /\ q[i + 1].type = "kConnectHello"
    BY <1>2, <1>4, <2>1
  <2> QED BY <2>2 DEF Asks, n
<1>8. ASSUME Once(q) PROVE Once(t) /\ (h.type = "kPing" => ~Has(t, h))
  <2>1. \A i, j \in 1 .. n : q[i].type = "kPing" /\ q[i] = q[j] => i = j
    BY <1>8 DEF Once, n
  <2>2. ASSUME NEW i \in 1 .. n - 1, NEW j \in 1 .. n - 1, t[i].type = "kPing", t[i] = t[j]
        PROVE  i = j
    <3>1. i + 1 = j + 1
      BY <1>2, <1>4, <2>1, <2>2
    <3> QED BY <1>1, <3>1
  <2>3. ASSUME h.type = "kPing", NEW i \in 1 .. n - 1, t[i] = h PROVE FALSE
    BY <1>2, <1>3, <1>4, <2>1, <2>3
  <2> QED BY <1>2, <2>2, <2>3 DEF Once, Has
<1> QED BY <1>1, <1>5, <1>6, <1>7, <1>8 DEF t, h

\* A part of what was sent, from its beginning.
LEMMA PrefixHas ==
  ASSUME NEW q \in Seq(Message), NEW w \in Seq(Message), Shape(q \o w)
  PROVE  Shape(q) /\ (\A x : Has(q, x) => Has(q \o w, x)) /\ (q # <<>> => q \o w # <<>>)
<1> DEFINE t == q \o w
           n == Len(q)
           k == Len(w)
<1>1. n \in Nat /\ k \in Nat /\ Len(t) = n + k
        /\ \A i \in 1 .. n + k : t[i] = IF i <= n THEN q[i] ELSE w[i - n]
  BY ConcatProperties, LenProperties
<1> HIDE DEF t, n, k
<1>2. \A i \in 1 .. n : i \in 1 .. n + k /\ i <= n
  BY <1>1
<1>3. \A i \in 1 .. n : i \in 1 .. Len(t) /\ t[i] = q[i]
  BY <1>1, <1>2
<1>4. Shape(q)
  <2>1. Shape(t)
    BY DEF t
  <2>2. \A i \in 1 .. n : q[i] = IF i = 1 THEN Msg("kConnectAck", 0) ELSE Pong(q[i].sequence)
    BY <1>3, <2>1, Zenon DEF Shape
  <2>3. \A i, j \in 1 .. n : q[i] = q[j] => i = j
    BY <1>3, <2>1 DEF Shape
  <2> QED BY <2>2, <2>3 DEF Shape, n
<1>5. \A x : Has(q, x) => Has(t, x)
  BY <1>3 DEF Has, n
<1>6. q # <<>> => t # <<>>
  BY ConcatEqualIffEmpty DEF t
<1> QED BY <1>4, <1>5, <1>6 DEF t

\* Three parts.
LEMMA Regroup ==
  ASSUME NEW a \in Seq(Message), NEW b \in Seq(Message), NEW c \in Seq(Message)
  PROVE  (a \o b) \o c = a \o (b \o c)
  BY ConcatAssociative

\* One PONG more.
LEMMA PongShape ==
  ASSUME NEW q \in Seq(Message), Shape(q), q # <<>>, NEW x \in 0 .. MaxPings, ~Has(q, Pong(x))
  PROVE  Shape(Append(q, Pong(x))) /\ Append(q, Pong(x)) # <<>>
<1> DEFINE m == Pong(x)
           t == Append(q, m)
           n == Len(q)
<1>1. m \in Message /\ m = Pong(m.sequence)
  BY Numbering
<1> HIDE DEF m
<1>2. /\ n \in Nat /\ n # 0 /\ Len(t) = n + 1 /\ t[n + 1] = m /\ \A i \in 1 .. n : t[i] = q[i]
  BY <1>1, AppendProperties, LenProperties, EmptySeq
<1>3. Len(t) # 0
  <2>1. ASSUME NEW k \in Nat PROVE k + 1 # 0
    OBVIOUS
  <2> QED BY <1>2, <2>1
<1>4. t # <<>>
  BY <1>3, EmptySeq
<1> HIDE DEF t, n
<1>5. \A i \in 1 .. n : q[i] = IF i = 1 THEN Msg("kConnectAck", 0) ELSE Pong(q[i].sequence)
  BY Zenon DEF Shape, n
<1>6. \A i, j \in 1 .. n : q[i] = q[j] => i = j
  BY DEF Shape, n
<1>7. \A i \in 1 .. n : q[i] # m
  BY DEF Has, n, m
<1>8. \A i \in 1 .. n + 1 : i \in 1 .. n \/ (i = n + 1 /\ i # 1)
  <2>1. n \in Nat /\ n # 0
    BY <1>2
  <2> QED BY <2>1
<1>9. \A i \in 1 .. n + 1 : t[i] = IF i = 1 THEN Msg("kConnectAck", 0) ELSE Pong(t[i].sequence)
  BY <1>1, <1>2, <1>5, <1>8, Zenon
<1>10. \A i, j \in 1 .. n + 1 : t[i] = t[j] => i = j
  BY <1>2, <1>6, <1>7, <1>8
<1>11. Shape(t)
  BY <1>2, <1>9, <1>10 DEF Shape
<1> QED BY <1>4, <1>11 DEF t, m

\* The CONNECT_ACK alone.
LEMMA AckShape ==
  LET t == Append(<<>>, Msg("kConnectAck", 0)) IN
  Shape(t) /\ t # <<>> /\ \A x \in 0 .. MaxPings : ~Has(t, Pong(x))
<1> DEFINE m == Msg("kConnectAck", 0)
           t == Append(<<>>, m)
<1>1. m \in Message /\ \A x \in 0 .. MaxPings : Pong(x) # m
  BY Numbering
<1> HIDE DEF m
<1>2. <<>> \in Seq(Message) /\ Len(<<>>) = 0
  BY EmptySeq
<1>3. Len(t) = 1 /\ t[1] = m
  BY <1>1, <1>2, AppendProperties
<1>4. t # <<>>
  BY <1>2, <1>3
<1> HIDE DEF t
<1>5. \A i \in 1 .. 1 : i = 1
  OBVIOUS
<1>6. Shape(t)
  BY <1>3, <1>5 DEF Shape, m
<1>7. \A x \in 0 .. MaxPings : ~Has(t, Pong(x))
  BY <1>1, <1>3, <1>5 DEF Has
<1> QED BY <1>4, <1>6, <1>7 DEF t, m

\* Less to answer, and less answered.
LEMMA ExactLess ==
  ASSUME NEW out, NEW taken, NEW queued, NEW later, NEW n, Exact(out, taken, queued, later, n),
         NEW out1, NEW taken1, NEW queued1, NEW later1,
         Shape(out1), \A m : Has(out1, m) => Has(out, m), out1 # <<>> => out # <<>>,
         Once(taken1), \A m : Has(taken1, m) => Has(taken, m), Asks(taken1) => Asks(taken),
         Once(queued1), \A m : Has(queued1, m) => Has(queued, m), Asks(queued1) => Asks(queued),
         later1 \subseteq later
  PROVE  Exact(out1, taken1, queued1, later1, n)
  BY DEF Exact

\* recv takes what was queued.
LEMMA ExactRead ==
  ASSUME NEW out, NEW queued, NEW later, NEW n, NEW taken, Exact(out, taken, queued, later, n)
  PROVE  Exact(out, queued, <<>>, later, n)
  BY EmptyHas DEF Exact

\* The client sends its CONNECT_HELLO.
LEMMA ExactHello ==
  ASSUME NEW out, NEW taken, NEW queued \in Seq(Message), NEW later,
         Exact(out, taken, queued, later, 0)
  PROVE  Exact(out, taken, Append(queued, Msg("kConnectHello", 0)), later, 1)
<1> DEFINE m == Msg("kConnectHello", 0)
<1>1. m \in Message /\ m.type = "kConnectHello" /\ \A x \in 0 .. MaxPings : Ping(x) # m
  BY Numbering DEF Msg
<1> HIDE DEF m
<1>2. Once(Append(queued, m)) /\ \A x \in 0 .. MaxPings : Has(Append(queued, m), Ping(x))
          <=> Has(queued, Ping(x))
  BY <1>1, AppendHas DEF Exact
<1>3. \A x \in 0 .. MaxPings : x < 0 => x < 1
  OBVIOUS
<1>4. 0 < 1
  OBVIOUS
<1> QED BY <1>2, <1>3, <1>4 DEF Exact, m

\* It sends a PING.
LEMMA ExactPing ==
  ASSUME NEW out, NEW taken, NEW queued \in Seq(Message), NEW later, NEW n \in 1 .. MaxPings,
         Exact(out, taken, queued, later, n)
  PROVE  Exact(out, taken, Append(queued, Ping(n)), later, n + 1)
<1>1. n \in 0 .. MaxPings /\ ~(n < n) /\ 0 < n + 1 /\ n < n + 1
        /\ \A x \in 0 .. MaxPings : x < n => x < n + 1
  BY Numbers
<1>2. Ping(n) \in Message /\ Ping(n).type = "kPing"
          /\ \A x \in 0 .. MaxPings : Ping(x) = Ping(n) => x = n
  BY <1>1, Numbering
<1>3. ~Has(queued, Ping(n)) /\ ~Has(taken, Ping(n)) /\ n \notin later /\ ~Has(out, Pong(n))
  BY <1>1 DEF Exact
<1>4. Once(Append(queued, Ping(n)))
        /\ \A x \in 0 .. MaxPings : Has(Append(queued, Ping(n)), Ping(x)) <=> Has(queued,
                  Ping(x)) \/ x = n
  BY <1>2, <1>3, AppendHas DEF Exact
<1> QED BY <1>1, <1>3, <1>4 DEF Exact

\* It sends something that fails it.
LEMMA ExactFatal ==
  ASSUME NEW out, NEW taken, NEW queued \in Seq(Message), NEW later, NEW n,
         Exact(out, taken, queued, later, n)
  PROVE  Exact(out, taken, Append(queued, Msg("fatal", 0)), later, n)
<1> DEFINE m == Msg("fatal", 0)
<1>1. m \in Message /\ m.type = "fatal" /\ \A x \in 0 .. MaxPings : Ping(x) # m
  BY Numbering DEF Msg
<1> HIDE DEF m
<1>2. /\ Once(Append(queued, m)) /\ (Asks(Append(queued, m)) => Asks(queued))
      /\ \A x \in 0 .. MaxPings : Has(Append(queued, m), Ping(x)) <=> Has(queued, Ping(x))
  BY <1>1, AppendHas DEF Exact
<1>3. Exact(out, taken, Append(queued, m), later, n)
  BY <1>2 DEF Exact
<1> QED BY <1>3 DEF m

\* The CONNECT_HELLO is answered.
LEMMA ExactAck ==
  ASSUME NEW taken \in Seq(Message), NEW queued, NEW later, NEW n,
         Exact(<<>>, taken, queued, later, n),
         taken # <<>>, Head(taken).type = "kConnectHello"
  PROVE  Exact(Append(<<>>, Msg("kConnectAck", 0)), Tail(taken), queued, later, n)
<1>1. 0 < n
  BY TailHas DEF Exact
<1>2. /\ Once(Tail(taken)) /\ (Asks(Tail(taken)) => Asks(taken))
      /\ \A m : Has(Tail(taken), m) => Has(taken, m)
  BY TailHas DEF Exact
<1> DEFINE out == Append(<<>>, Msg("kConnectAck", 0))
<1>3. Shape(out) /\ \A x \in 0 .. MaxPings : ~Has(out, Pong(x))
  BY AckShape
<1> HIDE DEF out
<1>4. Exact(out, Tail(taken), queued, later, n)
  BY <1>1, <1>2, <1>3 DEF Exact
<1> QED BY <1>4 DEF out

\* A PING is answered at once.
LEMMA ExactAnswer ==
  ASSUME NEW out \in Seq(Message), NEW taken \in Seq(Message), NEW queued, NEW later, NEW n,
         Exact(out, taken, queued, later, n), out # <<>>,
         taken # <<>>, NEW x \in 0 .. MaxPings, Head(taken) = Ping(x)
  PROVE  Exact(Append(out, Pong(x)), Tail(taken), queued, later, n)
<1>1. /\ Once(Tail(taken)) /\ (Asks(Tail(taken)) => Asks(taken)) /\ Has(taken, Ping(x))
      /\ \A m : Has(Tail(taken), m) => Has(taken, m)
      /\ ~Has(Tail(taken), Ping(x))
  BY TailHas, Numbering DEF Exact
<1>2. x < n /\ ~Has(queued, Ping(x)) /\ x \notin later /\ ~Has(out, Pong(x))
  BY <1>1 DEF Exact
<1>3. Shape(Append(out, Pong(x)))
  BY <1>2, PongShape DEF Exact
<1>4. \A y \in 0 .. MaxPings : Has(Append(out, Pong(x)), Pong(y)) <=> Has(out, Pong(y)) \/ y = x
  BY AppendHas, Numbering
<1> QED BY <1>1, <1>2, <1>3, <1>4 DEF Exact

\* A PING's reply is deferred.
LEMMA ExactDefer ==
  ASSUME NEW out, NEW taken \in Seq(Message), NEW queued, NEW later, NEW n,
         Exact(out, taken, queued, later, n),
         taken # <<>>, NEW x \in 0 .. MaxPings, Head(taken) = Ping(x)
  PROVE  x \notin later /\ Exact(out, Tail(taken), queued, later \cup {x}, n)
<1>1. /\ Once(Tail(taken)) /\ (Asks(Tail(taken)) => Asks(taken)) /\ Has(taken, Ping(x))
      /\ \A m : Has(Tail(taken), m) => Has(taken, m)
      /\ ~Has(Tail(taken), Ping(x))
  BY TailHas, Numbering DEF Exact
<1>2. x < n /\ ~Has(queued, Ping(x)) /\ x \notin later /\ ~Has(out, Pong(x))
  BY <1>1 DEF Exact
<1> QED BY <1>1, <1>2 DEF Exact

\* A deferred reply is sent.
LEMMA ExactReply ==
  ASSUME NEW out \in Seq(Message), NEW taken, NEW queued, NEW later, NEW n,
         Exact(out, taken, queued, later, n), out # <<>>,
         NEW x \in 0 .. MaxPings, x \in later
  PROVE  Exact(Append(out, Pong(x)), taken, queued, later \ {x}, n)
<1>1. x < n /\ ~Has(queued, Ping(x)) /\ ~Has(taken, Ping(x)) /\ ~Has(out, Pong(x))
  BY DEF Exact
<1>2. Shape(Append(out, Pong(x)))
  BY <1>1, PongShape DEF Exact
<1>3. \A y \in 0 .. MaxPings : Has(Append(out, Pong(x)), Pong(y)) <=> Has(out, Pong(y)) \/ y = x
  BY AppendHas, Numbering
<1>4. 0 < n
  BY DEF Exact
<1> QED BY <1>1, <1>2, <1>3, <1>4 DEF Exact

-----------------------------------------------------------------------------
(* A session's stream                                                      *)

\* Stream, client by client.
StreamInv ==
  /\ \A f \in DOMAIN clients, s \in Sessions :
       clients[f].peer = s => Stream(s) = received[s] \o clients[f].write_pending
  /\ \A s \in Sessions :
       (\A f \in DOMAIN clients : clients[f].peer # s) => Stream(s) = received[s]
  /\ \A s \in Sessions : Stream(s) \in Seq(Message)

\* No two clients are one session's.
LEMMA StreamOf == SimInv => StreamInv
<1> SUFFICES ASSUME SimInv PROVE StreamInv
  OBVIOUS
<1>1. received \in [Sessions -> Seq(Message)] /\ \A f \in DOMAIN clients : clients[f] \in Client
  BY DEF SimInv, Typed, TypeSockets, TypeClients
<1>2. ASSUME NEW f \in DOMAIN clients
      PROVE  Stream(clients[f].peer) = received[clients[f].peer] \o clients[f].write_pending
  <2> DEFINE fds == {g \in DOMAIN clients : clients[g].peer = clients[f].peer}
  <2>1. \A g \in fds : g = f
    BY DEF SimInv, SocketInv
  <2>2. f \in fds
    OBVIOUS
  <2>3. (CHOOSE g \in fds : TRUE) \in fds
    BY <2>2
  <2>4. (CHOOSE g \in fds : TRUE) = f /\ fds # {}
    BY <2>1, <2>2, <2>3
  <2> QED BY <2>4 DEF Stream
<1>3. ASSUME NEW s \in Sessions, \A f \in DOMAIN clients : clients[f].peer # s
      PROVE  Stream(s) = received[s]
  <2>1. {f \in DOMAIN clients : clients[f].peer = s} = {}
    BY <1>3
  <2>2. received[s] \o <<>> = received[s]
    BY <1>1, ConcatEmptySeq
  <2> QED BY <2>1, <2>2 DEF Stream
<1>4. ASSUME NEW s \in Sessions PROVE Stream(s) \in Seq(Message)
  <2>1. CASE \A f \in DOMAIN clients : clients[f].peer # s
    BY <1>1, <1>3, <2>1
  <2>2. ASSUME NEW f \in DOMAIN clients, clients[f].peer = s PROVE Stream(s) \in Seq(Message)
    <3>1. received[s] \in Seq(Message) /\ clients[f].write_pending \in Seq(Message)
      BY <1>1, ClientFields
    <3> QED BY <1>2, <2>2, <3>1, ConcatProperties
  <2> QED BY <2>1, <2>2
<1> QED BY <1>2, <1>3, <1>4 DEF StreamInv

\* The same after a step.
LEMMA StreamNext == SimInv' => StreamInv'
  BY StreamOf, PTL


-----------------------------------------------------------------------------
(* The steps                                                               *)

\* A step that leaves alone what sessions were sent and have to be sent.
LEMMA SameStream == UNCHANGED <<clients, received>> => \A s \in Sessions : Stream(s)' = Stream(s)
  BY DEF Stream

\* What is being read of a session.
LEMMA SameReading ==
  UNCHANGED <<clients, current, reading>> => \A s \in Sessions : ReadingOf(s)' = ReadingOf(s)
  BY DEF ReadingOf

\* What is deferred.
LEMMA SameLater ==
  UNCHANGED pending_replies => DeferredOnce' = DeferredOnce
            /\ \A s \in Sessions : Later(s)' = Later(s)
  BY DEF Later, DeferredOnce

\* Which clients were acknowledged.
LEMMA SameAck == AckInv /\ UNCHANGED <<clients, received>> => AckInv'
  BY DEF AckInv, Stream

\* Which sessions were never accepted.
LEMMA SameFresh == FreshInv /\ UNCHANGED <<link, backlog, received>> => FreshInv'
  BY DEF FreshInv

\* One session's replies after a step.
LEMMA SessionNext ==
  ASSUME NEW s \in Sessions, Exact(Stream(s)', ReadingOf(s)', inbox'[s], Later(s)', sent'[s])
  PROVE  SessionExact(s)'
  BY DEF SessionExact

\* A step that no session notices.
LEMMA QuietReplies ==
  ASSUME RepliesInv,
         UNCHANGED <<clients, received, current, reading, pending_replies, inbox, sent, link,
                   backlog>>
  PROVE  RepliesInv'
<1>1. ASSUME NEW s \in Sessions PROVE SessionExact(s)'
  <2>1. Exact(Stream(s), ReadingOf(s), inbox[s], Later(s), sent[s])
    BY DEF RepliesInv, SessionExact
  <2> QED BY <2>1, SameStream, SameReading, SameLater, SessionNext
<1> QED BY <1>1, SameLater, SameAck, SameFresh DEF RepliesInv

\* A client connects.
LEMMA ConnectReplies ==
  ASSUME SimInv, RepliesInv, NEW s \in Sessions, PeerConnect(s) PROVE RepliesInv'
<1>1. /\ link[s] = "idle" /\ link' = [link EXCEPT ![s] = "open"] /\ backlog' = Append(backlog, s)
      /\ UNCHANGED <<clients, received, current, reading, pending_replies, inbox, sent>>
  BY DEF PeerConnect, reactor
<1>2. ASSUME NEW r \in Sessions PROVE SessionExact(r)'
  <2>1. Exact(Stream(r), ReadingOf(r), inbox[r], Later(r), sent[r])
    BY DEF RepliesInv, SessionExact
  <2> QED BY <1>1, <2>1, SameStream, SameReading, SameLater, SessionNext
<1>3. FreshInv'
  <2> DEFINE n == Len(backlog)
  <2>1. link \in [Sessions -> {"idle", "open", "eof", "reset", "gone"}] /\ backlog \in Seq(Sessions)
    BY DEF SimInv, Typed, TypeSockets
  <2>2. n \in Nat /\ Len(backlog') = n + 1 /\ backlog'[n + 1] = s
            /\ \A i \in 1 .. n : backlog'[i] = backlog[i]
    BY <1>1, <2>1, AppendProperties, LenProperties
  <2> SUFFICES ASSUME NEW r \in Sessions,
                      link'[r] = "idle" \/ (\E i \in 1 .. Len(backlog') : backlog'[i] = r)
               PROVE  received[r] = <<>>
    BY <1>1 DEF FreshInv
  <2>3. CASE link'[r] = "idle"
    BY <1>1, <2>1, <2>3 DEF RepliesInv, FreshInv
  <2>4. ASSUME NEW i \in 1 .. Len(backlog'), backlog'[i] = r PROVE received[r] = <<>>
    <3> HIDE DEF n
    <3>1. i \in 1 .. n \/ i = n + 1
      BY <2>2
    <3>2. r = s \/ \E j \in 1 .. n : backlog[j] = r
      BY <2>2, <2>4, <3>1
    <3> QED BY <1>1, <3>2 DEF RepliesInv, FreshInv, n
  <2> QED BY <2>3, <2>4
<1> QED BY <1>1, <1>2, <1>3, SameLater, SameAck DEF RepliesInv

\* It sends.
LEMMA SendReplies ==
  ASSUME SimInv, RepliesInv, NEW s \in Sessions, PeerHello(s) \/ PeerPing(s) PROVE RepliesInv'
<1>1. PICK m : /\ inbox' = [inbox EXCEPT ![s] = Append(@, m)]
               /\ \/ sent[s] = 0 /\ sent' = [sent EXCEPT ![s] = 1] /\ m = Msg("kConnectHello", 0)
                  \/ sent[s] \in 1 .. MaxPings /\ sent' = [sent EXCEPT ![s] = @ + 1]
                            /\ m = Ping(sent[s])
               /\ UNCHANGED <<clients, received, current, reading, pending_replies, link, backlog>>
  BY DEF PeerHello, PeerPing, PeerSend, reactor, Ping
<1>2. inbox \in [Sessions -> Seq(Message)] /\ sent \in [Sessions -> 0 .. MaxPings + 1]
  BY DEF SimInv, Typed, TypeSockets
<1>3. ASSUME NEW r \in Sessions PROVE SessionExact(r)'
  <2>1. Exact(Stream(r), ReadingOf(r), inbox[r], Later(r), sent[r])
    BY DEF RepliesInv, SessionExact
  <2>2. Stream(r)' = Stream(r) /\ ReadingOf(r)' = ReadingOf(r) /\ Later(r)' = Later(r)
    BY <1>1, SameStream, SameReading, SameLater
  <2>3. CASE r # s
    <3>1. inbox'[r] = inbox[r] /\ sent'[r] = sent[r]
      BY <1>1, <1>2, <2>3
    <3> QED BY <2>1, <2>2, <3>1, SessionNext
  <2>4. CASE r = s
    <3>1. inbox'[r] = Append(inbox[r], m) /\ inbox[r] \in Seq(Message)
      BY <1>1, <1>2, <2>4
    <3>2. CASE sent[r] = 0 /\ m = Msg("kConnectHello", 0) /\ sent'[r] = 1
      BY <2>1, <2>2, <3>1, <3>2, ExactHello, SessionNext
    <3>3. CASE sent[r] \in 1 .. MaxPings /\ m = Ping(sent[r]) /\ sent'[r] = sent[r] + 1
      <4>1. Exact(Stream(r), ReadingOf(r), Append(inbox[r], Ping(sent[r])), Later(r), sent[r] + 1)
        BY <2>1, <3>1, <3>3, ExactPing
      <4> QED BY <2>2, <3>1, <3>3, <4>1, SessionNext
    <3> QED BY <1>1, <1>2, <2>4, <3>2, <3>3
  <2> QED BY <2>3, <2>4
<1> QED BY <1>1, <1>3, SameLater, SameAck, SameFresh DEF RepliesInv

\* What waits in a session's socket is lost.
LEMMA LessQueued ==
  ASSUME NEW out, NEW taken, NEW queued, NEW later, NEW n, Exact(out, taken, queued, later, n)
  PROVE  Exact(out, taken, <<>>, later, n)
  BY EmptyHas DEF Exact

\* A socket is none that was never connected.
LEMMA LinkFresh ==
  ASSUME RepliesInv, \A s \in Sessions : link'[s] = "idle" => link[s] = "idle",
         UNCHANGED <<backlog, received>>
  PROVE  FreshInv'
  BY DEF RepliesInv, FreshInv

\* It closes, or resets.
LEMMA CloseReplies ==
  ASSUME SimInv, RepliesInv, NEW s \in Sessions, PeerClose(s) \/ PeerReset(s) PROVE RepliesInv'
<1>1. /\ UNCHANGED <<clients, received, current, reading, pending_replies, sent, backlog>>
      /\ \E l \in {"eof", "reset"} : link' = [link EXCEPT ![s] = l]
      /\ \E q \in {<<>>, inbox[s] \o <<>>, inbox[s] \o <<Msg("fatal", 0)>>} :
           inbox' = [inbox EXCEPT ![s] = q]
  BY DEF PeerClose, PeerReset, reactor
<1>2. PICK q \in {<<>>, inbox[s] \o <<>>, inbox[s] \o <<Msg("fatal", 0)>>} :
        inbox' = [inbox EXCEPT ![s] = q]
  BY <1>1
<1>3. inbox \in [Sessions -> Seq(Message)]
        /\ link \in [Sessions -> {"idle", "open", "eof", "reset", "gone"}]
  BY DEF SimInv, Typed, TypeSockets
<1>4. q \in {<<>>, inbox[s], Append(inbox[s], Msg("fatal", 0))}
  BY <1>2, <1>3, ConcatEmptySeq, AppendIsConcat, Numbering
<1>5. ASSUME NEW r \in Sessions PROVE SessionExact(r)'
  <2>1. Exact(Stream(r), ReadingOf(r), inbox[r], Later(r), sent[r])
    BY DEF RepliesInv, SessionExact
  <2>2. Stream(r)' = Stream(r) /\ ReadingOf(r)' = ReadingOf(r) /\ Later(r)' = Later(r)
            /\ sent' = sent
    BY <1>1, SameStream, SameReading, SameLater
  <2>3. inbox[r] \in Seq(Message)
          /\ (inbox'[r] = inbox[r] \/ inbox'[r] = <<>> \/ inbox'[r] = Append(inbox[r],
                    Msg("fatal", 0)))
    BY <1>2, <1>3, <1>4
  <2>4. Exact(Stream(r), ReadingOf(r), <<>>, Later(r), sent[r])
    BY <2>1, LessQueued
  <2>5. Exact(Stream(r), ReadingOf(r), Append(inbox[r], Msg("fatal", 0)), Later(r), sent[r])
    BY <2>1, <2>3, ExactFatal
  <2>6. Exact(Stream(r), ReadingOf(r), inbox'[r], Later(r), sent[r])
    BY <2>1, <2>3, <2>4, <2>5
  <2> QED BY <2>2, <2>6, SessionNext
<1>6. FreshInv'
  BY <1>1, <1>3, LinkFresh
<1> QED BY <1>1, <1>5, <1>6, SameLater, SameAck DEF RepliesInv


\* A session's stream is as it was when no client of it changes what it has to write.
LEMMA KeptStream ==
  ASSUME SimInv, SimInv', NEW s \in Sessions, received'[s] = received[s],
         \/ /\ \A f \in DOMAIN clients : clients[f].peer # s
            /\ \A f \in DOMAIN clients' : clients'[f].peer # s
         \/ \E f \in DOMAIN clients \cap DOMAIN clients' :
              /\ clients[f].peer = s /\ clients'[f].peer = s
              /\ clients'[f].write_pending = clients[f].write_pending
  PROVE  Stream(s)' = Stream(s)
<1>1. StreamInv /\ StreamInv'
  BY StreamOf, StreamNext
<1>2. CASE /\ \A f \in DOMAIN clients : clients[f].peer # s
           /\ \A f \in DOMAIN clients' : clients'[f].peer # s
  <2>1. Stream(s) = received[s]
    BY <1>1, <1>2 DEF StreamInv
  <2>2. Stream(s)' = received'[s]
    BY <1>1, <1>2 DEF StreamInv
  <2> QED BY <2>1, <2>2
<1>3. CASE \E f \in DOMAIN clients \cap DOMAIN clients' :
             /\ clients[f].peer = s /\ clients'[f].peer = s
             /\ clients'[f].write_pending = clients[f].write_pending
  <2>1. PICK f \in DOMAIN clients \cap DOMAIN clients' :
             /\ clients[f].peer = s /\ clients'[f].peer = s
             /\ clients'[f].write_pending = clients[f].write_pending
    BY <1>3
  <2>2. Stream(s) = received[s] \o clients[f].write_pending
    BY <1>1, <2>1 DEF StreamInv
  <2>3. f \in DOMAIN clients' /\ clients'[f].peer = s
    BY <2>1
  <2>4. Stream(s)' = received'[s] \o clients'[f].write_pending
    BY <1>1, <2>3 DEF StreamInv
  <2> QED BY <2>1, <2>2, <2>4
<1> QED BY <1>2, <1>3

\* A connection is accepted.
LEMMA AcceptReplies == ASSUME SimInv, SimInv', RepliesInv, AcceptClient PROVE RepliesInv'
<1> DEFINE h == Head(backlog)
           fd == LowestFree
<1>1. /\ pc = "accept" /\ backlog # <<>> /\ FreeFds # {} /\ backlog' = Tail(backlog)
      /\ UNCHANGED <<current, reading, pending_replies, sent, received>>
  BY DEF AcceptClient
<1>2. h \in Sessions /\ fd \in Fds /\ fd \notin DOMAIN clients
        /\ \A f \in DOMAIN clients : clients[f].peer # h
  BY <1>1, BacklogTail, LowestFreeFd
<1>3. current = {} /\ reading = <<>>
  BY <1>1 DEF SimInv, ReactorInv
<1>4. backlog \in Seq(Sessions) /\ h = backlog[1] /\ 1 \in 1 .. Len(backlog)
        /\ \A i \in 1 .. Len(Tail(backlog)) : i + 1 \in 1 .. Len(backlog)
                  /\ Tail(backlog)[i] = backlog[i + 1]
  <2>1. backlog \in Seq(Sessions)
    BY DEF SimInv, Typed, TypeSockets
  <2>2. Len(backlog) \in Nat \ {0} /\ Len(Tail(backlog)) = Len(backlog) - 1 /\ h = backlog[1]
          /\ \A i \in 1 .. Len(Tail(backlog)) : Tail(backlog)[i] = backlog[i + 1]
    BY <1>1, <2>1, EmptySeq, HeadTailProperties
  <2>3. ASSUME NEW n \in Nat \ {0} PROVE 1 \in 1 .. n /\ \A i \in 1 .. n - 1 : i + 1 \in 1 .. n
    OBVIOUS
  <2> QED BY <2>1, <2>2, <2>3
<1>5. /\ inbox \in [Sessions -> Seq(Message)]
      /\ link \in [Sessions -> {"idle", "open", "eof", "reset", "gone"}]
  BY DEF SimInv, Typed, TypeSockets
<1>6. received[h] = <<>>
  BY <1>2, <1>4 DEF RepliesInv, FreshInv
<1> HIDE DEF h, fd
<1>7. /\ \/ clients' = Put(fd, NewClient(h)) /\ UNCHANGED <<link, inbox>>
         \/ /\ link' = [link EXCEPT ![h] = "gone"] /\ inbox' = [inbox EXCEPT ![h] = <<>>]
            /\ UNCHANGED clients
  BY DEF AcceptClient, h, fd
<1>8. FreshInv'
  <2>1. \A s \in Sessions : link'[s] = "idle" => link[s] = "idle"
    BY <1>5, <1>7
  <2>2. \A s \in Sessions : (\E i \in 1 .. Len(backlog') : backlog'[i] = s)
                              => \E i \in 1 .. Len(backlog) : backlog[i] = s
    BY <1>1, <1>4
  <2> QED BY <1>1, <2>1, <2>2 DEF RepliesInv, FreshInv
<1>9. /\ DOMAIN clients \subseteq DOMAIN clients'
          /\ \A f \in DOMAIN clients : clients'[f] = clients[f]
      /\ \A f \in DOMAIN clients' : f \in DOMAIN clients \/ clients'[f] = NewClient(h)
  BY <1>2, <1>7 DEF Put
<1>10. NewClient(h).peer = h /\ NewClient(h).write_pending = <<>>
          /\ NewClient(h).state = "kHandshaking"
  BY DEF NewClient
<1>11. ASSUME NEW s \in Sessions PROVE Stream(s)' = Stream(s)
  <2>1. CASE \E f \in DOMAIN clients : clients[f].peer = s
    <3>1. \E f \in DOMAIN clients \cap DOMAIN clients' :
              /\ clients[f].peer = s /\ clients'[f].peer = s
              /\ clients'[f].write_pending = clients[f].write_pending
      BY <1>9, <2>1
    <3> QED BY <1>1, <3>1, KeptStream
  <2>2. CASE /\ \A f \in DOMAIN clients : clients[f].peer # s
             /\ \A f \in DOMAIN clients' : clients'[f].peer # s
    BY <1>1, <2>2, KeptStream
  <2>3. CASE /\ \A f \in DOMAIN clients : clients[f].peer # s
             /\ \E f \in DOMAIN clients' : clients'[f].peer = s
    <3>1. PICK f \in DOMAIN clients' : clients'[f].peer = s
      BY <2>3
    <3>2. clients'[f] = NewClient(h) /\ s = h
      BY <1>9, <1>10, <2>3, <3>1
    <3>3. Stream(s) = <<>>
      BY <1>6, <2>3, <3>2, StreamOf DEF StreamInv
    <3>4. StreamInv'
      BY StreamNext
    <3>5. Stream(s)' = received'[s] \o clients'[f].write_pending
      BY <3>1, <3>4 DEF StreamInv
    <3>6. <<>> \o <<>> = <<>>
      BY ConcatEmptySeq, EmptySeq
    <3> QED BY <1>1, <1>6, <1>10, <3>2, <3>3, <3>5, <3>6
  <2> QED BY <2>1, <2>2, <2>3
<1>12. ASSUME NEW s \in Sessions PROVE SessionExact(s)'
  <2>1. Exact(Stream(s), ReadingOf(s), inbox[s], Later(s), sent[s])
    BY DEF RepliesInv, SessionExact
  <2>2. ReadingOf(s)' = ReadingOf(s)
    BY <1>1, <1>3 DEF ReadingOf
  <2>3. Stream(s)' = Stream(s) /\ Later(s)' = Later(s) /\ sent' = sent
    BY <1>1, <1>11, SameLater
  <2>4. inbox'[s] = inbox[s] \/ inbox'[s] = <<>>
    BY <1>5, <1>7
  <2>5. Exact(Stream(s), ReadingOf(s), inbox'[s], Later(s), sent[s])
    BY <2>1, <2>4, LessQueued
  <2> QED BY <2>2, <2>3, <2>5, SessionNext
<1>13. AckInv'
  <2> SUFFICES ASSUME NEW f \in DOMAIN clients', NEW s \in Sessions, clients'[f].peer = s
               PROVE  /\ clients'[f].state = "kHandshaking" => Stream(s)' = <<>>
                      /\ clients'[f].state = "kHealthy" => Stream(s)' # <<>>
    BY DEF AckInv
  <2>1. CASE f \in DOMAIN clients
    BY <1>9, <1>11, <2>1 DEF RepliesInv, AckInv
  <2>2. CASE f \notin DOMAIN clients
    <3>1. s = h /\ clients'[f].state = "kHandshaking"
      BY <1>9, <1>10, <2>2
    <3>2. Stream(s) = <<>>
      BY <1>2, <1>6, <3>1, StreamOf DEF StreamInv
    <3> QED BY <1>11, <3>1, <3>2
  <2> QED BY <2>1, <2>2
<1> QED BY <1>1, <1>8, <1>12, <1>13, SameLater DEF RepliesInv


\* A queued connection is aborted.
LEMMA AbortedReplies == ASSUME SimInv, RepliesInv, AcceptAborted PROVE RepliesInv'
<1> DEFINE h == Head(backlog)
<1>1. /\ backlog # <<>> /\ backlog' = Tail(backlog) /\ link' = [link EXCEPT ![h] = "gone"]
      /\ UNCHANGED <<clients, received, current, reading, pending_replies, inbox, sent>>
  BY DEF AcceptAborted, reactor
<1>2. backlog \in Seq(Sessions) /\ link \in [Sessions -> {"idle", "open", "eof", "reset", "gone"}]
  BY DEF SimInv, Typed, TypeSockets
<1>3. \A i \in 1 .. Len(Tail(backlog)) : i + 1 \in 1 .. Len(backlog)
          /\ Tail(backlog)[i] = backlog[i + 1]
  <2>1. Len(backlog) \in Nat \ {0} /\ Len(Tail(backlog)) = Len(backlog) - 1
          /\ \A i \in 1 .. Len(Tail(backlog)) : Tail(backlog)[i] = backlog[i + 1]
    BY <1>1, <1>2, EmptySeq, HeadTailProperties
  <2>2. ASSUME NEW n \in Nat \ {0} PROVE \A i \in 1 .. n - 1 : i + 1 \in 1 .. n
    OBVIOUS
  <2> QED BY <2>1, <2>2
<1> HIDE DEF h
<1>4. FreshInv'
  <2>1. \A s \in Sessions : link'[s] = "idle" => link[s] = "idle"
    BY <1>1, <1>2
  <2>2. \A s \in Sessions : (\E i \in 1 .. Len(backlog') : backlog'[i] = s)
                              => \E i \in 1 .. Len(backlog) : backlog[i] = s
    BY <1>1, <1>3
  <2> QED BY <1>1, <2>1, <2>2 DEF RepliesInv, FreshInv
<1>5. ASSUME NEW s \in Sessions PROVE SessionExact(s)'
  <2>1. Exact(Stream(s), ReadingOf(s), inbox[s], Later(s), sent[s])
    BY DEF RepliesInv, SessionExact
  <2> QED BY <1>1, <2>1, SameStream, SameReading, SameLater, SessionNext
<1> QED BY <1>1, <1>4, <1>5, SameLater, SameAck DEF RepliesInv

\* What is kept of the deferred replies.
LEMMA KeptLater ==
  ASSUME NEW fds, pending_replies \in Seq(PendingReply), pending_replies' = PurgedReplies(fds),
         DeferredOnce
  PROVE  DeferredOnce' /\ \A s \in Sessions : Later(s)' \subseteq Later(s)
<1> DEFINE r == PurgedReplies(fds)
           q == pending_replies
<1>1. r \in Seq(PendingReply) /\ KeptOf(r, q, fds, Len(q)) /\ pending_replies' = r
  BY Purged
<1> HIDE DEF r
<1>2. \A i \in 1 .. Len(r) : \E j \in 1 .. Len(q) : r[i] = q[j]
  BY <1>1 DEF KeptOf
<1>3. \A i, k \in 1 .. Len(r) : i < k => \E j, l \in 1 .. Len(q) : j < l /\ r[i] = q[j]
          /\ r[k] = q[l]
  BY <1>1 DEF KeptOf
<1>4. Len(r) \in Nat /\ Len(q) \in Nat
  BY <1>1, LenProperties
<1>5. ASSUME NEW s \in Sessions PROVE Later(s)' \subseteq Later(s)
  BY <1>1, <1>2 DEF Later
<1>6. DeferredOnce'
  <2> DEFINE Same(a, b) == a.asker = b.asker /\ a.sequence = b.sequence
  <2>1. \A j, l \in 1 .. Len(q) : Same(q[j], q[l]) => j = l
    BY DEF DeferredOnce
  <2>2. \A a, b : Same(a, b) => Same(b, a)
    OBVIOUS
  <2> HIDE DEF Same
  <2>3. ASSUME NEW i \in 1 .. Len(r), NEW k \in 1 .. Len(r), i < k PROVE ~Same(r[i], r[k])
    <3>1. PICK j \in 1 .. Len(q), l \in 1 .. Len(q) : j < l /\ r[i] = q[j] /\ r[k] = q[l]
      BY <1>3, <2>3
    <3>2. j # l
      BY <1>4, <3>1
    <3> QED BY <2>1, <3>1, <3>2
  <2>4. ASSUME NEW i \in 1 .. Len(r), NEW k \in 1 .. Len(r), Same(r[i], r[k]) PROVE i = k
    <3>1. i < k \/ k < i \/ i = k
      BY <1>4
    <3> QED BY <2>2, <2>3, <2>4, <3>1
  <2> QED BY <1>1, <2>4 DEF DeferredOnce, Same
<1> QED BY <1>5, <1>6

\* Clients are removed: what they were not sent is lost.
LEMMA RemoveReplies ==
  ASSUME SimInv, SimInv', RepliesInv, NEW fds \in SUBSET DOMAIN clients, RemoveClients(fds),
         UNCHANGED <<backlog, sent>>, current' = {},
         \A s \in Sessions :
           \/ received'[s] = received[s]
           \/ \E f \in fds, u, v \in Seq(Message) :
                /\ clients[f].peer = s /\ received'[s] = received[s] \o u
                /\ clients[f].write_pending = u \o v
  PROVE  RepliesInv'
<1>1. DOMAIN clients' = DOMAIN clients \ fds /\ \A f \in DOMAIN clients' : clients'[f] = clients[f]
  BY RemoveSteps
<1>2. /\ pending_replies \in Seq(PendingReply) /\ pending_replies' = PurgedReplies(fds)
      /\ received \in [Sessions -> Seq(Message)] /\ received' \in [Sessions -> Seq(Message)]
      /\ \A f \in DOMAIN clients : clients[f].peer \in Sessions
                /\ clients[f].write_pending \in Seq(Message)
  <2>1. received' \in [Sessions -> Seq(Message)]
    BY DEF SimInv, Typed, TypeSockets
  <2> QED BY <2>1, ClientFields DEF SimInv, Typed, TypeSockets, TypeReplies, TypeClients,
            RemoveClients
<1>3. \A f, g \in DOMAIN clients : clients[f].peer = clients[g].peer => f = g
  BY DEF SimInv, SocketInv
<1>4. ASSUME NEW s \in Sessions, \A f \in fds : clients[f].peer # s
      PROVE  Stream(s)' = Stream(s) /\ received'[s] = received[s]
  <2>1. received'[s] = received[s]
    BY <1>4
  <2>2. CASE \A f \in DOMAIN clients : clients[f].peer # s
    BY <1>1, <2>1, <2>2, KeptStream
  <2>3. CASE \E f \in DOMAIN clients : clients[f].peer = s
    <3>1. PICK f \in DOMAIN clients : clients[f].peer = s
      BY <2>3
    <3>2. f \in DOMAIN clients' /\ clients'[f] = clients[f]
      BY <1>1, <1>4, <3>1
    <3> QED BY <2>1, <3>1, <3>2, KeptStream
  <2> QED BY <2>1, <2>2, <2>3
<1>5. ASSUME NEW s \in Sessions PROVE \E w \in Seq(Message) : Stream(s) = Stream(s)' \o w
  <2>1. CASE \A f \in fds : clients[f].peer # s
    <3>1. Stream(s)' = Stream(s) /\ Stream(s) \in Seq(Message)
      BY <1>4, <2>1, StreamOf DEF StreamInv
    <3>2. Stream(s) = Stream(s)' \o <<>>
      BY <3>1, ConcatEmptySeq
    <3> QED BY <3>2, EmptySeq
  <2>2. CASE \E f \in fds : clients[f].peer = s
    <3>1. PICK f \in fds : clients[f].peer = s
      BY <2>2
    <3>2. \A g \in DOMAIN clients' : clients'[g].peer # s
      BY <1>1, <1>3, <3>1
    <3>3. StreamInv'
      BY StreamNext
    <3>4. Stream(s)' = received'[s]
      BY <3>2, <3>3 DEF StreamInv
    <3>5. Stream(s) = received[s] \o clients[f].write_pending
      BY <3>1, StreamOf DEF StreamInv
    <3>6. CASE received'[s] = received[s]
      BY <1>2, <3>1, <3>4, <3>5, <3>6
    <3>7. CASE \E g \in fds, u, v \in Seq(Message) :
                /\ clients[g].peer = s /\ received'[s] = received[s] \o u
                /\ clients[g].write_pending = u \o v
      <4>1. PICK g \in fds, u \in Seq(Message), v \in Seq(Message) :
                /\ clients[g].peer = s /\ received'[s] = received[s] \o u
                /\ clients[g].write_pending = u \o v
        BY <3>7
      <4>2. g = f
        BY <1>3, <3>1, <4>1
      <4>3. Stream(s) = received[s] \o (u \o v) /\ received[s] \in Seq(Message)
        BY <1>2, <3>5, <4>1, <4>2
      <4>4. Stream(s) = Stream(s)' \o v
        <5>1. (received[s] \o u) \o v = received[s] \o (u \o v)
          BY <4>3, Regroup
        <5> QED BY <3>4, <4>1, <4>3, <5>1
      <4> QED BY <4>4
    <3> QED BY <3>6, <3>7
  <2> QED BY <2>1, <2>2
<1>6. DeferredOnce' /\ \A s \in Sessions : Later(s)' \subseteq Later(s)
  BY <1>2, KeptLater DEF RepliesInv
<1>7. ASSUME NEW s \in Sessions PROVE SessionExact(s)'
  <2>1. Exact(Stream(s), ReadingOf(s), inbox[s], Later(s), sent[s])
    BY DEF RepliesInv, SessionExact
  <2>2. ReadingOf(s)' = <<>>
    BY DEF ReadingOf
  <2>3. inbox'[s] = inbox[s] \/ inbox'[s] = <<>>
    BY DEF RemoveClients
  <2>4. PICK w \in Seq(Message) : Stream(s) = Stream(s)' \o w
    BY <1>5
  <2>5. Stream(s)' \in Seq(Message)
    <3>1. StreamInv'
      BY StreamNext
    <3> QED BY <3>1 DEF StreamInv
  <2>6. Shape(Stream(s)') /\ (\A m : Has(Stream(s)', m) => Has(Stream(s), m))
          /\ (Stream(s)' # <<>> => Stream(s) # <<>>)
    <3>1. Shape(Stream(s))
      BY <2>1 DEF Exact
    <3> QED BY <2>4, <2>5, <3>1, PrefixHas
  <2>7. Once(inbox'[s]) /\ (\A m : Has(inbox'[s], m) => Has(inbox[s], m))
            /\ (Asks(inbox'[s]) => Asks(inbox[s]))
    BY <2>1, <2>3, EmptyHas DEF Exact
  <2>8. Exact(Stream(s)', <<>>, inbox'[s], Later(s)', sent[s])
    BY <1>6, <2>1, <2>6, <2>7, EmptyHas, ExactLess
  <2> QED BY <2>2, <2>8, SessionNext
<1>8. AckInv'
  <2> SUFFICES ASSUME NEW f \in DOMAIN clients', NEW s \in Sessions, clients'[f].peer = s
               PROVE  /\ clients'[f].state = "kHandshaking" => Stream(s)' = <<>>
                      /\ clients'[f].state = "kHealthy" => Stream(s)' # <<>>
    BY DEF AckInv
  <2>1. \A g \in fds : clients[g].peer # s
    BY <1>1, <1>3
  <2>2. Stream(s)' = Stream(s)
    BY <1>4, <2>1
  <2> QED BY <1>1, <2>2 DEF RepliesInv, AckInv
<1>9. FreshInv'
  <2> SUFFICES ASSUME NEW s \in Sessions,
                      link'[s] = "idle" \/ (\E i \in 1 .. Len(backlog) : backlog[i] = s)
               PROVE  received'[s] = <<>>
    BY DEF FreshInv
  <2>1. \A f \in fds : clients[f].peer # s
    <3>1. CASE link'[s] = "idle"
      BY <3>1 DEF RemoveClients
    <3>2. CASE \E i \in 1 .. Len(backlog) : backlog[i] = s
      BY <3>2 DEF SimInv, SocketInv
    <3> QED BY <3>1, <3>2
  <2>2. link'[s] = link[s]
    BY <2>1 DEF RemoveClients
  <2>3. received[s] = <<>>
    BY <2>2 DEF RepliesInv, FreshInv
  <2> QED BY <1>4, <2>1, <2>3
<1> QED BY <1>6, <1>7, <1>8, <1>9 DEF RepliesInv

\* remove_client after a hangup, by the operator, and by the tick.
LEMMA RemovalReplies ==
  ASSUME SimInv, SimInv', RepliesInv,
         \/ \E fd \in DOMAIN clients : KillRandomConnection(fd)
         \/ \E e \in events : OnHangup(e)
         \/ TickReap
  PROVE  RepliesInv'
<1>1. PICK fds \in SUBSET DOMAIN clients : RemoveClients(fds)
  BY DEF KillRandomConnection, OnHangup, TickReap
<1>2. UNCHANGED <<backlog, sent, received, current>> /\ pc \in {"loop", "command"}
  BY DEF KillRandomConnection, OnHangup, TickReap, reactor
<1>3. current' = {}
  BY <1>2 DEF SimInv, ReactorInv
<1> QED BY <1>1, <1>2, <1>3, RemoveReplies


\* Clients that are only failed.
LEMMA FailedReplies ==
  ASSUME SimInv, SimInv', RepliesInv, DOMAIN clients' = DOMAIN clients, received' = received,
         \A f \in DOMAIN clients :
           /\ clients'[f].peer = clients[f].peer
           /\ clients'[f].write_pending = clients[f].write_pending
           /\ clients'[f].state \in {clients[f].state, "kFailed"}
  PROVE  AckInv' /\ \A s \in Sessions : Stream(s)' = Stream(s)
<1>1. ASSUME NEW s \in Sessions PROVE Stream(s)' = Stream(s)
  <2>1. CASE \A f \in DOMAIN clients : clients[f].peer # s
    BY <2>1, KeptStream
  <2>2. CASE \E f \in DOMAIN clients : clients[f].peer = s
    BY <2>2, KeptStream
  <2> QED BY <2>1, <2>2
<1>2. AckInv'
  BY <1>1 DEF RepliesInv, AckInv
<1> QED BY <1>1, <1>2

\* recv takes what is queued.
LEMMA ReadableReplies ==
  ASSUME SimInv, SimInv', RepliesInv, NEW e \in events, OnReadable(e) PROVE RepliesInv'
<1> DEFINE fd == e.fd
           p == clients[fd].peer
<1>1. /\ pc = "loop" /\ fd \in DOMAIN clients /\ current' = {e}
      /\ UNCHANGED <<pending_replies, backlog, link, sent, received>>
  BY DEF OnReadable
<1>2. current = {} /\ reading = <<>>
  BY <1>1 DEF SimInv, ReactorInv
<1>3. /\ inbox \in [Sessions -> Seq(Message)] /\ clients[fd] \in Client /\ p \in Sessions
      /\ \A f, g \in DOMAIN clients : clients[f].peer = clients[g].peer => f = g
  BY <1>1, ClientFields DEF SimInv, Typed, TypeSockets, TypeClients, SocketInv
<1>4. /\ \/ reading' = reading /\ inbox' = inbox /\ clients' = clients
         \/ reading' = reading /\ inbox' = [inbox EXCEPT ![p] = <<>>]
              /\ clients' = [clients EXCEPT ![fd] = Failed(@)]
         \/ reading' = inbox[p] /\ inbox' = [inbox EXCEPT ![p] = <<>>] /\ clients' = clients
  BY DEF OnReadable
<1> HIDE DEF fd, p
<1>5. /\ Failed(clients[fd]).peer = clients[fd].peer /\ Failed(clients[fd]).state = "kFailed"
      /\ Failed(clients[fd]).write_pending = clients[fd].write_pending
  BY <1>3, FailedKin DEF Kin
<1>6. /\ DOMAIN clients' = DOMAIN clients
      /\ \A f \in DOMAIN clients :
           /\ clients'[f].peer = clients[f].peer
           /\ clients'[f].write_pending = clients[f].write_pending
           /\ clients'[f].state \in {clients[f].state, "kFailed"}
  <2>1. clients' = clients \/ clients' = [clients EXCEPT ![fd] = Failed(clients[fd])]
    BY <1>4
  <2> QED BY <1>5, <2>1
<1>7. AckInv' /\ \A s \in Sessions : Stream(s)' = Stream(s)
  BY <1>1, <1>6, FailedReplies
<1>8. ASSUME NEW s \in Sessions PROVE SessionExact(s)'
  <2>1. Exact(Stream(s), ReadingOf(s), inbox[s], Later(s), sent[s])
    BY DEF RepliesInv, SessionExact
  <2>2. ReadingOf(s) = <<>>
    BY <1>2 DEF ReadingOf
  <2>3. ReadingOf(s)' = IF s = p THEN reading' ELSE <<>>
    <3>1. (\E d \in current' : clients'[d.fd].peer = s) <=> s = p
      BY <1>1, <1>6 DEF p, fd
    <3> QED BY <3>1 DEF ReadingOf
  <2>4. Stream(s)' = Stream(s) /\ Later(s)' = Later(s) /\ sent' = sent
    BY <1>1, <1>7, SameLater
  <2>5. \/ ReadingOf(s)' = <<>> /\ (inbox'[s] = inbox[s] \/ inbox'[s] = <<>>)
        \/ ReadingOf(s)' = inbox[s] /\ inbox'[s] = <<>>
    BY <1>2, <1>3, <1>4, <2>3
  <2>6. Exact(Stream(s), <<>>, <<>>, Later(s), sent[s]) /\ Exact(Stream(s), inbox[s], <<>>,
            Later(s), sent[s])
    BY <2>1, <2>2, LessQueued, ExactRead
  <2>7. Exact(Stream(s), ReadingOf(s)', inbox'[s], Later(s), sent[s])
    BY <2>1, <2>2, <2>5, <2>6
  <2> QED BY <2>4, <2>7, SessionNext
<1> QED BY <1>1, <1>7, <1>8, SameLater, SameFresh DEF RepliesInv

\* The buffer is drained.
LEMMA DrainReplies == ASSUME SimInv, SimInv', RepliesInv, DrainDone PROVE RepliesInv'
<1>1. /\ reading = <<>>
      /\ clients' = [fd \in DOMAIN clients |->
                   IF recv_end # "open" /\ \E e \in current : e.fd = fd
                   THEN Failed(clients[fd]) ELSE clients[fd]]
      /\ UNCHANGED <<current, reading, pending_replies, backlog, link, inbox, sent, received>>
  BY DEF DrainDone, peers
<1>2. ASSUME NEW f \in DOMAIN clients
      PROVE  /\ clients'[f].peer = clients[f].peer
             /\ clients'[f].write_pending = clients[f].write_pending
             /\ clients'[f].state \in {clients[f].state, "kFailed"}
  <2>1. clients[f] \in Client
    BY DEF SimInv, Typed, TypeClients
  <2>2. clients'[f] = Failed(clients[f]) \/ clients'[f] = clients[f]
    BY <1>1
  <2> QED BY <2>1, <2>2, FailedKin DEF Kin
<1>3. DOMAIN clients' = DOMAIN clients
  BY <1>1
<1>4. AckInv' /\ \A s \in Sessions : Stream(s)' = Stream(s)
  BY <1>1, <1>2, <1>3, FailedReplies
<1>5. ASSUME NEW s \in Sessions PROVE SessionExact(s)'
  <2>1. Exact(Stream(s), ReadingOf(s), inbox[s], Later(s), sent[s])
    BY DEF RepliesInv, SessionExact
  <2>2. ReadingOf(s) = <<>> /\ ReadingOf(s)' = <<>>
    BY <1>1 DEF ReadingOf
  <2> QED BY <1>1, <1>4, <2>1, <2>2, SameLater, SessionNext
<1> QED BY <1>1, <1>4, <1>5, SameLater, SameFresh DEF RepliesInv

\* Client fd is sent u, and w is added to what it was and is to be sent.
Touches(fd, u, w) ==
  /\ DOMAIN clients' = DOMAIN clients
  /\ \A f \in DOMAIN clients : f # fd => clients'[f] = clients[f]
  /\ clients'[fd].peer = clients[fd].peer
  /\ Deliver(clients[fd].peer, u)
  /\ u \o clients'[fd].write_pending = clients[fd].write_pending \o w
  /\ UNCHANGED <<link, backlog>>

\* Whether the CONNECT_ACK and the client's state agree after that.
Agrees(fd, w) ==
  \/ clients'[fd].state = "kFailed"
  \/ clients'[fd].state = clients[fd].state /\ (w = <<>> \/ clients[fd].state = "kHealthy")
  \/ clients'[fd].state = "kHealthy" /\ w # <<>>

\* That session's stream grows by w and no other changes.
LEMMA TouchReplies ==
  ASSUME SimInv, SimInv', RepliesInv, NEW fd \in DOMAIN clients, NEW u \in Seq(Message),
         NEW w \in Seq(Message), Touches(fd, u, w), Agrees(fd, w)
  PROVE  /\ clients[fd].peer \in Sessions
         /\ \A s \in Sessions : Stream(s)' =
              IF s = clients[fd].peer THEN Stream(s) \o w ELSE Stream(s)
         /\ AckInv' /\ FreshInv'
<1> DEFINE p == clients[fd].peer
           a == clients[fd].write_pending
           b == clients'[fd].write_pending
<1>1. /\ DOMAIN clients' = DOMAIN clients
      /\ \A f \in DOMAIN clients : f # fd => clients'[f] = clients[f]
      /\ clients'[fd].peer = p /\ u \o b = a \o w /\ UNCHANGED <<link, backlog>>
      /\ received' = [received EXCEPT ![p] = received[p] \o u]
  BY DEF Touches, Deliver
<1>2. p \in Sessions /\ a \in Seq(Message) /\ received \in [Sessions -> Seq(Message)]
  BY ClientFields DEF SimInv, Typed, TypeClients, TypeSockets
<1>3. b \in Seq(Message)
  <2>1. clients'[fd] \in Client
    BY <1>1 DEF SimInv, Typed, TypeClients
  <2> QED BY <2>1, ClientFields
<1>4. /\ \A f, g \in DOMAIN clients : clients[f].peer = clients[g].peer => f = g
      /\ link[p] \in Up /\ \A i \in 1 .. Len(backlog) : backlog[i] # p
  BY DEF SimInv, SocketInv
<1>5. Stream(p) \in Seq(Message) /\ Stream(p) = received[p] \o a
  BY <1>2, StreamOf DEF StreamInv
<1>6. ASSUME NEW s \in Sessions, s # p PROVE Stream(s)' = Stream(s) /\ received'[s] = received[s]
  <2>1. received'[s] = received[s]
    BY <1>1, <1>2, <1>6
  <2>2. CASE \A f \in DOMAIN clients : clients[f].peer # s
    <3>1. \A f \in DOMAIN clients' : clients'[f].peer # s
      BY <1>1, <1>6, <2>2
    <3> QED BY <2>1, <2>2, <3>1, KeptStream
  <2>3. CASE \E f \in DOMAIN clients : clients[f].peer = s
    <3>1. PICK f \in DOMAIN clients : clients[f].peer = s
      BY <2>3
    <3>2. f \in DOMAIN clients' /\ clients'[f] = clients[f]
      BY <1>1, <1>6, <3>1
    <3> QED BY <2>1, <3>1, <3>2, KeptStream
  <2> QED BY <2>1, <2>2, <2>3
<1>7. ASSUME NEW s \in Sessions, s = p PROVE Stream(s)' = Stream(s) \o w
  <2>1. StreamInv'
    BY StreamNext
  <2>2. fd \in DOMAIN clients' /\ clients'[fd].peer = s
    BY <1>1, <1>7
  <2>3. Stream(s)' = received'[s] \o b
    BY <2>1, <2>2 DEF StreamInv
  <2>4. received'[s] = received[s] \o u /\ received[s] \in Seq(Message)
    BY <1>1, <1>2, <1>7
  <2>5. (received[s] \o u) \o b = received[s] \o (u \o b)
    BY <1>3, <2>4, Regroup
  <2>6. (received[s] \o a) \o w = received[s] \o (a \o w)
    BY <1>2, <2>4, Regroup
  <2>7. Stream(s) = received[s] \o a
    BY <1>5, <1>7
  <2> QED BY <1>1, <2>3, <2>4, <2>5, <2>6, <2>7
<1>8. FreshInv'
  <2> SUFFICES ASSUME NEW s \in Sessions,
                      link[s] = "idle" \/ (\E i \in 1 .. Len(backlog) : backlog[i] = s)
               PROVE  received'[s] = <<>>
    BY <1>1 DEF FreshInv
  <2>1. s # p
    BY <1>4 DEF Up
  <2> QED BY <1>6, <2>1 DEF RepliesInv, FreshInv
<1>9. AckInv'
  <2> SUFFICES ASSUME NEW f \in DOMAIN clients, NEW s \in Sessions, clients'[f].peer = s
               PROVE  /\ clients'[f].state = "kHandshaking" => Stream(s)' = <<>>
                      /\ clients'[f].state = "kHealthy" => Stream(s)' # <<>>
    BY <1>1 DEF AckInv
  <2>1. CASE f # fd
    <3>1. clients'[f] = clients[f] /\ s # p
      BY <1>1, <1>4, <2>1
    <3> QED BY <1>6, <3>1 DEF RepliesInv, AckInv
  <2>2. CASE f = fd
    <3>1. s = p /\ Stream(s)' = Stream(s) \o w /\ Stream(s) \in Seq(Message)
      BY <1>1, <1>5, <1>7, <2>2
    <3>2. w = <<>> => Stream(s)' = Stream(s)
      BY <3>1, ConcatEmptySeq
    <3>3. Stream(s)' = <<>> <=> Stream(s) = <<>> /\ w = <<>>
      BY <3>1, ConcatEqualIffEmpty
    <3>4. /\ clients[fd].state = "kHandshaking" => Stream(s) = <<>>
          /\ clients[fd].state = "kHealthy" => Stream(s) # <<>>
      BY <3>1 DEF RepliesInv, AckInv
    <3> QED BY <2>2, <3>2, <3>3, <3>4 DEF Agrees
  <2> QED BY <2>1, <2>2
<1> QED BY <1>2, <1>6, <1>7, <1>8, <1>9


\* handle_client_event is done with a client.
LEMMA FinishReplies ==
  ASSUME SimInv, SimInv', RepliesInv, NEW e \in current, FinishEvent(e) PROVE RepliesInv'
<1> DEFINE fd == e.fd
           client == clients[fd]
<1>1. /\ pc = "finish" /\ current' = {} /\ fd \in DOMAIN clients /\ UNCHANGED <<reading,
          backlog, sent>>
  BY DEF SimInv, FinishEvent, ReactorInv
<1>2. client \in Client /\ client.peer \in Sessions /\ client.write_pending \in Seq(Message)
        /\ received \in [Sessions -> Seq(Message)]
  BY <1>1, ClientFields DEF SimInv, Typed, TypeClients, TypeSockets
<1>3. PICK o \in IF e.out /\ client.state # "kFailed" THEN FlushOutcomes(client)
                 ELSE {[client |-> client, sent |-> <<>>]} :
        /\ Deliver(client.peer, o.sent)
        /\ IF o.client.state = "kFailed"
           THEN RemoveClients({fd})
           ELSE /\ clients' = [clients EXCEPT ![fd] = Synced(o.client)]
                /\ UNCHANGED <<pending_replies, link, inbox>>
  BY DEF FinishEvent
<1>4. Outcome(o, client, client.write_pending)
  <2>1. CASE o \in FlushOutcomes(client)
    BY <1>2, <2>1, FlushSteps
  <2>2. CASE o = [client |-> client, sent |-> <<>>]
    BY <1>2, <2>2, SelfKin, NothingSent
  <2> QED BY <2>1, <2>2
<1>5. /\ o.client \in Client /\ o.client.peer = client.peer
          /\ o.client.state \in {client.state, "kFailed"}
      /\ o.sent \in Seq(Message) /\ o.client.write_pending \in Seq(Message)
      /\ o.sent \o o.client.write_pending = client.write_pending
  BY <1>4, ClientFields DEF Outcome, Kin
<1>6. received' = [received EXCEPT ![client.peer] = received[client.peer] \o o.sent]
  BY <1>3 DEF Deliver
<1>7. CASE o.client.state = "kFailed"
  <2>1. RemoveClients({fd})
    BY <1>3, <1>7
  <2>2. ASSUME NEW s \in Sessions
        PROVE  \/ received'[s] = received[s]
               \/ \E f \in {fd}, u, v \in Seq(Message) :
                    /\ clients[f].peer = s /\ received'[s] = received[s] \o u
                    /\ clients[f].write_pending = u \o v
    <3>1. CASE s # client.peer
      BY <1>2, <1>6, <3>1
    <3>2. CASE s = client.peer
      <4>1. clients[fd].peer = s /\ received'[s] = received[s] \o o.sent
              /\ clients[fd].write_pending = o.sent \o o.client.write_pending
        BY <1>2, <1>5, <1>6, <3>2
      <4> QED BY <1>5, <4>1
    <3> QED BY <3>1, <3>2
  <2>3. {fd} \in SUBSET DOMAIN clients
    BY <1>1
  <2> HIDE DEF fd, client
  <2> QED BY <1>1, <2>1, <2>2, <2>3, RemoveReplies
<1>8. CASE o.client.state # "kFailed"
  <2> DEFINE c == Synced(o.client)
  <2>1. c.peer = client.peer /\ c.write_pending = o.client.write_pending /\ c.state = client.state
    BY <1>5, <1>8, SyncedSteps
  <2>2. clients' = [clients EXCEPT ![fd] = c] /\ UNCHANGED <<pending_replies, link, inbox>>
    BY <1>3, <1>8
  <2> HIDE DEF c, fd
  <2>3. DOMAIN clients' = DOMAIN clients /\ clients'[fd] = c
          /\ \A f \in DOMAIN clients : f # fd => clients'[f] = clients[f]
    BY <1>1, <2>2
  <2>4. <<>> \in Seq(Message) /\ client.write_pending \o <<>> = client.write_pending
    BY <1>2, EmptySeq, ConcatEmptySeq
  <2>5. Touches(fd, o.sent, <<>>) /\ Agrees(fd, <<>>)
    BY <1>1, <1>3, <1>5, <2>1, <2>2, <2>3, <2>4 DEF Touches, Agrees
  <2>6. AckInv' /\ FreshInv'
          /\ \A s \in Sessions : Stream(s)' =
               IF s = client.peer THEN Stream(s) \o <<>> ELSE Stream(s)
    BY <1>1, <1>5, <2>4, <2>5, TouchReplies
  <2>7. ASSUME NEW s \in Sessions PROVE SessionExact(s)'
    <3>1. Exact(Stream(s), ReadingOf(s), inbox[s], Later(s), sent[s])
      BY DEF RepliesInv, SessionExact
    <3>2. reading = <<>>
      BY <1>1 DEF SimInv, ReactorInv
    <3>3. ReadingOf(s) = <<>> /\ ReadingOf(s)' = <<>>
      BY <1>1, <3>2 DEF ReadingOf
    <3>4. Stream(s) \o <<>> = Stream(s)
      BY StreamOf, ConcatEmptySeq DEF StreamInv
    <3>5. Stream(s)' = Stream(s)
      BY <2>6, <3>4
    <3> QED BY <1>1, <2>2, <3>1, <3>3, <3>5, SameLater, SessionNext
  <2> QED BY <2>2, <2>6, <2>7, SameLater DEF RepliesInv
<1> QED BY <1>7, <1>8

\* What was read is thrown away.
LEMMA LessTaken ==
  ASSUME NEW out, NEW taken, NEW queued, NEW later, NEW n, Exact(out, taken, queued, later, n)
  PROVE  Exact(out, <<>>, queued, later, n)
  BY EmptyHas DEF Exact

\* A message is handled without a reply.
LEMMA TailTaken ==
  ASSUME NEW out, NEW taken \in Seq(Message), taken # <<>>, NEW queued, NEW later, NEW n,
         Exact(out, taken, queued, later, n)
  PROVE  Exact(out, Tail(taken), queued, later, n)
<1>1. Once(Tail(taken)) /\ (Asks(Tail(taken)) => Asks(taken)) /\ \A m : Has(Tail(taken), m)
          => Has(taken, m)
  BY TailHas DEF Exact
<1> QED BY <1>1 DEF Exact

\* One message of drain_read_buffer: w is what it adds to the session's stream.
LEMMA HandleReplies ==
  ASSUME SimInv, SimInv', RepliesInv, NEW fd \in DOMAIN clients, NEW m, NEW o, Handle(m, fd, o),
         NEW p \in Sessions, p = clients[fd].peer, o.client.peer = p,
         o.sent \in Seq(Message), NEW w \in Seq(Message),
         o.sent \o o.client.write_pending = clients[fd].write_pending \o w,
         \/ o.client.state = "kFailed"
         \/ o.client.state = clients[fd].state /\ (w = <<>> \/ clients[fd].state = "kHealthy")
         \/ o.client.state = "kHealthy" /\ w # <<>>,
         DeferredOnce', \A s \in Sessions : s # p => Later(s)' = Later(s),
         Exact(Stream(p) \o w, Tail(reading), inbox[p], Later(p)', sent[p])
  PROVE  RepliesInv'
<1>1. /\ current = {e \in current : e.fd = fd} /\ current # {}
      /\ clients' = [clients EXCEPT ![fd] = o.client]
      /\ Deliver(clients[fd].peer, o.sent)
      /\ reading' = (IF o.client.state = "kFailed" THEN <<>> ELSE Tail(reading))
      /\ UNCHANGED <<current, backlog, link, inbox, sent>>
  BY DEF Handle
<1>2. /\ DOMAIN clients' = DOMAIN clients /\ clients'[fd] = o.client
      /\ \A f \in DOMAIN clients : f # fd => clients'[f] = clients[f]
  BY <1>1
<1>3. Touches(fd, o.sent, w) /\ Agrees(fd, w)
  BY <1>1, <1>2 DEF Touches, Agrees
<1>4. /\ AckInv' /\ FreshInv'
      /\ \A s \in Sessions : Stream(s)' = IF s = p THEN Stream(s) \o w ELSE Stream(s)
  BY <1>3, TouchReplies
<1>5. ASSUME NEW s \in Sessions
      PROVE  /\ (\E e \in current : clients[e.fd].peer = s) <=> s = p
             /\ (\E e \in current' : clients'[e.fd].peer = s) <=> s = p
  BY <1>1, <1>2
<1>6. ASSUME NEW s \in Sessions
      PROVE  /\ ReadingOf(s) = IF s = p THEN reading ELSE <<>>
             /\ ReadingOf(s)' = IF s = p THEN reading' ELSE <<>>
  BY <1>5 DEF ReadingOf
<1>7. ASSUME NEW s \in Sessions PROVE SessionExact(s)'
  <2>1. CASE s # p
    <3>1. Exact(Stream(s), ReadingOf(s), inbox[s], Later(s), sent[s])
      BY DEF RepliesInv, SessionExact
    <3>2. Stream(s)' = Stream(s) /\ ReadingOf(s)' = ReadingOf(s) /\ Later(s)' = Later(s)
      BY <1>4, <1>6, <2>1
    <3> QED BY <1>1, <3>1, <3>2, SessionNext
  <2>2. CASE s = p
    <3>1. Stream(s)' = Stream(s) \o w /\ ReadingOf(s)' = reading'
      BY <1>4, <1>6, <2>2
    <3>2. Exact(Stream(s) \o w, Tail(reading), inbox[s], Later(s)', sent[s])
      BY <2>2
    <3>3. Exact(Stream(s) \o w, reading', inbox[s], Later(s)', sent[s])
      BY <1>1, <3>2, LessTaken
    <3> QED BY <1>1, <3>1, <3>3, SessionNext
  <2> QED BY <2>1, <2>2
<1> QED BY <1>4, <1>7 DEF RepliesInv

\* One reply more to send.
LEMMA ReplyAdded ==
  ASSUME NEW a \in Seq(Message), NEW m \in Message
  PROVE  Append(a, m) = a \o <<m>> /\ <<m>> \in Seq(Message) /\ <<m>> # <<>>
<1>1. Append(a, m) = a \o <<m>>
  BY AppendIsConcat
<1>2. <<m>> = Append(<<>>, m)
  BY EmptySeq, AppendIsConcat, ConcatEmptySeq
<1>3. <<>> \in Seq(Message) /\ Len(<<>>) = 0
  BY EmptySeq
<1>4. Append(<<>>, m) \in Seq(Message) /\ Len(Append(<<>>, m)) = 1
  BY <1>3, AppendProperties
<1> QED BY <1>1, <1>2, <1>3, <1>4


\* A deferred reply is added at the back.
LEMMA DeferLater ==
  ASSUME pending_replies \in Seq(PendingReply), NEW reply \in PendingReply, NEW p \in Sessions,
         reply.asker = p, pending_replies' = Append(pending_replies, reply), DeferredOnce,
         reply.sequence \notin Later(p)
  PROVE  /\ DeferredOnce' /\ Later(p)' = Later(p) \cup {reply.sequence}
         /\ \A s \in Sessions : s # p => Later(s)' = Later(s)
<1> DEFINE q == pending_replies
           t == Append(q, reply)
           n == Len(q)
<1>1. n \in Nat /\ Len(t) = n + 1 /\ t[n + 1] = reply /\ \A i \in 1 .. n : t[i] = q[i]
  BY AppendProperties, LenProperties
<1>2. reply.sequence \in 0 .. MaxPings
  BY DEF PendingReply
<1>3. pending_replies' = t
  OBVIOUS
<1> HIDE DEF t
<1>4. /\ \A i \in 1 .. n + 1 : i \in 1 .. n \/ i = n + 1
      /\ \A i \in 1 .. n : i \in 1 .. n + 1
      /\ n + 1 \in 1 .. n + 1
  BY <1>1
<1>5. ASSUME NEW s \in Sessions, NEW x \in 0 .. MaxPings
      PROVE  x \in Later(s)' <=> x \in Later(s) \/ (s = p /\ x = reply.sequence)
  <2>1. x \in Later(s) <=> \E i \in 1 .. n : q[i].asker = s /\ q[i].sequence = x
    BY DEF Later
  <2>2. x \in Later(s)' <=> \E i \in 1 .. n + 1 : t[i].asker = s /\ t[i].sequence = x
    BY <1>1, <1>3 DEF Later
  <2> QED BY <1>1, <1>4, <2>1, <2>2
<1>6. \A s \in Sessions : Later(s) \subseteq 0 .. MaxPings /\ Later(s)' \subseteq 0 .. MaxPings
  BY DEF Later
<1>7. Later(p)' = Later(p) \cup {reply.sequence} /\ \A s \in Sessions : s # p
          => Later(s)' = Later(s)
  BY <1>2, <1>5, <1>6
<1>8. \A i \in 1 .. n : q[i].asker = p => q[i].sequence # reply.sequence
  BY <1>2 DEF Later
<1>9. DeferredOnce'
  <2>1. \A i, j \in 1 .. n : q[i].asker = q[j].asker /\ q[i].sequence = q[j].sequence => i = j
    BY DEF DeferredOnce
  <2>2. \A i, j \in 1 .. n + 1 : t[i].asker = t[j].asker /\ t[i].sequence = t[j].sequence => i = j
    BY <1>1, <1>4, <1>8, <2>1
  <2> QED BY <1>1, <1>3, <2>2 DEF DeferredOnce
<1> QED BY <1>7, <1>9

\* drain_read_buffer: each message is answered once at most.
LEMMA MessageReplies == ASSUME SimInv, SimInv', RepliesInv, HandleMessage PROVE RepliesInv'
<1>1. PICK m \in {reading[i] : i \in DOMAIN reading}, fd \in DOMAIN clients :
        \/ HandleConnectHello(m, fd) \/ HandlePingDropped(m, fd) \/ HandlePingDeferred(m, fd)
        \/ HandlePingAnswered(m, fd) \/ HandleFailure(m, fd)
  BY DEF HandleMessage
<1> DEFINE client == clients[fd]
           a == client.write_pending
<1>2. PICK p \in Sessions : p = client.peer
  BY ClientFields DEF SimInv, Typed, TypeClients
<1>3. /\ client \in Client /\ a \in Seq(Message) /\ a \o <<>> = a /\ <<>> \in Seq(Message)
      /\ reading \in Seq(Message) /\ pending_replies \in Seq(PendingReply)
  BY ClientFields, EmptySeq, ConcatEmptySeq
     DEF SimInv, Typed, TypeClients, TypeReactor, TypeReplies
<1>4. reading # <<>> /\ m = Head(reading) /\ current = {e \in current : e.fd = fd} /\ current # {}
  BY <1>1 DEF HandleConnectHello, HandlePingDropped, HandlePingDeferred, HandlePingAnswered,
              HandleFailure, Handle
<1>5. m \in Message /\ m.sequence \in 0 .. MaxPings /\ (m.type = "kPing" => m = Ping(m.sequence))
  <2>1. m \in Message
    BY <1>3, <1>4, HeadTailProperties
  <2> QED BY <2>1 DEF Message, Ping, Msg
<1>6. ReadingOf(p) = reading
  BY <1>2, <1>4 DEF ReadingOf
<1>7. Exact(Stream(p), reading, inbox[p], Later(p), sent[p])
  BY <1>6 DEF RepliesInv, SessionExact
<1>8. Stream(p) \in Seq(Message) /\ Stream(p) \o <<>> = Stream(p)
  BY StreamOf, ConcatEmptySeq DEF StreamInv
<1>9. Exact(Stream(p), Tail(reading), inbox[p], Later(p), sent[p])
  BY <1>3, <1>4, <1>7, TailTaken
<1>10. /\ client.state = "kHandshaking" => Stream(p) = <<>>
       /\ client.state = "kHealthy" => Stream(p) # <<>>
  BY <1>2 DEF RepliesInv, AckInv
<1>11. pending_replies' = pending_replies =>
         DeferredOnce' /\ \A s \in Sessions : Later(s)' = Later(s)
  BY SameLater DEF RepliesInv
<1> HIDE DEF a
<1>12. CASE HandleConnectHello(m, fd)
  <2>1. PICK o \in QueueOutcomes(client, Msg("kConnectAck", 0)) :
          Handle(m, fd, [o EXCEPT !.client = [@ EXCEPT !.state = "kHealthy",
                                                      !.state_entered = batch_now,
                                                      !.last_liveness = batch_now]])
    BY <1>12 DEF HandleConnectHello
  <2> DEFINE c == [o.client EXCEPT !.state = "kHealthy", !.state_entered = batch_now,
                                   !.last_liveness = batch_now]
             q == [o EXCEPT !.client = c]
             w == <<Msg("kConnectAck", 0)>>
  <2>2. Outcome(o, client, Append(client.write_pending, Msg("kConnectAck", 0)))
    BY <1>3, Numbering, QueueSteps
  <2>3. o.client \in Client /\ o.client.peer = p /\ o.sent \in Seq(Message)
          /\ o.sent \o o.client.write_pending = Append(a, Msg("kConnectAck", 0))
    BY <1>2, <2>2 DEF Outcome, Kin, a
  <2>4. c.peer = p /\ c.state = "kHealthy" /\ c.write_pending = o.client.write_pending
    BY <2>3 DEF Client
  <2>5. q.client = c /\ q.sent = o.sent
    <3>1. DOMAIN o = {"client", "sent"}
      BY <2>2 DEF Outcome
    <3> QED BY <3>1
  <2>6. pending_replies' = pending_replies /\ m.type = "kConnectHello"
            /\ client.state = "kHandshaking"
    BY <1>12 DEF HandleConnectHello
  <2>7. w \in Seq(Message) /\ w # <<>> /\ Append(a, Msg("kConnectAck", 0)) = a \o w
          /\ Append(Stream(p), Msg("kConnectAck", 0)) = Stream(p) \o w
    BY <1>3, <1>8, Numbering, ReplyAdded
  <2>8. Stream(p) = <<>>
    BY <1>10, <2>6
  <2>9. Exact(Append(<<>>, Msg("kConnectAck", 0)), Tail(reading), inbox[p], Later(p), sent[p])
    BY <1>3, <1>4, <1>7, <2>6, <2>8, ExactAck
  <2>10. Exact(Stream(p) \o w, Tail(reading), inbox[p], Later(p)', sent[p])
    BY <1>11, <2>6, <2>7, <2>8, <2>9
  <2>11. Handle(m, fd, q)
    BY <2>1
  <2> HIDE DEF c, q, w, client
  <2> QED BY <1>2, <1>11, <2>3, <2>4, <2>5, <2>6, <2>7, <2>10, <2>11, HandleReplies DEF client, a
<1>13. CASE HandleFailure(m, fd)
  <2> DEFINE o == [client |-> Failed(client), sent |-> <<>>]
  <2>1. Handle(m, fd, o) /\ pending_replies' = pending_replies
    BY <1>13 DEF HandleFailure
  <2>2. o.client.peer = p /\ o.client.state = "kFailed" /\ o.client.write_pending = a
            /\ o.sent = <<>>
    BY <1>2, <1>3, FailedKin DEF Kin, a
  <2>3. <<>> \o a = a
    BY <1>3, ConcatEmptySeq
  <2>4. Exact(Stream(p) \o <<>>, Tail(reading), inbox[p], Later(p)', sent[p])
    BY <1>8, <1>9, <1>11, <2>1
  <2> HIDE DEF o
  <2> QED BY <1>2, <1>3, <1>11, <2>1, <2>2, <2>3, <2>4, HandleReplies DEF a
<1>14. CASE IsPing(m, fd)
  <2> DEFINE c == Pinged(fd)
             x == m.sequence
  <2>1. c \in Client /\ c.peer = p /\ c.state = "kHealthy" /\ c.write_pending = a
            /\ client.state = "kHealthy"
    <3>1. batch_now \in 0 .. MaxTime
      BY DEF SimInv, Typed, TypeClock
    <3> QED BY <1>2, <1>3, <1>14, <3>1 DEF Pinged, Client, IsPing, a
  <2>2. Head(reading) = Ping(x) /\ x \in 0 .. MaxPings /\ Stream(p) # <<>>
    BY <1>4, <1>5, <1>10, <1>14, <2>1 DEF IsPing
  <2>3. <<>> \o a = a
    BY <1>3, ConcatEmptySeq
  <2> HIDE DEF c, x
  <2>4. CASE HandlePingDropped(m, fd)
    <3> DEFINE o == [client |-> c, sent |-> <<>>]
    <3>1. Handle(m, fd, o) /\ pending_replies' = pending_replies
      BY <2>4 DEF HandlePingDropped, c
    <3>2. o.client = c /\ o.sent = <<>>
      OBVIOUS
    <3>3. Exact(Stream(p) \o <<>>, Tail(reading), inbox[p], Later(p)', sent[p])
      BY <1>8, <1>9, <1>11, <3>1
    <3> HIDE DEF o
    <3> QED BY <1>2, <1>3, <1>11, <2>1, <2>3, <3>1, <3>2, <3>3, HandleReplies DEF a
  <2>5. CASE HandlePingAnswered(m, fd)
    <3> DEFINE w == <<Pong(x)>>
    <3>1. PICK o \in PongOutcomes(c, x) : Handle(m, fd, o)
      BY <2>5 DEF HandlePingAnswered, c, x
    <3>2. Outcome(o, c, Append(a, Pong(x)))
      BY <2>1, <2>2, PongSteps DEF Pong
    <3>3. /\ o.client.peer = p /\ o.sent \in Seq(Message)
          /\ o.client.state \in {"kHealthy", "kFailed"}
          /\ o.sent \o o.client.write_pending = Append(a, Pong(x))
      BY <2>1, <3>2 DEF Outcome, Kin
    <3>4. pending_replies' = pending_replies
      BY <2>5 DEF HandlePingAnswered
    <3>5. w \in Seq(Message) /\ Append(a, Pong(x)) = a \o w /\ Append(Stream(p),
              Pong(x)) = Stream(p) \o w
      BY <1>3, <1>8, <2>2, Numbering, ReplyAdded
    <3>6. Exact(Append(Stream(p), Pong(x)), Tail(reading), inbox[p], Later(p), sent[p])
      BY <1>3, <1>4, <1>7, <1>8, <2>2, ExactAnswer
    <3>7. Exact(Stream(p) \o w, Tail(reading), inbox[p], Later(p)', sent[p])
      BY <1>11, <3>4, <3>5, <3>6
    <3> HIDE DEF w
    <3> QED BY <1>2, <1>11, <2>1, <3>1, <3>3, <3>4, <3>5, <3>7, HandleReplies DEF a
  <2>6. CASE HandlePingDeferred(m, fd)
    <3> DEFINE o == [client |-> c, sent |-> <<>>]
    <3>1. PICK d \in Delays : pending_replies' = Append(pending_replies,
            [fire_at |-> now + d, fd |-> fd, sequence |-> x, asker |-> p])
      BY <1>2, <2>6 DEF HandlePingDeferred, x
    <3> DEFINE reply == [fire_at |-> now + d, fd |-> fd, sequence |-> x, asker |-> p]
    <3>2. Handle(m, fd, o) /\ o.client = c /\ o.sent = <<>>
      BY <2>6 DEF HandlePingDeferred, c
    <3>3. reply \in PendingReply /\ reply.sequence = x /\ reply.asker = p
      <4>1. now + d \in Nat
        BY SimulatorAssumption, Numbers DEF SimInv, Typed, TypeClock
      <4>2. fd \in Fds
        BY DEF SimInv, Typed, TypeClients
      <4> QED BY <2>2, <4>1, <4>2 DEF PendingReply
    <3> HIDE DEF o, reply
    <3>4. x \notin Later(p) /\ Exact(Stream(p), Tail(reading), inbox[p], Later(p) \cup {x}, sent[p])
      BY <1>3, <1>4, <1>7, <2>2, ExactDefer
    <3>5. pending_replies' = Append(pending_replies, reply)
      BY <3>1 DEF reply
    <3>6. /\ DeferredOnce' /\ Later(p)' = Later(p) \cup {x}
          /\ \A s \in Sessions : s # p => Later(s)' = Later(s)
      BY <1>3, <3>3, <3>4, <3>5, DeferLater DEF RepliesInv
    <3>7. Exact(Stream(p) \o <<>>, Tail(reading), inbox[p], Later(p)', sent[p])
      BY <1>8, <3>4, <3>6
    <3> QED BY <1>2, <1>3, <2>1, <2>3, <3>2, <3>6, <3>7, HandleReplies DEF a
  <2>7. HandlePingDropped(m, fd) \/ HandlePingDeferred(m, fd) \/ HandlePingAnswered(m, fd)
          \/ HandleConnectHello(m, fd) \/ HandleFailure(m, fd)
    BY <1>1
  <2> QED BY <1>12, <1>13, <2>4, <2>5, <2>6, <2>7
<1> QED BY <1>1, <1>12, <1>13, <1>14 DEF HandlePingDropped, HandlePingDeferred, HandlePingAnswered


\* The reply at the front is taken off, or goes to the back.
LEMMA FrontLater ==
  ASSUME SimInv, NextReply, DeferredOnce, NEW h, h = Head(pending_replies),
         NEW p \in Sessions, h.asker = p
  PROVE  /\ h.sequence \in Later(p)
         /\ pending_replies' = Tail(pending_replies) =>
              /\ DeferredOnce' /\ Later(p)' = Later(p) \ {h.sequence}
              /\ \A s \in Sessions : s # p => Later(s)' = Later(s)
         /\ pending_replies' = Append(Tail(pending_replies), h) =>
              DeferredOnce' /\ \A s \in Sessions : Later(s)' = Later(s)
<1> DEFINE q == pending_replies
           t == Tail(q)
           n == Len(q)
<1>1. /\ h \in PendingReply /\ t \in Seq(PendingReply) /\ Len(t) = n - 1 /\ n \in Nat
      /\ \A i \in 1 .. n - 1 : t[i] = q[i + 1]
      /\ todo - 1 \in 0 .. n - 1
  BY FrontReply
<1>2. q \in Seq(PendingReply) /\ todo \in 0 .. n
  BY DEF SimInv, Typed, TypeReplies
<1>3. n # 0
  <2> HIDE DEF n
  <2> QED BY <1>1, <1>2
<1>4. q # <<>>
  BY <1>3, EmptySeq
<1>5. h = q[1]
  BY <1>2, <1>4, HeadTailProperties
<1>6. h.sequence \in 0 .. MaxPings
  BY <1>1 DEF PendingReply
<1> DEFINE r == Append(t, h)
<1>7. Len(r) = n /\ r[n] = h /\ \A i \in 1 .. n - 1 : r[i] = t[i]
  <2> HIDE DEF t, n
  <2>1. Len(r) = Len(t) + 1 /\ r[Len(t) + 1] = h /\ \A i \in 1 .. Len(t) : r[i] = t[i]
    BY <1>1, AppendProperties
  <2>2. n - 1 + 1 = n
    BY <1>1
  <2> QED BY <1>1, <2>1, <2>2
<1> HIDE DEF t, r, n
<1>8. /\ 1 \in 1 .. n /\ n \in 1 .. n
      /\ \A i \in 1 .. n - 1 : i + 1 \in 1 .. n /\ i + 1 # 1 /\ i \in 1 .. n /\ i # n
      /\ \A i \in 1 .. n : i = 1 \/ (i - 1 \in 1 .. n - 1 /\ i - 1 + 1 = i)
      /\ \A i \in 1 .. n : i = n \/ i \in 1 .. n - 1
      /\ \A i, j \in 1 .. n - 1 : i + 1 = j + 1 => i = j
  BY <1>1, <1>3
<1>9. \A i, j \in 1 .. n : q[i].asker = q[j].asker /\ q[i].sequence = q[j].sequence => i = j
  BY DEF DeferredOnce, n
<1>10. ASSUME NEW s \in Sessions, NEW x
       PROVE  x \in Later(s) <=> x \in 0 .. MaxPings /\ \E i \in 1 .. n : q[i].asker = s
                 /\ q[i].sequence = x
  BY DEF Later, n
<1>11. h.sequence \in Later(p)
  BY <1>5, <1>6, <1>8, <1>10
<1>12. ASSUME pending_replies' = t
       PROVE  /\ DeferredOnce' /\ Later(p)' = Later(p) \ {h.sequence}
              /\ \A s \in Sessions : s # p => Later(s)' = Later(s)
  <2>1. ASSUME NEW s \in Sessions, NEW x
        PROVE  x \in Later(s)' <=>
                 x \in 0 .. MaxPings /\ \E i \in 1 .. n - 1 : q[i + 1].asker = s
                           /\ q[i + 1].sequence = x
    BY <1>1, <1>12 DEF Later
  <2>2. ASSUME NEW s \in Sessions, NEW x
        PROVE  x \in Later(s)' <=> x \in Later(s) /\ ~(s = p /\ x = h.sequence)
    <3>1. ASSUME x \in Later(s)' PROVE x \in Later(s) /\ ~(s = p /\ x = h.sequence)
      <4>1. PICK i \in 1 .. n - 1 : q[i + 1].asker = s /\ q[i + 1].sequence = x
        BY <2>1, <3>1
      <4>2. i + 1 \in 1 .. n /\ i + 1 # 1
        BY <1>8
      <4>3. x \in Later(s)
        BY <1>10, <2>1, <3>1, <4>1, <4>2
      <4>4. ~(s = p /\ x = h.sequence)
        BY <1>5, <1>8, <1>9, <4>1, <4>2
      <4> QED BY <4>3, <4>4
    <3>2. ASSUME x \in Later(s), ~(s = p /\ x = h.sequence) PROVE x \in Later(s)'
      <4>1. PICK i \in 1 .. n : q[i].asker = s /\ q[i].sequence = x
        BY <1>10, <3>2
      <4>2. i # 1
        BY <1>5, <3>2, <4>1
      <4>3. i - 1 \in 1 .. n - 1 /\ i - 1 + 1 = i
        BY <1>8, <4>2
      <4> QED BY <1>10, <2>1, <3>2, <4>1, <4>3
    <3> QED BY <3>1, <3>2
  <2>3. \A i, j \in 1 .. n - 1 : t[i].asker = t[j].asker /\ t[i].sequence = t[j].sequence => i = j
    <3> SUFFICES ASSUME NEW i \in 1 .. n - 1, NEW j \in 1 .. n - 1,
                        t[i].asker = t[j].asker, t[i].sequence = t[j].sequence
                 PROVE  i = j
      OBVIOUS
    <3>1. q[i + 1].asker = q[j + 1].asker /\ q[i + 1].sequence = q[j + 1].sequence
      BY <1>1
    <3>2. i + 1 = j + 1
      BY <1>8, <1>9, <3>1
    <3> QED BY <1>8, <3>2
  <2>4. DeferredOnce'
    BY <1>1, <1>12, <2>3 DEF DeferredOnce
  <2>5. Later(p)' = Later(p) \ {h.sequence}
    BY <2>2
  <2>6. ASSUME NEW s \in Sessions, s # p PROVE Later(s)' = Later(s)
    BY <2>2, <2>6
  <2> QED BY <2>4, <2>5, <2>6
<1>13. ASSUME pending_replies' = r
       PROVE  DeferredOnce' /\ \A s \in Sessions : Later(s)' = Later(s)
  <2>1. \A i \in 1 .. n - 1 : r[i] = q[i + 1]
    BY <1>1, <1>7
  <2>2. r[n] = q[1]
    BY <1>5, <1>7
  <2>3. ASSUME NEW s \in Sessions, NEW x
        PROVE  x \in Later(s)' <=>
                 x \in 0 .. MaxPings /\ \E i \in 1 .. n : r[i].asker = s /\ r[i].sequence = x
    BY <1>7, <1>13 DEF Later
  <2>4. (\A i \in 1 .. n : \E j \in 1 .. n : r[i] = q[j])
            /\ (\A j \in 1 .. n : \E i \in 1 .. n : r[i] = q[j])
    BY <1>8, <2>1, <2>2
  <2>5. ASSUME NEW s \in Sessions PROVE Later(s)' = Later(s)
    <3>1. \A x : x \in Later(s)' <=> x \in Later(s)
      BY <1>10, <2>3, <2>4
    <3> QED BY <3>1
  <2>6. \A i, j \in 1 .. n : r[i].asker = r[j].asker /\ r[i].sequence = r[j].sequence => i = j
    BY <1>8, <1>9, <2>1, <2>2
  <2>7. DeferredOnce'
    BY <1>7, <1>13, <2>6 DEF DeferredOnce
  <2> QED BY <2>5, <2>7
<1> QED BY <1>11, <1>12, <1>13 DEF t, r

\* A reply that is not due goes to the back.
LEMMA NotDueReplies == ASSUME SimInv, RepliesInv, ReplyNotDue PROVE RepliesInv'
<1> DEFINE h == Head(pending_replies)
<1>1. /\ NextReply /\ pending_replies' = Append(Tail(pending_replies), h)
      /\ UNCHANGED <<clients, received, current, reading, inbox, sent, link, backlog>>
  BY DEF ReplyNotDue, NextReply
<1>2. h.asker \in Sessions
  BY <1>1, FrontReply DEF PendingReply
<1>3. DeferredOnce' /\ \A s \in Sessions : Later(s)' = Later(s)
  BY <1>1, <1>2, FrontLater DEF RepliesInv
<1>4. ASSUME NEW s \in Sessions PROVE SessionExact(s)'
  <2>1. Exact(Stream(s), ReadingOf(s), inbox[s], Later(s), sent[s])
    BY DEF RepliesInv, SessionExact
  <2> QED BY <1>1, <1>3, <2>1, SameStream, SameReading, SessionNext
<1> QED BY <1>1, <1>3, <1>4, SameAck, SameFresh DEF RepliesInv

\* A deferred reply is dropped.
LEMMA LessLater ==
  ASSUME NEW out, NEW taken, NEW queued, NEW later, NEW n, Exact(out, taken, queued, later, n),
            NEW x
  PROVE  Exact(out, taken, queued, later \ {x}, n)
  BY DEF Exact

\* A reply that is due is sent to whoever asked.
LEMMA DueReplies == ASSUME SimInv, SimInv', RepliesInv, ReplyDue PROVE RepliesInv'
<1>1. PICK h : h = Head(pending_replies)
  OBVIOUS
<1> DEFINE fd == h.fd
           client == clients[fd]
           a == client.write_pending
           x == h.sequence
<1>2. /\ NextReply /\ pc = "replies" /\ pending_replies' = Tail(pending_replies)
      /\ UNCHANGED <<current, reading, inbox, sent, link, backlog>>
  BY DEF ReplyDue, NextReply
<1>3. h \in PendingReply /\ fd \in DOMAIN clients /\ client.peer = h.asker
  BY <1>1, <1>2, FrontReply
<1>4. x \in 0 .. MaxPings /\ client \in Client /\ a \in Seq(Message)
  BY <1>3, ClientFields DEF PendingReply, SimInv, Typed, TypeClients
<1>5. PICK p \in Sessions : p = h.asker
  BY <1>3 DEF PendingReply
<1>6. PICK o \in PongOutcomes(client, x) :
        clients' = [clients EXCEPT ![fd] = Synced(o.client)] /\ Deliver(client.peer, o.sent)
  BY <1>1, <1>3 DEF ReplyDue, AfterReply
<1>7. /\ x \in Later(p) /\ DeferredOnce' /\ Later(p)' = Later(p) \ {x}
      /\ \A s \in Sessions : s # p => Later(s)' = Later(s)
  BY <1>1, <1>2, <1>5, FrontLater DEF RepliesInv
<1>8. current = {} /\ \A s \in Sessions : ReadingOf(s) = <<>> /\ ReadingOf(s)' = <<>>
  <2>1. current = {}
    BY <1>2 DEF SimInv, ReactorInv
  <2> QED BY <1>2, <2>1 DEF ReadingOf
<1>9. Stream(p) \in Seq(Message)
  BY StreamOf DEF StreamInv
<1>10. Exact(Stream(p), <<>>, inbox[p], Later(p), sent[p])
  <2>1. SessionExact(p)
    BY DEF RepliesInv
  <2> QED BY <1>8, <2>1 DEF SessionExact
<1>11. client.state = "kHealthy" => Stream(p) # <<>>
  BY <1>3, <1>5 DEF RepliesInv, AckInv
<1>12. ASSUME NEW w \in Seq(Message), o.client \in Client, o.client.peer = p,
          o.sent \in Seq(Message),
              o.sent \o o.client.write_pending = a \o w,
              \/ o.client.state = "kFailed"
              \/ o.client.state = client.state /\ (w = <<>> \/ client.state = "kHealthy"),
              Exact(Stream(p) \o w, <<>>, inbox[p], Later(p) \ {x}, sent[p])
       PROVE  RepliesInv'
  <2> DEFINE c == Synced(o.client)
  <2>1. c.peer = p /\ c.write_pending = o.client.write_pending /\ c.state = o.client.state
    BY <1>12, SyncedSteps
  <2>2. clients' = [clients EXCEPT ![fd] = c]
    BY <1>6
  <2> HIDE DEF c, fd
  <2>3. DOMAIN clients' = DOMAIN clients /\ clients'[fd] = c
          /\ \A f \in DOMAIN clients : f # fd => clients'[f] = clients[f]
    BY <1>3, <2>2
  <2>4. Touches(fd, o.sent, w) /\ Agrees(fd, w)
    BY <1>2, <1>3, <1>5, <1>6, <1>12, <2>1, <2>3 DEF Touches, Agrees
  <2>5. AckInv' /\ FreshInv'
          /\ \A s \in Sessions : Stream(s)' = IF s = p THEN Stream(s) \o w ELSE Stream(s)
    BY <1>3, <1>5, <1>12, <2>4, TouchReplies
  <2>6. ASSUME NEW s \in Sessions PROVE SessionExact(s)'
    <3>1. CASE s # p
      <4>1. Exact(Stream(s), ReadingOf(s), inbox[s], Later(s), sent[s])
        BY DEF RepliesInv, SessionExact
      <4>2. Stream(s)' = Stream(s) /\ ReadingOf(s)' = ReadingOf(s) /\ Later(s)' = Later(s)
        BY <1>7, <1>8, <2>5, <3>1
      <4> QED BY <1>2, <4>1, <4>2, SessionNext
    <3>2. CASE s = p
      <4>1. Exact(Stream(s) \o w, <<>>, inbox[s], Later(s) \ {x}, sent[s])
        BY <1>12, <3>2
      <4>2. Stream(s)' = Stream(s) \o w /\ ReadingOf(s)' = <<>> /\ Later(s)' = Later(s) \ {x}
        BY <1>7, <1>8, <2>5, <3>2
      <4> QED BY <1>2, <4>1, <4>2, SessionNext
    <3> QED BY <3>1, <3>2
  <2> QED BY <1>7, <2>5, <2>6 DEF RepliesInv
<1>13. CASE client.state = "kHealthy"
  <2> DEFINE w == <<Pong(x)>>
  <2>1. Outcome(o, client, Append(a, Pong(x)))
    BY <1>4, <1>6, <1>13, PongSteps DEF Pong
  <2>2. /\ o.client \in Client /\ o.client.peer = p /\ o.sent \in Seq(Message)
        /\ o.client.state \in {"kHealthy", "kFailed"}
        /\ o.sent \o o.client.write_pending = Append(a, Pong(x))
    BY <1>3, <1>5, <1>13, <2>1 DEF Outcome, Kin
  <2>3. w \in Seq(Message) /\ Append(a, Pong(x)) = a \o w /\ Append(Stream(p),
            Pong(x)) = Stream(p) \o w
    BY <1>4, <1>9, Numbering, ReplyAdded
  <2>4. Exact(Append(Stream(p), Pong(x)), <<>>, inbox[p], Later(p) \ {x}, sent[p])
    BY <1>4, <1>7, <1>9, <1>10, <1>11, <1>13, ExactReply
  <2> HIDE DEF w
  <2> QED BY <1>12, <1>13, <2>2, <2>3, <2>4
<1>14. CASE client.state # "kHealthy"
  <2>1. o.client = client /\ o.sent = <<>>
    BY <1>4, <1>6, <1>14, PongSteps
  <2>2. <<>> \in Seq(Message) /\ <<>> \o a = a \o <<>> /\ Stream(p) \o <<>> = Stream(p)
    BY <1>4, <1>9, EmptySeq, ConcatEmptySeq
  <2>3. Exact(Stream(p) \o <<>>, <<>>, inbox[p], Later(p) \ {x}, sent[p])
    BY <1>10, <2>2, LessLater
  <2> QED BY <1>3, <1>4, <1>5, <1>12, <2>1, <2>2, <2>3
<1> QED BY <1>13, <1>14

\* At the start nothing was asked.
LEMMA InitReplies == Init => RepliesInv
<1> SUFFICES ASSUME Init PROVE RepliesInv
  OBVIOUS
<1>1. /\ clients = <<>> /\ pending_replies = <<>> /\ current = {}
      /\ \A s \in Sessions : inbox[s] = <<>> /\ received[s] = <<>> /\ sent[s] = 0
  BY DEF Init
<1>2. DOMAIN clients = {}
  BY <1>1
<1>3. StreamInv
  BY InitSim, StreamOf
<1>4. Len(pending_replies) = 0
  BY <1>1
<1>5. ASSUME NEW s \in Sessions PROVE SessionExact(s)
  <2>1. Stream(s) = <<>>
    BY <1>1, <1>2, <1>3 DEF StreamInv
  <2>2. ReadingOf(s) = <<>> /\ Later(s) = {}
    BY <1>1, <1>4 DEF ReadingOf, Later
  <2>3. Exact(<<>>, <<>>, <<>>, {}, 0)
    BY EmptyHas DEF Exact
  <2> QED BY <1>1, <2>1, <2>2, <2>3 DEF SessionExact
<1>6. DeferredOnce /\ AckInv /\ FreshInv
  BY <1>1, <1>2, <1>4 DEF DeferredOnce, AckInv, FreshInv
<1> QED BY <1>5, <1>6 DEF RepliesInv

\* Each session is answered exactly: the CONNECT_ACK first, then a PONG at most
\* for each PING it sent, whatever is deferred, reordered by the delays, dropped,
\* cut short by the socket or purged with a client.
THEOREM RepliesCorrect == Spec => []RepliesExact
<1>1. SimInv /\ SimInv' /\ RepliesInv /\ [Next]_vars => RepliesInv'
  <2> SUFFICES ASSUME SimInv, SimInv', RepliesInv, [Next]_vars PROVE RepliesInv'
    OBVIOUS
  <2>1. CASE Environment
    <3>1. CASE Advance
      BY <3>1, QuietReplies DEF Advance, reactor, peers
    <3> QED BY <2>1, <3>1, ConnectReplies, SendReplies, CloseReplies DEF Environment
  <2>2. CASE Reactor
    <3>1. CASE \/ EpollWait \/ AcceptStart \/ AcceptEnd \/ CommandStart \/ SetFaultConfig
               \/ CommandEnd
               \/ \E e \in events : SkipEvent(e)
      <4>1. UNCHANGED <<clients, received, current, reading, pending_replies, inbox, sent,
                link, backlog>>
        BY <3>1 DEF EpollWait, AcceptStart, AcceptEnd, CommandStart, SetFaultConfig, CommandEnd,
                    SkipEvent, reactor, peers
      <4> QED BY <4>1, QuietReplies
    <3> QED BY <2>2, <3>1, AcceptReplies, AbortedReplies, RemovalReplies, ReadableReplies,
         MessageReplies, DrainReplies, FinishReplies, NotDueReplies, DueReplies DEF Reactor
  <2>3. CASE UNCHANGED vars
    BY <2>3, QuietReplies DEF vars, reactor, peers
  <2> QED BY <2>1, <2>2, <2>3 DEF Next
<1>2. SimInv /\ RepliesInv => RepliesExact
  <2> SUFFICES ASSUME SimInv, RepliesInv, NEW s \in Sessions, NEW i \in DOMAIN Stream(s)
               PROVE  /\ Stream(s)[i].type = IF i = 1 THEN "kConnectAck" ELSE "kPong"
                      /\ Stream(s)[i].sequence < sent[s]
                      /\ \A j \in DOMAIN Stream(s) : Stream(s)[i] = Stream(s)[j] => i = j
    BY DEF RepliesExact
  <2> DEFINE q == Stream(s)
             n == sent[s]
  <2>1. q \in Seq(Message)
    BY StreamOf DEF StreamInv
  <2>2. Exact(q, ReadingOf(s), inbox[s], Later(s), n)
    BY DEF RepliesInv, SessionExact
  <2> HIDE DEF q, n
  <2>3. DOMAIN q = 1 .. Len(q) /\ i \in 1 .. Len(q) /\ q[i] \in Message
    <3>1. DOMAIN q = 1 .. Len(q)
      BY <2>1, LenProperties
    <3>2. i \in 1 .. Len(q)
      BY <3>1 DEF q
    <3> QED BY <2>1, <3>1, <3>2, ElementOfSeq
  <2>4. \A j \in DOMAIN q : q[i] = q[j] => i = j
    BY <2>2, <2>3 DEF Exact, Shape
  <2>5. q[i] = IF i = 1 THEN Msg("kConnectAck", 0) ELSE Pong(q[i].sequence)
    BY <2>2, <2>3, Zenon DEF Exact, Shape
  <2>6. q[i].sequence \in 0 .. MaxPings
    BY <2>3 DEF Message
  <2>7. q[i].type = IF i = 1 THEN "kConnectAck" ELSE "kPong"
    BY <2>5, <2>6 DEF Msg, Pong
  <2>8. q[i].sequence < n
    <3>1. CASE i = 1
      <4>1. q # <<>>
        BY <2>3
      <4>2. 0 < n
        BY <2>2, <4>1 DEF Exact
      <4> QED BY <2>5, <3>1, <4>2 DEF Msg
    <3>2. CASE i # 1
      <4>1. Has(q, Pong(q[i].sequence))
        BY <2>3, <2>5, <3>2 DEF Has
      <4> QED BY <2>2, <2>6, <4>1 DEF Exact
    <3> QED BY <3>1, <3>2
  <2> QED BY <2>4, <2>7, <2>8 DEF q, n
<1> QED BY InitReplies, <1>1, <1>2, SimulatorCorrect, PTL DEF Spec
=============================================================================
