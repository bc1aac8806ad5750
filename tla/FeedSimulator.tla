---------------------------- MODULE FeedSimulator ----------------------------
(***************************************************************************)
(* The mock exchange: FeedSimulator's reactor, its clients, the PONGs it   *)
(* defers, and for each client the responder side of Connection            *)
(* (Role::kResponder).  The clients' own behaviour, their sockets and the  *)
(* clock are the environment.                                              *)
(*                                                                         *)
(* A session is one TCP connection, made once.  accept4() returns the      *)
(* lowest free descriptor, so the number of a removed client comes back,   *)
(* also within one batch of events.  The listening socket is modelled      *)
(* edge-triggered, the default; a client's readiness may be reported at    *)
(* any wait.  Data is counted in messages, as in module Connection.        *)
(***************************************************************************)
EXTENDS Integers, Sequences, Functions, FiniteSets

CONSTANTS
  Sessions,         \* connections that clients may make
  Fds,              \* descriptors accept4() may return: 1 .. n
  HeartbeatTimeout, \* config heartbeat_timeout
  Delays,           \* delays extra_latency and jitter give; {} = no extra latency
  MaxWritePending,  \* kMaxWritePendingBytes, in messages
  MaxReadAccum,     \* kMaxReadAccumBytes, in messages
  Commands,         \* operator commands a run exercises
  Faults,           \* faults of clients, sockets and system calls a run exercises
  TickGap,          \* two timer ticks are handled at most this far apart
  MaxTime,          \* bound: the clock's horizon
  MaxPings          \* bound: PINGs one session sends

ASSUME SimulatorAssumption ==
  /\ Fds \subseteq Nat
  /\ TickGap \in Nat \ {0} /\ HeartbeatTimeout \in Nat /\ TickGap < HeartbeatTimeout
  /\ Delays \subseteq Nat
  /\ MaxWritePending \in Nat \ {0} /\ MaxReadAccum \in Nat \ {0}
  /\ MaxTime \in Nat /\ MaxPings \in Nat

\* "fatal" is any message that fails the responder in every state: kDisconnect, a
\* CONNECT_HELLO for another feed, a CONNECT_ACK, a PONG, bytes that do not decode.
Message == [type : {"kConnectHello", "kConnectAck", "kPing", "kPong", "fatal"},
            sequence : 0 .. MaxPings]

Msg(type, sequence) == [type |-> type, sequence |-> sequence]

Client == [peer : Sessions, state : {"kHandshaking", "kHealthy", "kFailed"},
           state_entered : 0 .. MaxTime, last_liveness : 0 .. MaxTime,
           write_pending : Seq(Message),
           epollout : BOOLEAN]       \* what EPOLL_CTL_MOD last asked for

PendingReply == [fire_at : Nat, fd : Fds, sequence : 0 .. MaxPings, asker : Sessions]

Event == [fd : Fds, hup : BOOLEAN, in : BOOLEAN, out : BOOLEAN]

VARIABLES
  now,              \* CLOCK_BOOTTIME
  batch_now,        \* now_ns of the current batch
  tick_now,         \* now_ns of the last on_timer_tick
  pc,               \* "loop", or the handler the reactor is inside
  batch,            \* "timer", "listen", "command", if still to be dispatched
  events,           \* client events still to be dispatched
  current,          \* the client event being handled, as a set of at most one
  reading,          \* what recv returned to on_readable and is not handled yet
  recv_end,         \* how that recv loop ended: "open" is EAGAIN
  todo,             \* replies on_timer_tick has still to look at
  clients,          \* clients_
  pending_replies,  \* pending_replies_
  dropping,         \* faults_.drop_probability > 0
  listen_edge,      \* epoll owes a report of the listening socket
  backlog,          \* sessions waiting in the listening socket
  link, inbox,      \* each session's socket and receive queue
  sent, received    \* messages each client sent, replies it got

reactor == <<pc, batch, events, current, reading, recv_end, todo>>
clock == <<now, batch_now, tick_now>>
peers == <<link, inbox, sent, received>>
vars == <<clock, reactor, clients, pending_replies, dropping, listen_edge, backlog, peers>>

-----------------------------------------------------------------------------
(* Helpers                                                                 *)

FreeFds == Fds \ DOMAIN clients
LowestFree == CHOOSE f \in FreeFds : \A g \in FreeFds : f <= g

\* The Connection of a descriptor just accepted.
NewClient(session) ==
  [peer |-> session, state |-> "kHandshaking", state_entered |-> now, last_liveness |-> 0,
   write_pending |-> <<>>, epollout |-> FALSE]

Put(fd, client) ==
  [f \in DOMAIN clients \cup {fd} |-> IF f = fd THEN client ELSE clients[f]]

\* Definitions named Bug... are wrong on purpose, each a slip one could make in
\* the definition that follows it; nothing uses them but the sensitivity runs.

BugRepliesKept(fds) == pending_replies

\* remove_client's purge of the deferred replies.
PurgedReplies(fds) ==
  LET kept[n \in 0 .. Len(pending_replies)] ==
        IF n = 0 THEN <<>>
        ELSE IF pending_replies[n].fd \in fds THEN kept[n - 1]
        ELSE Append(kept[n - 1], pending_replies[n])
  IN kept[Len(pending_replies)]

\* remove_client for each of fds: out of epoll, replies purged, socket closed.
RemoveClients(fds) ==
  /\ pending_replies' = PurgedReplies(fds)
  /\ clients' = Restrict(clients, DOMAIN clients \ fds)
  /\ LET gone == {clients[f].peer : f \in fds} IN
       /\ link' = [s \in Sessions |-> IF s \in gone THEN "gone" ELSE link[s]]
       /\ inbox' = [s \in Sessions |-> IF s \in gone THEN <<>> ELSE inbox[s]]

\* sync_epoll_interest: EPOLLOUT is armed iff wants_write().
Synced(client) == [client EXCEPT !.epollout = client.write_pending # <<>>]

\* transition_to(kFailed); state_entered is not read in that state.
Failed(client) == [client EXCEPT !.state = "kFailed"]

BugResendsAfterShortWrite(client) ==
  {[client |-> IF n = Len(client.write_pending) THEN [client EXCEPT !.write_pending = <<>>] ELSE client,
    sent |-> SubSeq(client.write_pending, 1, n)] : n \in 0 .. Len(client.write_pending)}

\* flush_write_buffer: the kernel takes a prefix of what is pending, or the
\* send fails because the peer is gone.
FlushOutcomes(client) ==
  LET pending == client.write_pending IN
  IF pending = <<>> THEN {[client |-> client, sent |-> <<>>]}
  ELSE (IF link[client.peer] = "open" THEN {} ELSE {[client |-> Failed(client), sent |-> <<>>]})
       \cup (IF link[client.peer] = "reset" THEN {}
             ELSE {[client |-> [client EXCEPT !.write_pending = SubSeq(pending, n + 1, Len(pending))],
                    sent |-> SubSeq(pending, 1, n)] :
                     n \in {k \in 0 .. Len(pending) : "short_write" \in Faults \/ k = Len(pending)}})

\* queue_write: append; fail over the cap; flush only when nothing was pending.
QueueOutcomes(client, msg) ==
  LET queued == [client EXCEPT !.write_pending = Append(@, msg)] IN
  IF Len(queued.write_pending) > MaxWritePending
  THEN {[client |-> Failed(queued), sent |-> <<>>]}
  ELSE IF client.write_pending = <<>>
       THEN FlushOutcomes(queued)
       ELSE {[client |-> queued, sent |-> <<>>]}

\* send_pong: only a healthy responder replies.
PongOutcomes(client, sequence) ==
  IF client.state = "kHealthy"
  THEN QueueOutcomes(client, Msg("kPong", sequence))
  ELSE {[client |-> client, sent |-> <<>>]}

Deliver(session, msgs) == received' = [received EXCEPT ![session] = @ \o msgs]

-----------------------------------------------------------------------------
Init ==
  /\ now = 0 /\ batch_now = 0 /\ tick_now = 0
  /\ pc = "loop" /\ batch = {} /\ events = {} /\ current = {}
  /\ reading = <<>> /\ recv_end = "open" /\ todo = 0
  /\ clients = <<>> /\ pending_replies = <<>> /\ dropping = ("drop" \in Faults)
  /\ listen_edge = FALSE /\ backlog = <<>>
  /\ link = [s \in Sessions |-> "idle"]
  /\ inbox = [s \in Sessions |-> <<>>]
  /\ sent = [s \in Sessions |-> 0]
  /\ received = [s \in Sessions |-> <<>>]

-----------------------------------------------------------------------------
(* The environment                                                         *)

\* Time passes, but never past the moment the next tick is handled.
Advance ==
  /\ now < MaxTime
  /\ now - tick_now < TickGap
  /\ now' = now + 1
  /\ UNCHANGED <<batch_now, tick_now, reactor, clients, pending_replies, dropping,
                 listen_edge, backlog, peers>>

\* A client connects: the kernel completes the handshake and queues it.
PeerConnect(s) ==
  /\ link[s] = "idle"
  /\ link' = [link EXCEPT ![s] = "open"]
  /\ backlog' = Append(backlog, s)
  /\ listen_edge' = TRUE
  /\ UNCHANGED <<clock, reactor, clients, pending_replies, dropping, inbox, sent, received>>

PeerSend(s, m) ==
  /\ link[s] = "open"
  /\ inbox' = [inbox EXCEPT ![s] = Append(@, m)]
  /\ UNCHANGED <<clock, reactor, clients, pending_replies, dropping, listen_edge, backlog,
                 link, received>>

\* The CONNECT_HELLO is the first thing a client sends, once.
PeerHello(s) ==
  /\ sent[s] = 0
  /\ PeerSend(s, Msg("kConnectHello", 0))
  /\ sent' = [sent EXCEPT ![s] = 1]

\* PINGs are numbered from 1 here and follow the CONNECT_ACK.
PeerPing(s) ==
  /\ sent[s] \in 1 .. MaxPings
  /\ received[s] # <<>>
  /\ PeerSend(s, Msg("kPing", sent[s]))
  /\ sent' = [sent EXCEPT ![s] = @ + 1]

\* A client closes, at once or after a kDisconnect or a breach of the protocol
\* (nothing it would send after that is handled).
PeerClose(s) ==
  /\ "close" \in Faults /\ link[s] = "open"
  /\ link' = [link EXCEPT ![s] = "eof"]
  /\ \E bye \in {<<>>, <<Msg("fatal", 0)>>} : inbox' = [inbox EXCEPT ![s] = @ \o bye]
  /\ UNCHANGED <<clock, reactor, clients, pending_replies, dropping, listen_edge, backlog,
                 sent, received>>

PeerReset(s) ==
  /\ "reset" \in Faults /\ link[s] \in {"open", "eof"}
  /\ link' = [link EXCEPT ![s] = "reset"]
  /\ inbox' = [inbox EXCEPT ![s] = <<>>]
  /\ UNCHANGED <<clock, reactor, clients, pending_replies, dropping, listen_edge, backlog,
                 sent, received>>

-----------------------------------------------------------------------------
(* FeedSimulator::run                                                      *)

\* What epoll can report of a client.
Ready(fd) ==
  LET s == clients[fd].peer IN
  [fd |-> fd, hup |-> link[s] = "reset",
   in |-> inbox[s] # <<>> \/ link[s] = "eof", out |-> clients[fd].epollout]

\* epoll_wait returns some of what is ready, and now_ns is read.
EpollWait ==
  /\ pc = "loop" /\ batch = {} /\ events = {}
  /\ batch' \in SUBSET ({"timer"} \cup (IF listen_edge THEN {"listen"} ELSE {})
                                  \cup (IF Commands = {} THEN {} ELSE {"command"}))
  /\ listen_edge' = (listen_edge /\ "listen" \notin batch')
  /\ \E fds \in SUBSET {f \in DOMAIN clients : Ready(f).hup \/ Ready(f).in \/ Ready(f).out} :
       events' = {Ready(f) : f \in fds}
  /\ batch' # {} \/ events' # {}
  /\ batch_now' = now
  /\ UNCHANGED <<now, tick_now, pc, current, reading, recv_end, todo, clients,
                 pending_replies, dropping, backlog, peers>>

-----------------------------------------------------------------------------
(* accept_new_connections, one accept4() per step                          *)

AcceptStart ==
  /\ pc = "loop" /\ "listen" \in batch
  /\ pc' = "accept"
  /\ batch' = batch \ {"listen"}
  /\ UNCHANGED <<clock, events, current, reading, recv_end, todo, clients, pending_replies,
                 dropping, listen_edge, backlog, peers>>

BugAcceptOne == "loop"

\* After a connection was accepted the loop goes round.
AcceptAgain == "accept"

\* accept4() succeeds.  If EPOLL_CTL_ADD then fails the client is erased again.
AcceptClient ==
  /\ pc = "accept" /\ backlog # <<>> /\ FreeFds # {}
  /\ backlog' = Tail(backlog)
  /\ \/ /\ clients' = Put(LowestFree, NewClient(Head(backlog)))
        /\ UNCHANGED <<link, inbox>>
     \/ /\ "epoll_ctl" \in Faults
        /\ link' = [link EXCEPT ![Head(backlog)] = "gone"]
        /\ inbox' = [inbox EXCEPT ![Head(backlog)] = <<>>]
        /\ UNCHANGED clients
  /\ pc' = AcceptAgain
  /\ UNCHANGED <<clock, batch, events, current, reading, recv_end, todo, pending_replies,
                 dropping, listen_edge, sent, received>>

\* ECONNABORTED: the connection was reset while it was queued.
AcceptAborted ==
  /\ pc = "accept" /\ backlog # <<>>
  /\ link[Head(backlog)] = "reset"
  /\ backlog' = Tail(backlog)
  /\ link' = [link EXCEPT ![Head(backlog)] = "gone"]
  /\ UNCHANGED <<clock, reactor, clients, pending_replies, dropping, listen_edge, inbox,
                 sent, received>>

\* EAGAIN, or out of descriptors: the loop ends.
AcceptEnd ==
  /\ pc = "accept" /\ (backlog = <<>> \/ FreeFds = {})
  /\ pc' = "loop"
  /\ UNCHANGED <<clock, batch, events, current, reading, recv_end, todo, clients,
                 pending_replies, dropping, listen_edge, backlog, peers>>

-----------------------------------------------------------------------------
(* handle_client_event                                                     *)

\* The lookup in clients_ finds nothing.
SkipEvent(e) ==
  /\ pc = "loop" /\ e \in events
  /\ e.fd \notin DOMAIN clients
  /\ events' = events \ {e}
  /\ UNCHANGED <<clock, pc, batch, current, reading, recv_end, todo, clients,
                 pending_replies, dropping, listen_edge, backlog, peers>>

\* HUP or ERR: on_hangup_or_error, then remove_client.
OnHangup(e) ==
  /\ pc = "loop" /\ e \in events /\ e.hup
  /\ e.fd \in DOMAIN clients
  /\ RemoveClients({e.fd})
  /\ events' = events \ {e}
  /\ UNCHANGED <<clock, pc, batch, current, reading, recv_end, todo, dropping, listen_edge,
                 backlog, sent, received>>

\* on_readable's recv loop, if the event has EPOLLIN: everything queued is
\* taken, up to the cap on read_accum_, over which the connection fails.
OnReadable(e) ==
  /\ pc = "loop" /\ e \in events /\ ~e.hup
  /\ e.fd \in DOMAIN clients
  /\ events' = events \ {e}
  /\ current' = {e}
  /\ LET s == clients[e.fd].peer IN
     IF ~e.in
     THEN pc' = "finish" /\ UNCHANGED <<reading, recv_end, clients, inbox>>
     ELSE /\ inbox' = [inbox EXCEPT ![s] = <<>>]
          /\ IF Len(inbox[s]) > MaxReadAccum
             THEN /\ clients' = [clients EXCEPT ![e.fd] = Failed(@)]
                  /\ pc' = "finish"
                  /\ UNCHANGED <<reading, recv_end>>
             ELSE /\ reading' = inbox[s]
                  /\ recv_end' = link[s]
                  /\ pc' = "drain"
                  /\ UNCHANGED clients
  /\ UNCHANGED <<clock, batch, todo, pending_replies, dropping, listen_edge, backlog, link,
                 sent, received>>

\* One message of drain_read_buffer; o is what its handler made of the client.
\* Once it is kFailed the rest is thrown away.
Handle(m, fd, o) ==
  /\ pc = "drain" /\ reading # <<>> /\ m = Head(reading)
  /\ current = {e \in current : e.fd = fd} /\ current # {}
  /\ clients' = [clients EXCEPT ![fd] = o.client]
  /\ Deliver(clients[fd].peer, o.sent)
  /\ reading' = IF o.client.state = "kFailed" THEN <<>> ELSE Tail(reading)
  /\ pc' = IF o.client.state = "kFailed" THEN "finish" ELSE "drain"
  /\ recv_end' = IF o.client.state = "kFailed" THEN "open" ELSE recv_end
  /\ UNCHANGED <<clock, batch, events, current, todo, dropping, listen_edge,
                 backlog, link, inbox, sent>>

\* handle_connect_hello: the CONNECT_ACK, then kHealthy whatever became of it.
HandleConnectHello(m, fd) ==
  /\ m.type = "kConnectHello" /\ clients[fd].state = "kHandshaking"
  /\ \E o \in QueueOutcomes(clients[fd], Msg("kConnectAck", 0)) :
       Handle(m, fd, [o EXCEPT !.client = [@ EXCEPT !.state = "kHealthy",
                                                    !.state_entered = batch_now,
                                                    !.last_liveness = batch_now]])
  /\ UNCHANGED pending_replies

\* A PING is proof of life, whatever happens to its reply.
Pinged(fd) == [clients[fd] EXCEPT !.last_liveness = batch_now]

IsPing(m, fd) == m.type = "kPing" /\ clients[fd].state = "kHealthy"

\* on_ping_intercept drops the reply for good,
HandlePingDropped(m, fd) ==
  /\ IsPing(m, fd)
  /\ dropping
  /\ Handle(m, fd, [client |-> Pinged(fd), sent |-> <<>>])
  /\ UNCHANGED pending_replies

\* or defers it, by extra_latency with or without jitter,
HandlePingDeferred(m, fd) ==
  /\ IsPing(m, fd)
  /\ \E d \in Delays :
       pending_replies' = Append(pending_replies,
         [fire_at |-> now + d, fd |-> fd, sequence |-> m.sequence, asker |-> clients[fd].peer])
  /\ Handle(m, fd, [client |-> Pinged(fd), sent |-> <<>>])

\* or lets it go out at once.
HandlePingAnswered(m, fd) ==
  /\ IsPing(m, fd)
  /\ Delays = {}
  /\ \E o \in PongOutcomes(Pinged(fd), m.sequence) : Handle(m, fd, o)
  /\ UNCHANGED pending_replies

\* kDisconnect, bytes that do not decode, or a message the state does not allow.
HandleFailure(m, fd) ==
  /\ \/ m.type = "fatal"
     \/ m.type = "kConnectHello" /\ clients[fd].state # "kHandshaking"
     \/ m.type = "kPing" /\ clients[fd].state # "kHealthy"
  /\ Handle(m, fd, [client |-> Failed(clients[fd]), sent |-> <<>>])
  /\ UNCHANGED pending_replies

\* The buffer is drained: EOF or the socket error is acted on now.
DrainDone ==
  /\ pc = "drain" /\ reading = <<>>
  /\ pc' = "finish"
  /\ clients' = [fd \in DOMAIN clients |->
                   IF recv_end # "open" /\ \E e \in current : e.fd = fd
                   THEN Failed(clients[fd]) ELSE clients[fd]]
  /\ recv_end' = "open"
  /\ UNCHANGED <<clock, batch, events, current, reading, todo, pending_replies, dropping,
                 listen_edge, backlog, peers>>

\* on_writable if the event has EPOLLOUT, then remove_client or
\* sync_epoll_interest.
FinishEvent(e) ==
  /\ pc = "finish" /\ e \in current
  /\ \E o \in IF e.out /\ clients[e.fd].state # "kFailed"
              THEN FlushOutcomes(clients[e.fd])
              ELSE {[client |-> clients[e.fd], sent |-> <<>>]} :
       /\ Deliver(clients[e.fd].peer, o.sent)
       /\ IF o.client.state = "kFailed"
          THEN RemoveClients({e.fd})
          ELSE /\ clients' = [clients EXCEPT ![e.fd] = Synced(o.client)]
               /\ UNCHANGED <<pending_replies, link, inbox>>
  /\ pc' = "loop" /\ current' = {}
  /\ UNCHANGED <<clock, batch, events, reading, recv_end, todo, dropping, listen_edge,
                 backlog, sent>>

-----------------------------------------------------------------------------
(* on_timer_tick                                                           *)

BugHealthyOnly(client) ==
  client.state = "kHealthy" /\ now - client.last_liveness >= HeartbeatTimeout

\* check_timeout of a responder: a single strike.
CheckTimeout(client) ==
  \/ client.state = "kHandshaking" /\ now - client.state_entered >= HeartbeatTimeout
  \/ client.state = "kHealthy" /\ now - client.last_liveness >= HeartbeatTimeout

BugCountedBeforePurge == Len(pending_replies)

\* How many replies the tick goes through: those left after the reaping.
RepliesToVisit == Len(pending_replies')

\* The clock is read and every client that timed out is removed.
TickReap ==
  /\ pc = "loop" /\ "timer" \in batch
  /\ batch' = batch \ {"timer"}
  /\ tick_now' = now
  /\ RemoveClients({f \in DOMAIN clients : CheckTimeout(clients[f])})
  /\ todo' = RepliesToVisit
  /\ pc' = IF todo' = 0 THEN "loop" ELSE "replies"
  /\ UNCHANGED <<now, batch_now, events, current, reading, recv_end, dropping, listen_edge,
                 backlog, sent, received>>

\* Replies are looked at from the front; the ones not yet due go to the back,
\* so that what is left at the end is still_pending, in order.
NextReply ==
  /\ pc = "replies" /\ todo > 0
  /\ todo' = todo - 1
  /\ pc' = IF todo = 1 THEN "loop" ELSE "replies"
  /\ UNCHANGED <<clock, batch, events, current, reading, recv_end, dropping, listen_edge,
                 backlog, link, inbox, sent>>

ReplyNotDue ==
  /\ NextReply
  /\ tick_now < Head(pending_replies).fire_at
  /\ pending_replies' = Append(Tail(pending_replies), Head(pending_replies))
  /\ UNCHANGED <<clients, received>>

BugNotSynced(client) == client

\* What the tick does with a client it has just queued a reply for.
AfterReply(client) == Synced(client)

\* A reply is due: send_pong.  A client this fails stays in clients_.
ReplyDue ==
  /\ NextReply
  /\ LET p == Head(pending_replies) IN
       /\ tick_now >= p.fire_at
       /\ IF p.fd \in DOMAIN clients
          THEN \E o \in PongOutcomes(clients[p.fd], p.sequence) :
                 /\ clients' = [clients EXCEPT ![p.fd] = AfterReply(o.client)]
                 /\ Deliver(clients[p.fd].peer, o.sent)
          ELSE UNCHANGED <<clients, received>>
  /\ pending_replies' = Tail(pending_replies)

-----------------------------------------------------------------------------
(* on_command_fd_readable: the callback runs once per line                 *)

CommandStart ==
  /\ pc = "loop" /\ "command" \in batch
  /\ pc' = "command"
  /\ batch' = batch \ {"command"}
  /\ UNCHANGED <<clock, events, current, reading, recv_end, todo, clients, pending_replies,
                 dropping, listen_edge, backlog, peers>>

\* kill_random_connection
KillRandomConnection(fd) ==
  /\ pc = "command" /\ "kill" \in Commands
  /\ fd \in DOMAIN clients
  /\ RemoveClients({fd})
  /\ UNCHANGED <<clock, reactor, dropping, listen_edge, backlog, sent, received>>

\* set_fault_config, from set-drop-rate
SetFaultConfig ==
  /\ pc = "command" /\ "set-drop-rate" \in Commands
  /\ dropping' \in BOOLEAN
  /\ UNCHANGED <<clock, reactor, clients, pending_replies, listen_edge, backlog, peers>>

CommandEnd ==
  /\ pc = "command"
  /\ pc' = "loop"
  /\ UNCHANGED <<clock, batch, events, current, reading, recv_end, todo, clients,
                 pending_replies, dropping, listen_edge, backlog, peers>>

-----------------------------------------------------------------------------
Environment ==
  \/ Advance
  \/ \E s \in Sessions : \/ PeerConnect(s) \/ PeerHello(s) \/ PeerPing(s)
                         \/ PeerClose(s) \/ PeerReset(s)

HandleMessage ==
  \E m \in {reading[i] : i \in DOMAIN reading}, fd \in DOMAIN clients :
    \/ HandleConnectHello(m, fd) \/ HandlePingDropped(m, fd) \/ HandlePingDeferred(m, fd)
    \/ HandlePingAnswered(m, fd) \/ HandleFailure(m, fd)

Reactor ==
  \/ EpollWait
  \/ AcceptStart \/ AcceptClient \/ AcceptAborted \/ AcceptEnd
  \/ \E e \in events : SkipEvent(e) \/ OnHangup(e) \/ OnReadable(e)
  \/ HandleMessage \/ DrainDone
  \/ \E e \in current : FinishEvent(e)
  \/ TickReap \/ ReplyNotDue \/ ReplyDue
  \/ CommandStart \/ SetFaultConfig \/ CommandEnd
  \/ \E fd \in DOMAIN clients : KillRandomConnection(fd)

Next == Environment \/ Reactor

Spec == Init /\ [][Next]_vars

-----------------------------------------------------------------------------
(* Properties                                                              *)

\* Every variable keeps its type.
TypeOK ==
  /\ now \in 0 .. MaxTime /\ batch_now \in 0 .. MaxTime /\ tick_now \in 0 .. MaxTime
  /\ pc \in {"loop", "accept", "drain", "finish", "replies", "command"}
  /\ batch \subseteq {"timer", "listen", "command"} /\ events \subseteq Event
  /\ current \subseteq Event /\ Cardinality(current) <= 1
  /\ reading \in Seq(Message) /\ recv_end \in {"open", "eof", "reset"}
  /\ todo \in 0 .. Len(pending_replies)
  /\ DOMAIN clients \subseteq Fds /\ Range(clients) \subseteq Client
  /\ pending_replies \in Seq(PendingReply)
  /\ dropping \in BOOLEAN /\ listen_edge \in BOOLEAN /\ backlog \in Seq(Sessions)
  /\ link \in [Sessions -> {"idle", "open", "eof", "reset", "gone"}]
  /\ inbox \in [Sessions -> Seq(Message)] /\ received \in [Sessions -> Seq(Message)]
  /\ sent \in [Sessions -> 0 .. MaxPings + 1]

\* A deferred PONG goes to the client that asked, although replies are kept by
\* descriptor number and numbers are recycled: remove_client purges them before
\* the number is free ("otherwise a stale deferred PONG could misfire at an
\* unrelated future client").
DeferredReplyFindsAsker ==
  \A i \in DOMAIN pending_replies :
    /\ pending_replies[i].fd \in DOMAIN clients
    /\ clients[pending_replies[i].fd].peer = pending_replies[i].asker

\* What a session was sent and what is still queued for it, in order.
Stream(s) ==
  LET fds == {f \in DOMAIN clients : clients[f].peer = s} IN
  received[s] \o (IF fds = {} THEN <<>> ELSE clients[CHOOSE f \in fds : TRUE].write_pending)

\* A client sees the CONNECT_ACK first, then only PONGs for PINGs it sent, each
\* at most once, whatever is deferred, reordered by jitter or cut short by the
\* socket.
RepliesExact ==
  \A s \in Sessions : \A i \in DOMAIN Stream(s) :
    /\ Stream(s)[i].type = IF i = 1 THEN "kConnectAck" ELSE "kPong"
    /\ Stream(s)[i].sequence < sent[s]
    /\ \A j \in DOMAIN Stream(s) : Stream(s)[i] = Stream(s)[j] => i = j

\* Unsent bytes are never forgotten: when the reactor is back in its loop, every
\* client with bytes pending has EPOLLOUT armed, also after a deferred reply
\* queued by the tick.
UnsentBytesArmed ==
  pc = "loop" => \A f \in DOMAIN clients :
                   clients[f].write_pending # <<>> => clients[f].epollout

\* No queued connection is overlooked: the edge-triggered listening socket is
\* reported once per arrival, so accept_new_connections must empty the queue.
\* (Stated for a process with descriptors to spare.)
BacklogNoticed ==
  backlog # <<>> => listen_edge \/ "listen" \in batch \/ pc = "accept"

\* When the simulator last took something of a client for a sign of life.
LastSign(c) == IF c.last_liveness > c.state_entered THEN c.last_liveness ELSE c.state_entered

\* A client that is up has given a sign of life within one timeout and one tick,
\* although PINGs are stamped with the batch's clock and judged by the tick's.
SilentClientReaped ==
  \A f \in DOMAIN clients :
    clients[f].state # "kFailed"
      => now - LastSign(clients[f]) < HeartbeatTimeout + TickGap
=============================================================================
