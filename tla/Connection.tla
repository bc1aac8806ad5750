------------------------------ MODULE Connection ------------------------------
(***************************************************************************)
(* One outbound feed connection (class Connection, Role::kInitiator) and   *)
(* the slice of FeedMonitor's reactor that drives it: epoll_wait, the      *)
(* dispatch of one batch of events in an arbitrary order, the timer tick,  *)
(* and the operator's commands.  The peer, the socket between them and the *)
(* clock are the environment.                                              *)
(*                                                                         *)
(* The reactor is one thread, so the handlers interleave only with the     *)
(* environment: the clock advances and the peer acts between any two steps *)
(* of a batch.  A handler whose later part can observe that is split into  *)
(* steps (pc): the tick into send_ping and check_timeout, on_readable into *)
(* the recv loop and one step per decoded message, on_command_input into   *)
(* one step per line.                                                      *)
(*                                                                         *)
(* One unit of the model's data is one 28-byte heartbeat message: the      *)
(* buffers are sequences of messages and a short write ends on a message   *)
(* boundary.  Module Wire has the bytes.                                   *)
(***************************************************************************)
EXTENDS Integers, Sequences

CONSTANTS
  Intervals,             \* values heartbeat_interval may take
  Timeouts,              \* values heartbeat_timeout may take
  MaxMissedHeartbeats,   \* config max_missed_heartbeats
  AckedWindow,           \* kAckedSequenceWindow
  MaxWritePending,       \* kMaxWritePendingBytes, in messages
  MaxReadAccum,          \* kMaxReadAccumBytes, in messages
  Commands,              \* the operator commands a run exercises
  Faults,                \* the faults of socket and peer a run exercises
  ForgedMessages,        \* what a peer breaking the protocol may send; {} = honest
  TickGap,               \* two timer ticks are handled at most this far apart
  MaxTime,               \* bound: the clock's horizon
  MaxInbox,              \* bound: messages in the receive queue
  MaxAcks                \* bound: PONGs remembered on one connection

\* heartbeat_timeout exceeds the distance between two ticks, as every
\* configuration of the repository has it (timeout 3000 ms, tick 50 ms).
ASSUME TimingAssumption ==
  /\ TickGap \in Nat \ {0}
  /\ Timeouts # {}
  /\ \A t \in Timeouts : t \in Nat /\ TickGap < t
  /\ Intervals # {}
  /\ \A i \in Intervals : i \in Nat \ {0}

ASSUME LimitAssumption ==
  /\ MaxMissedHeartbeats \in Nat \ {0}
  /\ AckedWindow \in Nat \ {0}
  /\ MaxWritePending \in Nat \ {0}
  /\ MaxReadAccum \in Nat \ {0}
  /\ MaxTime \in Nat
  /\ MaxInbox \in Nat
  /\ MaxAcks \in Nat

-----------------------------------------------------------------------------
Live == {"kHealthy", "kDegraded"}
Opening == {"kConnecting", "kHandshaking"}
States == Live \cup Opening \cup {"kFailed"}

Message == [type : {"kConnectHello", "kConnectAck", "kPing", "kPong", "kDisconnect", "corrupt"},
            feed_id : {"own", "other"}, sequence : Nat, timestamp_ns : Nat]

Msg(type, sequence, timestamp_ns) ==
  [type |-> type, feed_id |-> "own", sequence |-> sequence, timestamp_ns |-> timestamp_ns]

ASSUME ForgedAssumption == ForgedMessages \subseteq Message

ConnEvents == {"EPOLLHUP", "EPOLLOUT", "EPOLLIN"}

\* Why the connection failed last: the line the code writes to stderr.  A buffer
\* over its cap has a reason of its own, though handle_protocol_violation reports
\* it too: that is the peer's pace, not what it sent.
Reasons == {"none", "heartbeat_timeout", "open_timeout", "socket_error", "peer_closed",
            "protocol_violation", "write_overflow", "read_overflow"}

VARIABLES
  now,                  \* CLOCK_BOOTTIME
  heartbeat_interval, heartbeat_timeout,    \* config_, shared with FeedMonitor
  pc,                   \* "loop", or the handler the reactor is inside
  batch,                \* events of the current epoll_wait not yet dispatched
  batch_now,            \* now_ns of the current batch
  tick_now,             \* now_ns of the last on_timer_tick
  mapped,               \* fd registered in epoll and index_of_fd_
  reconnect_ready,      \* a reconnect is scheduled (reconnect_ready_at_ns >= 0, !give_up)
  next_ping_due,
  state, state_entered, next_sequence, consecutive_missed, last_liveness,
  acked_sequences, acked_count, acked_next,
  read_accum, write_pending,
  recv_end,             \* how the last recv loop ended: "open" is EAGAIN
  link, inbox, delivered, peer_acked,       \* socket and peer
  reason, baseline, inherited, rebased_ns, peer_alive_ns, ack_log  \* history

config == <<heartbeat_interval, heartbeat_timeout>>
reactor == <<pc, batch, batch_now, tick_now>>
slot == <<mapped, reconnect_ready, next_ping_due>>
acks == <<acked_sequences, acked_count, acked_next, ack_log>>
liveness == <<consecutive_missed, last_liveness, baseline, inherited, rebased_ns>>
buffers == <<read_accum, write_pending, recv_end>>
peer == <<link, inbox, delivered, peer_acked, peer_alive_ns>>
vars == <<now, config, reactor, slot, state, state_entered, reason, next_sequence,
          liveness, acks, buffers, peer>>

-----------------------------------------------------------------------------
(* Helpers of the handlers                                                 *)

\* transition_to
TransitionTo(s, t) ==
  /\ state' = s
  /\ state_entered' = t

\* handle_socket_error, handle_peer_closed and handle_protocol_violation
FailWith(r, t) ==
  /\ TransitionTo("kFailed", t)
  /\ reason' = r

\* on_connection_failed: the fd leaves epoll and index_of_fd_, so whatever the
\* batch still holds for it is skipped; a reconnect is scheduled unless the
\* retry budget is spent.
OnConnectionFailed ==
  /\ mapped' = FALSE
  /\ reconnect_ready' \in BOOLEAN
  /\ batch' = batch \ ConnEvents
  /\ pc' = "loop"

WantsWrite == state = "kConnecting" \/ write_pending # <<>>

\* flush_write_buffer: the kernel takes some prefix of what is pending, or the
\* send fails.
FlushOutcomes(pending) ==
  IF link = "reset"
  THEN {[pending |-> pending, sent |-> 0, failed |-> "socket_error"]}
  ELSE {[pending |-> SubSeq(pending, n + 1, Len(pending)), sent |-> n, failed |-> "none"] :
           n \in {k \in 0 .. Len(pending) : "short_write" \in Faults \/ k = Len(pending)}}

\* queue_write: append; fail over the cap; flush only when nothing was pending.
QueueOutcomes(msg) ==
  LET pending == Append(write_pending, msg) IN
  IF Len(pending) > MaxWritePending
  THEN {[pending |-> pending, sent |-> 0, failed |-> "write_overflow"]}
  ELSE IF write_pending = <<>>
       THEN FlushOutcomes(pending)
       ELSE {[pending |-> pending, sent |-> 0, failed |-> "none"]}

\* What the peer holds once the first n pending messages are sent.
Deliver(pending, n) == delivered \cup {pending[i] : i \in 1 .. n}

\* Definitions named Bug... are wrong on purpose, each a slip one could make in
\* the definition that follows it; nothing uses them but the sensitivity runs.

BugSkipsOldestCell(sequence) ==
  \E i \in 1 .. acked_count - 1 : acked_sequences[i] = sequence

HasAckedSequence(sequence) ==
  \E i \in 0 .. acked_count - 1 : acked_sequences[i] = sequence

BugCursorNotWrapped(sequence) ==
  /\ acked_sequences' = [acked_sequences EXCEPT ![acked_next] = sequence]
  /\ acked_next' = acked_next + 1
  /\ acked_count' = IF acked_count < AckedWindow THEN acked_count + 1 ELSE acked_count
  /\ ack_log' = Append(ack_log, sequence)

RememberAckedSequence(sequence) ==
  /\ acked_sequences' = [acked_sequences EXCEPT ![acked_next] = sequence]
  /\ acked_next' = (acked_next + 1) % AckedWindow
  /\ acked_count' = IF acked_count < AckedWindow THEN acked_count + 1 ELSE acked_count
  /\ ack_log' = Append(ack_log, sequence)

BugWindowKept ==
  /\ ack_log' = <<>>
  /\ UNCHANGED <<acked_sequences, acked_count, acked_next>>

\* What rebind does to the window: the cells keep their values.
ForgetAckedSequences ==
  /\ acked_count' = 0 /\ acked_next' = 0
  /\ ack_log' = <<>>
  /\ UNCHANGED acked_sequences

-----------------------------------------------------------------------------
\* add_feed and the constructor: the first connect() has just been issued.
Init ==
  /\ now = 0
  /\ heartbeat_interval \in Intervals
  /\ heartbeat_timeout \in Timeouts
  /\ pc = "loop" /\ batch = {} /\ batch_now = 0 /\ tick_now = 0
  /\ mapped = TRUE /\ reconnect_ready = FALSE /\ next_ping_due = 0
  /\ state = "kConnecting" /\ state_entered = 0 /\ reason = "none"
  /\ next_sequence = 0
  /\ consecutive_missed = 0 /\ last_liveness = 0
  /\ acked_sequences = [i \in 0 .. AckedWindow - 1 |-> 0]
  /\ acked_count = 0 /\ acked_next = 0 /\ ack_log = <<>>
  /\ read_accum = <<>> /\ write_pending = <<>> /\ recv_end = "open"
  /\ link = "open" /\ inbox = <<>> /\ delivered = {} /\ peer_acked = FALSE
  /\ baseline = 0 /\ inherited = 0 /\ rebased_ns = 0 /\ peer_alive_ns = 0

-----------------------------------------------------------------------------
(* The environment                                                         *)

\* Time passes, but never past the moment the next tick is handled.
Advance ==
  /\ now < MaxTime
  /\ now - tick_now < TickGap
  /\ now' = now + 1
  /\ UNCHANGED <<config, reactor, slot, state, state_entered, reason, next_sequence,
                 liveness, acks, buffers, peer>>

PeerSend(m) ==
  /\ link = "open"
  /\ Len(inbox) < MaxInbox
  /\ Len(ack_log) + Len(read_accum) + Len(inbox) < MaxAcks
  /\ inbox' = Append(inbox, m)
  /\ peer_alive_ns' = now
  /\ UNCHANGED <<now, config, reactor, slot, state, state_entered, reason, next_sequence,
                 liveness, acks, buffers, link>>

\* The peer answers the CONNECT_HELLO it has read, once.
PeerAck ==
  /\ ~peer_acked
  /\ \E m \in delivered : m.type = "kConnectHello"
  /\ PeerSend(Msg("kConnectAck", 0, now))
  /\ peer_acked' = TRUE
  /\ UNCHANGED delivered

\* The peer answers any PING it has read: in any order, late, never, or again.
PeerPong ==
  /\ \E m \in delivered :
       /\ m.type = "kPing"
       /\ PeerSend(Msg("kPong", m.sequence, m.timestamp_ns))
       /\ delivered' = IF "duplicate" \in Faults THEN delivered ELSE delivered \ {m}
  /\ UNCHANGED peer_acked

\* A peer that breaks the protocol.
PeerForge ==
  /\ \E m \in ForgedMessages : PeerSend(m)
  /\ UNCHANGED <<delivered, peer_acked>>

\* The peer closes, after a kDisconnect or without one.
PeerClose ==
  /\ "close" \in Faults /\ link = "open"
  /\ link' = "eof"
  /\ inbox' \in {inbox, Append(inbox, Msg("kDisconnect", 0, 0))}
  /\ UNCHANGED <<now, config, reactor, slot, state, state_entered, reason, next_sequence,
                 liveness, acks, buffers, delivered, peer_acked, peer_alive_ns>>

\* Connect refused, or a reset: the kernel drops what was not read yet.
PeerReset ==
  /\ "reset" \in Faults /\ link # "reset"
  /\ link' = "reset"
  /\ inbox' = <<>>
  /\ UNCHANGED <<now, config, reactor, slot, state, state_entered, reason, next_sequence,
                 liveness, acks, buffers, delivered, peer_acked, peer_alive_ns>>

-----------------------------------------------------------------------------
(* FeedMonitor::run                                                        *)

\* What epoll can report for the connection's fd.
ReadyEvents ==
  IF ~mapped THEN {}
  ELSE IF link = "reset" THEN {"EPOLLHUP"}
  ELSE {e \in {"EPOLLOUT", "EPOLLIN"} :
          \/ e = "EPOLLOUT" /\ WantsWrite
          \/ e = "EPOLLIN" /\ (inbox # <<>> \/ link = "eof")}

\* epoll_wait returns and the batch's now_ns is read.  A socket still
\* connecting is readable only once it is writable.
EpollWait ==
  /\ pc = "loop" /\ batch = {}
  /\ \E events \in SUBSET ReadyEvents,
        others \in SUBSET ({"timer"} \cup (IF Commands = {} THEN {} ELSE {"command"})) :
       /\ state = "kConnecting" /\ "EPOLLIN" \in events => "EPOLLOUT" \in events
       /\ batch' = events \cup others
       /\ batch' # {}
  /\ batch_now' = now
  /\ UNCHANGED <<now, config, pc, tick_now, slot, state, state_entered, reason,
                 next_sequence, liveness, acks, buffers, peer>>

-----------------------------------------------------------------------------
(* FeedMonitor::handle_connection_event                                    *)

\* HUP or ERR: on_hangup_or_error, then on_connection_failed.
OnHangup ==
  /\ pc = "loop" /\ "EPOLLHUP" \in batch
  /\ FailWith("socket_error", batch_now)
  /\ OnConnectionFailed
  /\ UNCHANGED <<now, config, batch_now, tick_now, next_ping_due, next_sequence, liveness,
                 acks, buffers, peer>>

\* After on_writable: the same event's EPOLLIN is handled next.
AfterWritable ==
  /\ batch' = batch \ {"EPOLLOUT"}
  /\ pc' = IF "EPOLLIN" \in batch THEN "readable" ELSE "loop"
  /\ UNCHANGED <<mapped, reconnect_ready>>

\* on_writable while connecting: SO_ERROR decides, then the CONNECT_HELLO.
OnConnected ==
  /\ pc = "loop" /\ "EPOLLOUT" \in batch
  /\ state = "kConnecting"
  /\ IF link = "reset"
     THEN /\ FailWith("socket_error", batch_now)
          /\ OnConnectionFailed
          /\ UNCHANGED <<write_pending, delivered>>
     ELSE LET hello == Msg("kConnectHello", 0, batch_now) IN
          \E o \in QueueOutcomes(hello) :
            /\ write_pending' = o.pending
            /\ delivered' = Deliver(Append(write_pending, hello), o.sent)
            /\ IF o.failed # "none"
               THEN FailWith(o.failed, now) /\ OnConnectionFailed
               ELSE /\ TransitionTo("kHandshaking", batch_now)
                    /\ UNCHANGED reason
                    /\ AfterWritable
  /\ UNCHANGED <<now, config, batch_now, tick_now, next_ping_due, next_sequence, liveness,
                 acks, read_accum, recv_end, link, inbox, peer_acked, peer_alive_ns>>

\* on_writable otherwise: flush.  A connection that failed inside a tick is
\* reported by this event.
OnWritable ==
  /\ pc = "loop" /\ "EPOLLOUT" \in batch
  /\ state # "kConnecting"
  /\ \E o \in FlushOutcomes(write_pending) :
       /\ write_pending' = o.pending
       /\ delivered' = Deliver(write_pending, o.sent)
       /\ IF o.failed # "none" /\ write_pending # <<>>
          THEN FailWith(o.failed, now) /\ OnConnectionFailed
          ELSE /\ UNCHANGED <<state, state_entered, reason>>
               /\ IF state = "kFailed" THEN OnConnectionFailed ELSE AfterWritable
  /\ UNCHANGED <<now, config, batch_now, tick_now, next_ping_due, next_sequence, liveness,
                 acks, read_accum, recv_end, link, inbox, peer_acked, peer_alive_ns>>

ReadDue == pc = "readable" \/ (pc = "loop" /\ "EPOLLIN" \in batch /\ "EPOLLOUT" \notin batch)

\* An EPOLLIN for a connection already failed: on_readable is skipped.
OnReadableFailed ==
  /\ ReadDue /\ state = "kFailed"
  /\ OnConnectionFailed
  /\ UNCHANGED <<now, config, batch_now, tick_now, next_ping_due, state, state_entered,
                 reason, next_sequence, liveness, acks, buffers, peer>>

\* on_readable: the recv loop takes everything the socket holds, unless that
\* passes the cap, which fails the connection with the bytes left in place.
OnReadable ==
  /\ ReadDue /\ state # "kFailed"
  /\ IF Len(read_accum) + Len(inbox) > MaxReadAccum
     THEN LET taken == MaxReadAccum + 1 - Len(read_accum) IN
          /\ read_accum' = read_accum \o SubSeq(inbox, 1, taken)
          /\ inbox' = SubSeq(inbox, taken + 1, Len(inbox))
          /\ FailWith("read_overflow", batch_now)
          /\ OnConnectionFailed
          /\ UNCHANGED recv_end
     ELSE /\ read_accum' = read_accum \o inbox
          /\ inbox' = <<>>
          /\ recv_end' = link
          /\ pc' = "drain"
          /\ batch' = batch \ ConnEvents
          /\ UNCHANGED <<state, state_entered, reason, mapped, reconnect_ready>>
  /\ UNCHANGED <<now, config, batch_now, tick_now, next_ping_due, next_sequence, liveness,
                 acks, write_pending, link, delivered, peer_acked, peer_alive_ns>>

-----------------------------------------------------------------------------
(* Connection::drain_read_buffer, one step per message                     *)

Draining(type) == pc = "drain" /\ read_accum # <<>> /\ Head(read_accum).type = type

\* The handler left the connection alive: go on with the rest of the buffer.
DrainOn ==
  /\ read_accum' = Tail(read_accum)
  /\ UNCHANGED <<pc, batch, mapped, reconnect_ready, reason>>

\* The handler failed the connection: the rest of the buffer is dropped.
DrainFailed(r) ==
  /\ FailWith(r, batch_now)
  /\ read_accum' = <<>>
  /\ OnConnectionFailed
  /\ UNCHANGED <<liveness, acks>>

DrainFrame ==
  UNCHANGED <<now, config, batch_now, tick_now, next_ping_due, next_sequence,
              write_pending, recv_end, peer>>

HandleConnectAck ==
  /\ Draining("kConnectAck")
  /\ IF state = "kHandshaking" /\ Head(read_accum).feed_id = "own"
     THEN /\ TransitionTo("kHealthy", batch_now)
          /\ last_liveness' = batch_now
          /\ baseline' = batch_now
          /\ inherited' = consecutive_missed
          /\ UNCHANGED <<consecutive_missed, rebased_ns, acks>>
          /\ DrainOn
     ELSE DrainFailed("protocol_violation")
  /\ DrainFrame

BugLatePongTrusted(m) == batch_now >= m.timestamp_ns

\* The RTT rule of handle_pong: neither late nor from the future.
Timely(m) == batch_now - m.timestamp_ns \in 0 .. heartbeat_timeout - 1

BugMissesKept ==
  /\ last_liveness' = batch_now
  /\ baseline' = batch_now /\ inherited' = 0
  /\ UNCHANGED consecutive_missed

\* A timely PONG resets the window and the misses.
ProofOfLife ==
  /\ last_liveness' = batch_now
  /\ consecutive_missed' = 0
  /\ baseline' = batch_now /\ inherited' = 0

HandlePong ==
  /\ Draining("kPong")
  /\ LET m == Head(read_accum) IN
     IF state \notin Live
     THEN DrainFailed("protocol_violation")
     ELSE /\ DrainOn
          /\ IF HasAckedSequence(m.sequence)
             THEN UNCHANGED acks
             ELSE RememberAckedSequence(m.sequence)
          /\ IF Timely(m) /\ ~HasAckedSequence(m.sequence)
             THEN /\ ProofOfLife
                  /\ UNCHANGED rebased_ns
                  /\ IF state = "kDegraded"
                     THEN TransitionTo("kHealthy", batch_now)
                     ELSE UNCHANGED <<state, state_entered>>
             ELSE UNCHANGED <<liveness, state, state_entered>>
  /\ DrainFrame

HandleDisconnect ==
  /\ Draining("kDisconnect")
  /\ DrainFailed("peer_closed")
  /\ DrainFrame

\* A message an initiator never accepts, or one that does not decode.
HandleViolation ==
  /\ \E t \in {"kConnectHello", "kPing", "corrupt"} : Draining(t)
  /\ DrainFailed("protocol_violation")
  /\ DrainFrame

\* The buffer is drained: only now the recv loop's EOF or error is acted on.
DrainDone ==
  /\ pc = "drain" /\ read_accum = <<>>
  /\ IF recv_end = "open"
     THEN /\ pc' = "loop"
          /\ UNCHANGED <<batch, mapped, reconnect_ready, state, state_entered, reason>>
     ELSE /\ FailWith(IF recv_end = "eof" THEN "peer_closed" ELSE "socket_error", batch_now)
          /\ OnConnectionFailed
  /\ UNCHANGED <<read_accum, liveness, acks>>
  /\ DrainFrame

-----------------------------------------------------------------------------
(* FeedMonitor::on_timer_tick: tick_now is the now_ns it reads             *)

TickStart ==
  /\ pc = "loop" /\ "timer" \in batch
  /\ tick_now' = now

\* send_ping, when due.  A failing send leaves the connection kFailed here.
TickPing ==
  /\ TickStart
  /\ state \in Live /\ now >= next_ping_due
  /\ LET ping == Msg("kPing", next_sequence, now) IN
     \E o \in QueueOutcomes(ping) :
       /\ write_pending' = o.pending
       /\ delivered' = Deliver(Append(write_pending, ping), o.sent)
       /\ IF o.failed # "none"
          THEN FailWith(o.failed, now)
          ELSE UNCHANGED <<state, state_entered, reason>>
  /\ next_sequence' = next_sequence + 1
  /\ next_ping_due' = now + heartbeat_interval
  /\ batch' = batch \ {"timer"}
  /\ pc' = "check"
  /\ UNCHANGED <<now, config, batch_now, mapped, reconnect_ready, liveness, acks,
                 read_accum, recv_end, link, inbox, peer_acked, peer_alive_ns>>

TickNoPing ==
  /\ TickStart
  /\ state \in Opening \/ (state \in Live /\ now < next_ping_due)
  /\ batch' = batch \ {"timer"}
  /\ pc' = "check"
  /\ UNCHANGED <<now, config, batch_now, slot, state, state_entered, reason, next_sequence,
                 liveness, acks, buffers, peer>>

\* A failed slot: nothing is due, or the socket() of initiate_connect fails and
\* schedule_reconnect decides again.
TickFailed ==
  /\ TickStart
  /\ state = "kFailed"
  /\ reconnect_ready' \in (IF reconnect_ready THEN BOOLEAN ELSE {FALSE})
  /\ batch' = batch \ {"timer"}
  /\ UNCHANGED <<now, config, pc, batch_now, mapped, next_ping_due, state, state_entered,
                 reason, next_sequence, liveness, acks, buffers, peer>>

BugWriteBufferKept ==
  /\ read_accum' = <<>>
  /\ UNCHANGED write_pending

\* What rebind does to the buffers
ClearBuffers == read_accum' = <<>> /\ write_pending' = <<>>

\* initiate_connect and rebind, once the backoff (FeedMonitor) is over.  What
\* the batch holds for the old fd is skipped, unless the failure was never
\* reported: then index_of_fd_ still maps the old fd to this slot.
Rebind ==
  /\ TickStart
  /\ state = "kFailed" /\ reconnect_ready
  /\ reconnect_ready' = FALSE
  /\ mapped' = TRUE
  /\ batch' = batch \ ({"timer"} \cup (IF mapped THEN {} ELSE ConnEvents))
  /\ TransitionTo("kConnecting", now)
  /\ ClearBuffers
  /\ next_sequence' = 0
  /\ ForgetAckedSequences
  /\ consecutive_missed' = 0
  /\ last_liveness' = now /\ baseline' = now /\ inherited' = 0
  /\ link' = "open" /\ inbox' = <<>> /\ delivered' = {} /\ peer_acked' = FALSE
  /\ UNCHANGED <<now, config, pc, batch_now, next_ping_due, reason, rebased_ns,
                 recv_end, peer_alive_ns>>

\* check_timeout returned true: transition_to(kFailed), on_connection_failed.
CheckFailed(r) ==
  /\ FailWith(r, tick_now)
  /\ OnConnectionFailed

CheckPassed ==
  /\ pc' = "loop"
  /\ UNCHANGED <<batch, mapped, reconnect_ready, reason>>

CheckFrame ==
  UNCHANGED <<now, config, batch_now, tick_now, next_ping_due, next_sequence, baseline,
              inherited, rebased_ns, acks, buffers, peer>>

\* check_timeout while connecting or handshaking
CheckOpening ==
  /\ pc = "check" /\ state \in Opening
  /\ IF tick_now - state_entered >= heartbeat_timeout
     THEN CheckFailed("open_timeout")
     ELSE CheckPassed /\ UNCHANGED <<state, state_entered>>
  /\ UNCHANGED <<consecutive_missed, last_liveness>>
  /\ CheckFrame

BugMissedStrictly == tick_now - last_liveness > heartbeat_timeout

Missed == tick_now - last_liveness >= heartbeat_timeout

BugWindowNotMoved == UNCHANGED last_liveness

\* The window moves by one timeout, not up to now.
MoveWindow == last_liveness' = last_liveness + heartbeat_timeout

BugOneMissMore == consecutive_missed >= MaxMissedHeartbeats

LimitReached == consecutive_missed + 1 >= MaxMissedHeartbeats

\* check_timeout of a live initiator: at most one miss per tick
CheckLive ==
  /\ pc = "check" /\ state \in Live
  /\ IF Missed
     THEN /\ consecutive_missed' = consecutive_missed + 1
          /\ MoveWindow
          /\ IF LimitReached
             THEN CheckFailed("heartbeat_timeout")
             ELSE CheckPassed /\ TransitionTo("kDegraded", tick_now)
     ELSE CheckPassed /\ UNCHANGED <<state, state_entered, consecutive_missed, last_liveness>>
  /\ CheckFrame

\* check_timeout of a connection send_ping has just failed: returns false
CheckSilent ==
  /\ pc = "check" /\ state = "kFailed"
  /\ CheckPassed
  /\ UNCHANGED <<state, state_entered, consecutive_missed, last_liveness>>
  /\ CheckFrame

-----------------------------------------------------------------------------
(* Operator commands, run inside the batch with a fresh clock              *)

\* One line that was typed; the same read may have brought more.
Command(c) ==
  /\ (pc = "loop" /\ "command" \in batch) \/ pc = "command"
  /\ c \in Commands
  /\ pc' \in {"command", "loop"}
  /\ UNCHANGED <<now, batch_now, tick_now, next_ping_due, next_sequence,
                 acks, buffers, peer>>

\* reset_liveness_baseline: the silence so far is not judged by the new timeout,
\* and the misses counted so far are kept.
ResetLivenessBaseline == last_liveness' = now

\* set_heartbeat_timeout
SetHeartbeatTimeout ==
  /\ Command("set_timeout")
  /\ heartbeat_timeout' \in Timeouts
  /\ ResetLivenessBaseline
  /\ baseline' = now /\ inherited' = consecutive_missed /\ rebased_ns' = now
  /\ batch' = batch \ {"command"}
  /\ UNCHANGED <<heartbeat_interval, mapped, reconnect_ready, state, state_entered,
                 reason, consecutive_missed>>

SetHeartbeatInterval ==
  /\ Command("set_interval")
  /\ heartbeat_interval' \in Intervals
  /\ batch' = batch \ {"command"}
  /\ UNCHANGED <<heartbeat_timeout, mapped, reconnect_ready, state, state_entered,
                 reason, liveness>>

\* force_disconnect, a no-op on a failed connection
ForceDisconnect ==
  /\ Command("disconnect")
  /\ IF state = "kFailed"
     THEN /\ batch' = batch \ {"command"}
          /\ UNCHANGED <<mapped, reconnect_ready, state, state_entered, reason>>
     ELSE /\ FailWith("socket_error", now)
          /\ mapped' = FALSE
          /\ reconnect_ready' \in BOOLEAN
          /\ batch' = batch \ ({"command"} \cup ConnEvents)
  /\ UNCHANGED <<config, liveness>>

\* force_reconnect, a no-op on a connection that has not failed
ForceReconnect ==
  /\ Command("reconnect")
  /\ reconnect_ready' = (reconnect_ready \/ state = "kFailed")
  /\ batch' = batch \ {"command"}
  /\ UNCHANGED <<config, mapped, state, state_entered, reason, liveness>>

-----------------------------------------------------------------------------
Environment == Advance \/ PeerAck \/ PeerPong \/ PeerForge \/ PeerClose \/ PeerReset

Events == OnHangup \/ OnConnected \/ OnWritable \/ OnReadable \/ OnReadableFailed
Messages == HandleConnectAck \/ HandlePong \/ HandleDisconnect \/ HandleViolation \/ DrainDone
Tick == TickPing \/ TickNoPing \/ TickFailed \/ Rebind \/ CheckOpening \/ CheckLive \/ CheckSilent
Operator == SetHeartbeatTimeout \/ SetHeartbeatInterval \/ ForceDisconnect \/ ForceReconnect

Next == Environment \/ EpollWait \/ Events \/ Messages \/ Tick \/ Operator

Spec == Init /\ [][Next]_vars

-----------------------------------------------------------------------------
(* Properties                                                              *)

TypeReactor ==
  /\ now \in Nat /\ batch_now \in Nat /\ tick_now \in Nat
  /\ heartbeat_interval \in Intervals /\ heartbeat_timeout \in Timeouts
  /\ pc \in {"loop", "readable", "drain", "check", "command"}
  /\ batch \subseteq ({"timer", "command"} \cup ConnEvents)
  /\ mapped \in BOOLEAN /\ reconnect_ready \in BOOLEAN
  /\ next_ping_due \in Nat

TypeState ==
  /\ state \in States /\ state_entered \in Nat /\ reason \in Reasons
  /\ next_sequence \in Nat
  /\ consecutive_missed \in Nat /\ last_liveness \in Nat
  /\ baseline \in Nat /\ inherited \in Nat /\ rebased_ns \in Nat

TypeAcks ==
  /\ acked_sequences \in [0 .. AckedWindow - 1 -> Nat]
  /\ acked_count \in 0 .. AckedWindow /\ acked_next \in 0 .. AckedWindow - 1
  /\ ack_log \in Seq(Nat)

TypeBuffers ==
  /\ read_accum \in Seq(Message) /\ write_pending \in Seq(Message)
  /\ recv_end \in {"open", "eof", "reset"}

TypePeer ==
  /\ link \in {"open", "eof", "reset"}
  /\ inbox \in Seq(Message) /\ delivered \subseteq Message
  /\ peer_acked \in BOOLEAN /\ peer_alive_ns \in Nat

\* Every variable keeps its type: the ring's cursor and count stay inside the
\* ring, and the buffers hold messages only.
TypeOK == TypeReactor /\ TypeState /\ TypeAcks /\ TypeBuffers /\ TypePeer

\* The miss counter and the state tell the same story at every step of every
\* handler: a healthy or opening connection carries no misses over from before
\* a PONG, a reconnect or a timeout change, and a degraded one has some and
\* fewer than the limit.
MissesMatchState ==
  /\ state \in Opening \cup {"kHealthy"} => consecutive_missed = 0
  /\ state = "kDegraded" => consecutive_missed \in 1 .. MaxMissedHeartbeats - 1

\* check_timeout fails a live connection only after every one of its misses was
\* a full heartbeat_timeout of silence, counted from the last timely PONG, the
\* handshake, or the last set-timeout (which keeps the misses counted so far):
\* no tick, however late or clustered, counts the same silence twice.
FailureIsEarned ==
  [][(state \in Live /\ state' = "kFailed" /\ reason' = "heartbeat_timeout")
        => tick_now - baseline >= (MaxMissedHeartbeats - inherited) * heartbeat_timeout]_vars

\* The other direction: outside a tick, a connection still shown as live has
\* had evidence (or a set-timeout) within the misses it is allowed plus one
\* tick.  The window that check_timeout advances never lets silence be
\* forgiven, even when a tick and a PONG of one batch read different clocks.
SilenceBounded ==
  state \in Live /\ pc # "check"
    => now - baseline < (MaxMissedHeartbeats - inherited) * heartbeat_timeout + TickGap

Lifecycle == INSTANCE FeedLifecycle WITH misses <- consecutive_missed

\* Whatever the order of events, ticks and commands inside a batch, the state
\* and the miss count a connection shows move only as FeedLifecycle allows: one
\* miss at a time, failed by silence exactly at the limit, back to healthy only
\* with all misses forgiven, and out of failed only through a new connection.
ImplementsLifecycle == Lifecycle!Spec

\* No PONG but to a PING, no CONNECT_ACK but to a CONNECT_HELLO: the peer may
\* break the protocol in other ways.  (A CONNECT_ACK sent before the hello is
\* believed when the handshake begins, up to one more timeout later.)
EvidenceAnswers == \A m \in ForgedMessages : m.type \notin {"kPong", "kConnectAck"}

\* End to end: a peer that stopped sending is not shown as live for longer than
\* one timeout (the age a PONG, or the CONNECT_ACK, may have when it is
\* believed) plus the silence check_timeout tolerates, plus two ticks; a
\* set-timeout restarts the count.  Queued, late, duplicated or reordered PONGs
\* of a peer that is gone cannot stretch it.
DeadPeerDetected ==
  EvidenceAnswers /\ state \in Live /\ pc # "check"
    => \/ \E t \in Timeouts :
             now < peer_alive_ns + t + MaxMissedHeartbeats * heartbeat_timeout + 2 * TickGap
       \/ now < rebased_ns + MaxMissedHeartbeats * heartbeat_timeout + TickGap

\* The ring of acked sequences, its count and its cursor hold exactly the last
\* AckedWindow PONGs remembered on this connection: nothing older, and nothing
\* of the connection before a rebind, whose sequence numbers start again at 0.
AckMemoryExact ==
  {s \in {acked_sequences[i] : i \in 0 .. AckedWindow - 1} : HasAckedSequence(s)}
    = {ack_log[i] : i \in {j \in 1 .. Len(ack_log) : j > Len(ack_log) - AckedWindow}}

\* A duplicated PONG is not taken for a new one while fewer than AckedWindow
\* other PONGs came in between, in whatever order the peer answers.
AckedOncePerWindow ==
  \A i, j \in 1 .. Len(ack_log) :
    i < j /\ ack_log[i] = ack_log[j] => j - i > AckedWindow

\* A peer that follows the protocol (but may answer late, twice, out of order or
\* never, and may close or reset at any point) is never dropped for a protocol
\* violation, across reconnects included: no message of an old connection is
\* read on the new one, and no handler runs in a state the peer did not cause.
\* (A peer too slow or too eager for the caps of the buffers is another matter.)
HonestPeerNeverViolates == ForgedMessages = {} => reason # "protocol_violation"
=============================================================================
