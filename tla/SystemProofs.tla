---------------------------- MODULE SystemProofs ----------------------------
(***************************************************************************)
(* Proofs about HeartbeatSystem, for every value of its constants: two     *)
(* ends that keep up with their events never find each other silent.       *)
(***************************************************************************)
EXTENDS HeartbeatSystem, ConnectionProofs

-----------------------------------------------------------------------------
(* The timing condition                                                    *)

\* What the two configurations must leave room for: one interval, one tick and
\* five batches between two proofs of life, at either end (the PING waits for a
\* batch of the simulator and is handled at its end, the PONG waits for a batch
\* of the monitor and is handled at its end, and the batch that read the last one
\* may have begun one batch before); and fewer PONGs than the read buffer holds
\* in the four batches a PONG may be on its way.  The defaults (1000 ms, 3000 ms,
\* a tick every 50 ms, 64 KiB) leave 390 ms for a batch.
Prompt ==
  /\ "short_write" \notin Faults
  /\ \A i \in Intervals, t \in Timeouts :
       /\ i + TickGap + 5 * BatchGap <= t
       /\ i + TickGap + 5 * BatchGap <= SimTimeout
       /\ 4 * BatchGap < i * MaxReadAccum

-----------------------------------------------------------------------------
(* The inductive invariant                                                 *)

MonitorBusy == pc # "loop" \/ batch # {}
SimBusy == reading # {} \/ sim_batch # {}

\* Each reactor is through with a batch within BatchGap of its wait.
BatchInv ==
  /\ MonitorBusy => now <= batch_now + BatchGap
  /\ SimBusy => now <= sim_batch_now + BatchGap
  /\ sim_batch_now <= now

\* A message that came in at t waits for the batch that reads it: either that
\* batch has begun, or the one under way began before t.
SimWaits(t) ==
  \/ "EPOLLIN" \in sim_batch /\ sim_batch_now <= t + BatchGap
  \/ now <= t + BatchGap /\ (SimBusy => sim_batch_now <= t)

MonitorWaits(t) ==
  \/ "EPOLLIN" \in batch /\ batch_now <= t + BatchGap
  \/ now <= t + BatchGap /\ (MonitorBusy => batch_now <= t)

\* Nobody breaks the connection, and what the monitor sends leaves at once.
LinkInv ==
  /\ link = "open" /\ mapped = TRUE /\ write_pending = <<>> /\ recv_end = "open"
  /\ state # "kFailed" /\ client.state # "kFailed"
  /\ pc # "readable" /\ "EPOLLHUP" \notin batch
  /\ "EPOLLOUT" \in batch => state = "kConnecting"
  /\ pc = "drain" => "EPOLLIN" \notin batch
  /\ "accept" \in sim_batch => client.state = "none"

\* Nothing was sent on the connection but what opens it.
Unused ==
  /\ next_sequence = 0 /\ next_ping_due = 0 /\ ack_log = <<>> /\ drops = 0
  /\ consecutive_missed = 0 /\ acked_count = 0
  /\ \A i \in 0 .. AckedWindow - 1 : acked_sequences[i] = 0

\* The simulator accepts in its first batch.
Unaccepted ==
  client.state = "none" =>
    /\ reading = {} /\ "EPOLLIN" \notin sim_batch
    /\ sim_batch = {} => now = 0
    /\ sim_batch # {} => "accept" \in sim_batch /\ sim_batch_now = 0

\* connect() is under way; the monitor's first batch completes it.
Dialing ==
  /\ state = "kConnecting" /\ client.state \in {"none", "kHandshaking"}
  /\ ~MonitorBusy => now = 0
  /\ MonitorBusy => "EPOLLOUT" \in batch /\ batch_now = 0
  /\ "EPOLLIN" \notin batch /\ pc # "drain"
  /\ inbox = <<>> /\ read_accum = <<>> /\ delivered = {} /\ reading = {}

IsHello(S) == \E m \in S : S = {m} /\ m.type = "kConnectHello"

\* The CONNECT_HELLO is on its way.
Greeting ==
  /\ state = "kHandshaking" /\ client.state \in {"none", "kHandshaking"}
  /\ "EPOLLIN" \notin batch /\ pc # "drain"
  /\ inbox = <<>> /\ read_accum = <<>>
  /\ \/ IsHello(delivered) /\ reading = {} /\ SimWaits(BatchGap)
     \/ delivered = {} /\ IsHello(reading) /\ sim_batch_now <= 2 * BatchGap

IsAck(s) == Len(s) = 1 /\ s[1].type = "kConnectAck" /\ s[1].feed_id = "own"

\* The CONNECT_ACK is on its way.
Acking ==
  /\ state = "kHandshaking" /\ client.state = "kHealthy"
  /\ client.last_liveness <= 2 * BatchGap
  /\ delivered = {} /\ reading = {}
  /\ \/ /\ pc # "drain" /\ read_accum = <<>> /\ IsAck(inbox)
        /\ MonitorWaits(client.last_liveness + BatchGap)
     \/ /\ pc = "drain" /\ IsAck(read_accum) /\ inbox = <<>>
        /\ batch_now <= client.last_liveness + 2 * BatchGap

-----------------------------------------------------------------------------
(* The session: sent[1] is the tick before the handshake ended, sent[q + 2] *)
(* the time PING q was sent, and answered the sequences of the PONGs so far *)
(* in the order they were sent.                                            *)

\* Two PINGs are at most this far apart.
Period == heartbeat_interval + TickGap - 1

Sched(sent) ==
  /\ Len(sent) = next_sequence + 1
  /\ \A i \in 1 .. Len(sent) : sent[i] <= now
  /\ \A i \in 1 .. Len(sent), j \in 1 .. Len(sent) :
       i < j => /\ sent[i] <= sent[j]
                /\ sent[j] <= sent[i] + (j - i) * Period
                /\ i > 1 => sent[i] + (j - i) * heartbeat_interval <= sent[j]
  /\ next_sequence = 0 => tick_now = sent[1] /\ next_ping_due = 0
  /\ next_sequence > 0 => /\ next_ping_due = sent[next_sequence + 1] + heartbeat_interval
                          /\ tick_now < next_ping_due

\* PINGs 0 .. HandledPings - 1 were handled: a PONG was sent or dropped for each.
HandledPings(answered) == drops + Len(answered)

Answers(answered) ==
  /\ \A i \in 1 .. Len(answered) :
       answered[i] \in i - 1 .. i - 1 + drops /\ answered[i] < HandledPings(answered)
  /\ \A i \in 1 .. Len(answered), j \in 1 .. Len(answered) :
       i < j => answered[i] + (j - i) <= answered[j]

Ping(sent, q) == Msg("kPing", q, sent[q + 2])
Pong(sent, q) == Msg("kPong", q, sent[q + 2])

\* The PINGs not handled yet are in the socket or being handled.
Pings(sent, answered) ==
  LET h == HandledPings(answered) IN
  /\ sent[h + 1] <= client.last_liveness + 3 * BatchGap
  /\ \E r \in h .. next_sequence :
       /\ reading = {Ping(sent, q) : q \in h .. r - 1}
       /\ delivered = {Ping(sent, q) : q \in r .. next_sequence - 1}
       /\ h < r => sim_batch_now <= sent[h + 2] + BatchGap
       /\ r < next_sequence => SimWaits(sent[r + 2])

\* The PONGs not handled yet are in the socket or in the read buffer.
Pongs(sent, answered) ==
  LET L == Len(ack_log)
      R == L + Len(read_accum) IN
  /\ Len(answered) = R + Len(inbox)
  /\ pc # "drain" => read_accum = <<>>
  /\ \A i \in 1 .. L : ack_log[i] = answered[i]
  /\ \A i \in 1 .. Len(read_accum) : read_accum[i] = Pong(sent, answered[L + i])
  /\ \A i \in 1 .. Len(inbox) : inbox[i] = Pong(sent, answered[R + i])
  /\ read_accum # <<>> => /\ batch_now <= sent[answered[L + 1] + 2] + 3 * BatchGap
                          /\ sent[answered[L + 1] + 2] <= batch_now \/ baseline = batch_now
  /\ inbox # <<>> => MonitorWaits(sent[answered[R + 1] + 2] + 2 * BatchGap)
  /\ "EPOLLIN" \in batch => inbox # <<>> /\ sent[answered[R + 1] + 2] <= batch_now

LastAnswer(answered) == IF ack_log = <<>> THEN 1 ELSE answered[Len(ack_log)] + 2

Evidence(sent, answered) ==
  /\ sent[LastAnswer(answered)] <= baseline + BatchGap
  /\ ack_log = <<>> => acked_count = 0
  /\ \A i \in 0 .. AckedWindow - 1 :
       acked_sequences[i] <= IF ack_log = <<>> THEN 0 ELSE answered[Len(ack_log)]

Session(sent, answered) ==
  /\ state \in Live /\ client.state = "kHealthy"
  /\ inherited = 0 /\ consecutive_missed <= drops
  /\ Sched(sent) /\ Answers(answered) /\ Pings(sent, answered)
  /\ Pongs(sent, answered) /\ Evidence(sent, answered)

\* Both ends are in a session: some schedule and some list of answers fit.
InSession == \E sent \in Seq(Nat), answered \in Seq(Nat) : Session(sent, answered)

Opened == Unused /\ (Dialing \/ Greeting \/ Acking)

\* Until as many replies were dropped as the monitor tolerates misses, the
\* connection is being opened or in a session that keeps up.
StageInv ==
  drops < MaxMissedHeartbeats => LinkInv /\ Unaccepted /\ (Opened \/ InSession)

-----------------------------------------------------------------------------
(* Types and detection in the composed system                              *)

TypeSim ==
  /\ client \in [state : {"none", "kHandshaking", "kHealthy", "kFailed"},
                 state_entered : Nat, last_liveness : Nat]
  /\ sim_batch \subseteq {"accept", "EPOLLIN", "timer"}
  /\ sim_batch_now \in Nat /\ sim_tick_now \in Nat
  /\ reading \subseteq Message /\ drops \in Nat

\* What holds of the composed system whatever the timing.
BaseInv == TypeInv /\ DetectionInv /\ TypeSim /\ BatchInv

\* The monitor's steps are steps of Connection.
LEMMA MonitorSteps ==
  SystemAdvance \/ SystemEpollWait \/ MonitorStep => Next /\ UNCHANGED responder
<1>1. SystemAdvance => Next /\ UNCHANGED responder
  BY DEF SystemAdvance, Next, Environment
<1>2. SystemEpollWait => Next /\ UNCHANGED responder
  BY DEF SystemEpollWait, Next
<1>3. MonitorStep => Next /\ UNCHANGED responder
  BY DEF MonitorStep, Next, Tick
<1> QED BY <1>1, <1>2, <1>3

SimSteps == SimEpollWait \/ SimAccept \/ SimOnReadable \/ SimConnectHello \/ SimPing \/ SimTick

\* The simulator's steps touch nothing of the monitor but the socket.
SimFrame ==
  /\ UNCHANGED <<now, config, reactor, slot, state, state_entered, reason, next_sequence,
                 liveness, acks, buffers, peer_acked>>
  /\ link' \in {link, "eof"}
  /\ delivered' \in {delivered, {}}
  /\ \/ UNCHANGED <<inbox, peer_alive_ns>>
     \/ peer_alive_ns' = now /\ inbox' = Append(inbox, Msg("kConnectAck", 0, sim_batch_now))
     \/ \E m \in reading :
          peer_alive_ns' = now /\ inbox' = Append(inbox, Msg("kPong", m.sequence, m.timestamp_ns))

\* Every step of the simulator keeps to that frame.
LEMMA SimFrames == SimSteps => SimFrame
<1> USE DEF SimFrame, config, reactor, slot, liveness, acks, buffers, peer
<1>1. SimEpollWait => SimFrame
  BY DEF SimEpollWait, vars
<1>2. SimAccept => SimFrame
  BY DEF SimAccept, vars
<1>3. SimOnReadable => SimFrame
  BY DEF SimOnReadable
<1>4. SimConnectHello => SimFrame
  BY DEF SimConnectHello, Handled, Reply
<1>5. SimPing => SimFrame
  BY DEF SimPing, Handled, Reply
<1>6. SimTick => SimFrame
  BY DEF SimTick
<1> QED BY <1>1, <1>2, <1>3, <1>4, <1>5, <1>6 DEF SimSteps

\* The simulator writes messages to the socket.
LEMMA SimTypes == TypeInv /\ TypeSim /\ SimFrame => TypeInv'
<1> SUFFICES ASSUME TypeInv, TypeSim, SimFrame PROVE TypeInv'
  OBVIOUS
<1> USE DEF TypeInv, TypeOK, SimFrame, config, reactor, slot, liveness, acks, buffers
<1>1. inbox' \in Seq(Message) /\ peer_alive_ns' \in Nat
  <2>1. Msg("kConnectAck", 0, sim_batch_now) \in Message
    BY MsgType DEF TypeSim
  <2>2. \A m \in reading : Msg("kPong", m.sequence, m.timestamp_ns) \in Message
    <3>1. \A m \in reading : m.sequence \in Nat /\ m.timestamp_ns \in Nat
      BY DEF TypeSim, Message
    <3> QED BY <3>1, MsgType
  <2> QED BY <2>1, <2>2, AppendProperties DEF TypePeer, TypeReactor
<1>2. TypePeer'
  BY <1>1 DEF TypePeer
<1>3. TypeReactor' /\ TypeState'
  BY DEF TypeReactor, TypeState
<1>4. TypeAcks' /\ TypeBuffers' /\ ReadBufferDrained'
  BY DEF TypeAcks, TypeBuffers, ReadBufferDrained
<1> QED BY <1>2, <1>3, <1>4

\* The simulator's own state keeps its types.
LEMMA SimTypeStep == TypeInv /\ TypeSim /\ [SystemNext]_systemVars => TypeSim'
<1> SUFFICES ASSUME TypeInv, TypeSim, [SystemNext]_systemVars PROVE TypeSim'
  OBVIOUS
<1>0. now \in Nat /\ delivered \subseteq Message
  BY DEF TypeInv, TypeOK, TypeReactor, TypePeer
<1> USE DEF TypeSim
<1>1. CASE SystemAdvance \/ SystemEpollWait \/ MonitorStep
  BY <1>1, MonitorSteps DEF responder
<1>2. CASE SimEpollWait
  BY <1>0, <1>2 DEF SimEpollWait, SimReady
<1>3. CASE SimAccept
  BY <1>0, <1>3 DEF SimAccept
<1>4. CASE SimOnReadable
  BY <1>0, <1>4 DEF SimOnReadable
<1>5. CASE SimConnectHello
  BY <1>5 DEF SimConnectHello, Handled
<1>6. CASE SimPing
  BY <1>6 DEF SimPing, Handled, SimPinged
<1>7. CASE SimTick
  BY <1>0, <1>7 DEF SimTick
<1>8. CASE UNCHANGED systemVars
  BY <1>8 DEF systemVars, responder
<1> QED BY <1>1, <1>2, <1>3, <1>4, <1>5, <1>6, <1>7, <1>8 DEF SystemNext

\* A step of the simulator judges nothing at the monitor's end.
LEMMA SimDetection == DetectionInv /\ SimFrame => DetectionInv'
<1>1. SimFrame => Untimed
  BY DEF SimFrame, Untimed, config, reactor, liveness
<1> QED BY <1>1, UntimedStep

\* No step of either reactor is taken later than its batch allows.
LEMMA BatchStep ==
  TypeInv /\ DetectionInv /\ TypeSim /\ BatchInv /\ [SystemNext]_systemVars => BatchInv'
<1> SUFFICES ASSUME TypeInv, DetectionInv, TypeSim, BatchInv, [SystemNext]_systemVars
             PROVE  BatchInv'
  OBVIOUS
<1>0. /\ now \in Nat /\ batch_now \in Nat /\ sim_batch_now \in Nat /\ BatchGap \in Nat
      /\ batch_now <= now
  BY SystemAssumption DEF TypeInv, TypeOK, TypeReactor, TypeSim, DetectionInv, ClockInv
<1> USE DEF BatchInv, MonitorBusy, SimBusy
<1>1. CASE SystemAdvance
  <2>1. /\ now' = now + 1
        /\ UNCHANGED <<pc, batch, batch_now, sim_batch, sim_batch_now, reading>>
        /\ MonitorBusy => now - batch_now < BatchGap
        /\ SimBusy => now - sim_batch_now < BatchGap
    BY <1>1 DEF SystemAdvance, Advance, reactor, responder, SimIdle
  <2> QED BY <1>0, <2>1
<1>2. CASE SystemEpollWait
  <2>1. now' = now /\ batch_now' = now /\ UNCHANGED responder
    BY <1>2 DEF SystemEpollWait, EpollWait
  <2> QED BY <1>0, <2>1 DEF responder
<1>3. CASE MonitorStep
  <2>1. now' = now /\ batch_now' = batch_now /\ UNCHANGED responder
    BY <1>3 DEF MonitorStep, Events, Messages, OnHangup, OnConnected, OnWritable, OnReadable,
       OnReadableFailed, HandleConnectAck, HandlePong, HandleDisconnect, HandleViolation,
       DrainDone, DrainFrame, TickPing, TickNoPing, CheckOpening, CheckLive, CheckSilent,
       CheckFrame
  <2>2. MonitorBusy
    BY <1>3 DEF MonitorStep, Events, Messages, OnHangup, OnConnected, OnWritable, OnReadable,
       OnReadableFailed, HandleConnectAck, HandlePong, HandleDisconnect, HandleViolation,
       DrainDone, Draining, ReadDue, TickPing, TickNoPing, TickStart, CheckOpening, CheckLive,
       CheckSilent
  <2> QED BY <1>0, <2>1, <2>2 DEF responder
<1>4. CASE SimSteps
  <2>1. now' = now /\ UNCHANGED <<pc, batch, batch_now>>
    BY <1>4, SimFrames DEF SimFrame, reactor
  <2>2. CASE SimEpollWait
    BY <1>0, <2>1, <2>2 DEF SimEpollWait
  <2>3. CASE ~SimEpollWait
    <3>1. sim_batch_now' = sim_batch_now
      BY <1>4, <2>3 DEF SimSteps, SimAccept, SimOnReadable, SimConnectHello, SimPing, SimTick,
                        Handled
    <3>2. SimBusy
      BY <1>4, <2>3 DEF SimSteps, SimAccept, SimOnReadable, SimConnectHello, SimPing, SimTick,
                        Handled
    <3> QED BY <1>0, <2>1, <3>1, <3>2
  <2> QED BY <2>2, <2>3
<1>5. CASE UNCHANGED systemVars
  BY <1>5 DEF systemVars, vars, reactor, responder
<1> QED BY <1>1, <1>2, <1>3, <1>4, <1>5 DEF SystemNext, SimSteps

\* The base invariant holds at the start.
LEMMA BaseInit == SystemInit => BaseInv
<1> SUFFICES ASSUME SystemInit PROVE BaseInv
  OBVIOUS
<1>1. TypeInv /\ DetectionInv
  BY TypeInit, DetectionInit DEF SystemInit
<1>2. TypeSim
  BY DEF SystemInit, TypeSim, NoClient
<1>3. BatchInv
  BY SystemAssumption DEF SystemInit, Init, BatchInv, MonitorBusy, SimBusy
<1> QED BY <1>1, <1>2, <1>3 DEF BaseInv

\* Every step of the composed system keeps it.
LEMMA BaseStep == BaseInv /\ [SystemNext]_systemVars => BaseInv'
<1> SUFFICES ASSUME BaseInv, [SystemNext]_systemVars PROVE BaseInv'
  OBVIOUS
<1>0. TypeInv /\ DetectionInv /\ TypeSim /\ BatchInv /\ TypeOK
  BY DEF BaseInv, TypeInv
<1>1. [Next]_vars \/ SimFrame
  BY MonitorSteps, SimFrames DEF SystemNext, SimSteps, systemVars
<1>2. TypeInv' /\ DetectionInv'
  BY <1>0, <1>1, TypeStep, DetectionStep, SimTypes, SimDetection
<1> QED BY <1>0, <1>2, SimTypeStep, BatchStep DEF BaseInv

\* The two ends keep their types and the monitor's failure detection stays
\* exact when the peer is the simulator: the proofs of Connection carry over.
THEOREM SystemBase == SystemSpec => []BaseInv
  BY BaseInit, BaseStep, PTL DEF SystemSpec

-----------------------------------------------------------------------------
(* The opening                                                             *)

\* What the timing condition leaves room for, in the numbers the proofs use.
LEMMA Room ==
  ASSUME Prompt, TypeOK
  PROVE  /\ heartbeat_interval \in Nat /\ heartbeat_interval >= 1
         /\ heartbeat_timeout \in Nat /\ SimTimeout \in Nat
         /\ TickGap \in Nat /\ TickGap >= 1 /\ BatchGap \in Nat
         /\ MaxReadAccum \in Nat /\ MaxMissedHeartbeats \in Nat /\ MaxMissedHeartbeats >= 1
         /\ Period \in Nat /\ Period >= TickGap
         /\ Period + 5 * BatchGap < heartbeat_timeout
         /\ Period + 5 * BatchGap < SimTimeout
         /\ 4 * BatchGap < heartbeat_interval * MaxReadAccum
<1>1. heartbeat_interval \in Intervals /\ heartbeat_timeout \in Timeouts
  BY DEF TypeOK, TypeReactor
<1>2. /\ heartbeat_interval \in Nat /\ heartbeat_interval >= 1
      /\ heartbeat_timeout \in Nat /\ SimTimeout \in Nat
      /\ TickGap \in Nat /\ TickGap >= 1 /\ BatchGap \in Nat
      /\ MaxReadAccum \in Nat /\ MaxMissedHeartbeats \in Nat /\ MaxMissedHeartbeats >= 1
  BY <1>1, TimingAssumption, LimitAssumption, SystemAssumption
<1>3. /\ heartbeat_interval + TickGap + 5 * BatchGap <= heartbeat_timeout
      /\ heartbeat_interval + TickGap + 5 * BatchGap <= SimTimeout
      /\ 4 * BatchGap < heartbeat_interval * MaxReadAccum
  BY <1>1 DEF Prompt
<1> QED BY <1>2, <1>3 DEF Period

\* With nothing pending, queue_write hands the message to the socket whole.
LEMMA SendOutcome ==
  ASSUME Prompt, LinkInv, NEW msg \in Message, NEW o \in QueueOutcomes(msg)
  PROVE  /\ o.pending = <<>> /\ o.failed = "none"
         /\ Deliver(Append(write_pending, msg), o.sent) = delivered \cup {msg}
<1> DEFINE p == Append(write_pending, msg)
<1>1. p = <<msg>> /\ Len(p) = 1 /\ p[1] = msg /\ p \in Seq(Message)
  BY DEF LinkInv
<1>2. ~(Len(p) > MaxWritePending)
  BY <1>1, LimitAssumption
<1>3. o \in FlushOutcomes(p)
  BY <1>2 DEF QueueOutcomes, LinkInv
<1> HIDE DEF p
<1>4. PICK n \in 0 .. Len(p) :
        /\ "short_write" \in Faults \/ n = Len(p)
        /\ o = [pending |-> SubSeq(p, n + 1, Len(p)), sent |-> n, failed |-> "none"]
  BY <1>3 DEF FlushOutcomes, LinkInv
<1>5. n = 1
  BY <1>1, <1>4 DEF Prompt
<1>6. o.pending = SubSeq(p, 2, 1) /\ o.sent = 1 /\ o.failed = "none"
  BY <1>1, <1>4, <1>5
<1>7. SubSeq(p, 2, 1) = <<>>
  BY <1>1
<1>8. Deliver(p, 1) = delivered \cup {msg}
  BY <1>1 DEF Deliver
<1> QED BY <1>6, <1>7, <1>8 DEF p

\* on_writable of a connection that is up: the CONNECT_HELLO is sent.
LEMMA ConnectedEffect ==
  ASSUME Prompt, BaseInv, LinkInv, Dialing, OnConnected
  PROVE  /\ "EPOLLOUT" \in batch /\ pc = "loop" /\ pc' = "loop"
         /\ batch' = batch \ {"EPOLLOUT"}
         /\ state' = "kHandshaking" /\ state_entered' = batch_now
         /\ write_pending' = <<>> /\ IsHello(delivered')
         /\ UNCHANGED <<now, config, batch_now, tick_now, slot, reason, next_sequence, liveness,
                        acks, read_accum, recv_end, link, inbox, peer_acked, peer_alive_ns>>
<1> DEFINE hello == Msg("kConnectHello", 0, batch_now)
<1>1. hello \in Message
  BY MsgType DEF BaseInv, TypeInv, TypeOK, TypeReactor
<1>2. PICK o \in QueueOutcomes(hello) :
        /\ write_pending' = o.pending
        /\ delivered' = Deliver(Append(write_pending, hello), o.sent)
        /\ o.failed = "none" => /\ TransitionTo("kHandshaking", batch_now)
                                /\ UNCHANGED reason
                                /\ AfterWritable
  BY DEF OnConnected, LinkInv
<1>3. /\ o.pending = <<>> /\ o.failed = "none"
      /\ Deliver(Append(write_pending, hello), o.sent) = delivered \cup {hello}
  BY <1>1, <1>2, SendOutcome
<1>4. IsHello(delivered')
  <2>1. delivered' = {hello} /\ hello.type = "kConnectHello"
    BY <1>2, <1>3 DEF Dialing, Msg
  <2> HIDE DEF hello
  <2> QED BY <2>1 DEF IsHello
<1>5. /\ TransitionTo("kHandshaking", batch_now) /\ UNCHANGED reason /\ AfterWritable
      /\ write_pending' = <<>>
  BY <1>2, <1>3
<1> QED BY <1>4, <1>5 DEF OnConnected, TransitionTo, AfterWritable, Dialing, slot, config

\* What an open socket makes ready.
LEMMA WaitEffect ==
  ASSUME LinkInv, SystemEpollWait
  PROVE  /\ pc = "loop" /\ batch = {} /\ batch' # {} /\ batch_now' = now
         /\ "EPOLLOUT" \in batch' <=> state = "kConnecting"
         /\ "EPOLLIN" \in batch' <=> inbox # <<>>
         /\ "EPOLLHUP" \notin batch'
         /\ UNCHANGED <<now, config, pc, tick_now, slot, state, state_entered, reason,
                        next_sequence, liveness, acks, buffers, peer, responder>>
<1>1. /\ "EPOLLOUT" \in ReadyEvents <=> state = "kConnecting"
      /\ "EPOLLIN" \in ReadyEvents <=> inbox # <<>>
      /\ "EPOLLHUP" \notin ReadyEvents
  BY DEF LinkInv, ReadyEvents, WantsWrite
<1>2. ReadyEvents \subseteq batch' /\ batch' \subseteq ReadyEvents \cup {"timer", "command"}
  BY DEF SystemEpollWait, EpollWait
<1> QED BY <1>1, <1>2 DEF SystemEpollWait, EpollWait

\* Time passes only while neither reactor is behind.
LEMMA AdvanceEffect ==
  ASSUME LinkInv, SystemAdvance
  PROVE  /\ now' = now + 1
         /\ now - tick_now < TickGap
         /\ ~MonitorBusy => state # "kConnecting" /\ inbox = <<>>
         /\ ~SimBusy => client.state # "none" /\ (client.state \in {"kHandshaking", "kHealthy"}
                                                     => delivered = {})
         /\ MonitorBusy => now - batch_now < BatchGap
         /\ SimBusy => now - sim_batch_now < BatchGap
         /\ UNCHANGED <<config, reactor, slot, state, state_entered, reason, next_sequence,
                        liveness, acks, buffers, peer, responder>>
<1>1. /\ "EPOLLOUT" \in ReadyEvents <=> state = "kConnecting"
      /\ "EPOLLIN" \in ReadyEvents <=> inbox # <<>>
  BY DEF LinkInv, ReadyEvents, WantsWrite
<1>2. ~MonitorBusy => ReadyEvents = {}
  BY DEF SystemAdvance, MonitorBusy
<1>3. ~SimBusy => SimReady = {}
  BY DEF SystemAdvance, SimBusy, SimIdle
<1> QED BY <1>1, <1>2, <1>3 DEF SystemAdvance, Advance, MonitorBusy, SimBusy, SimIdle, SimReady

\* The handlers an unbroken connection can run.
LEMMA MonitorCases ==
  ASSUME LinkInv, MonitorStep
  PROVE  /\ \/ OnConnected \/ OnReadable \/ HandleConnectAck \/ HandlePong \/ HandleDisconnect
            \/ HandleViolation \/ DrainDone \/ TickPing \/ TickNoPing \/ CheckOpening \/ CheckLive
         /\ MonitorBusy
         /\ UNCHANGED <<now, heartbeat_interval, heartbeat_timeout, batch_now, responder>>
         /\ UNCHANGED config
<1>1. ~OnHangup /\ ~OnWritable /\ ~OnReadableFailed /\ ~CheckSilent
  BY DEF LinkInv, OnHangup, OnWritable, OnReadableFailed, CheckSilent
<1>2. \/ OnConnected \/ OnReadable \/ HandleConnectAck \/ HandlePong \/ HandleDisconnect
      \/ HandleViolation \/ DrainDone \/ TickPing \/ TickNoPing \/ CheckOpening \/ CheckLive
  BY <1>1 DEF MonitorStep, Events, Messages
<1>3. MonitorBusy
  BY <1>2 DEF OnConnected, OnReadable, HandleConnectAck, HandlePong, HandleDisconnect,
     HandleViolation, DrainDone, Draining, ReadDue, TickPing, TickNoPing, TickStart,
     CheckOpening, CheckLive, MonitorBusy
<1>4. UNCHANGED <<now, config, batch_now, responder>>
  BY <1>2 DEF MonitorStep, OnConnected, OnReadable, HandleConnectAck, HandlePong,
     HandleDisconnect, HandleViolation, DrainDone, DrainFrame, TickPing, TickNoPing,
     CheckOpening, CheckLive, CheckFrame
<1> QED BY <1>2, <1>3, <1>4 DEF config

\* A message in the simulator's socket is read no later than the end of the
\* batch after the one under way when it came.
LEMMA SimWaitsStep ==
  ASSUME BaseInv, LinkInv, Unaccepted, SystemNext, ~SimOnReadable, delivered # {},
         client'.state # "kFailed", NEW t \in Nat, SimWaits(t)
  PROVE  SimWaits(t)'
<1>0. now \in Nat /\ sim_batch_now \in Nat /\ BatchGap \in Nat
  BY SystemAssumption DEF BaseInv, TypeSim, TypeInv, TypeOK, TypeReactor
<1>9. client.state \in {"none", "kHandshaking", "kHealthy"}
  BY DEF BaseInv, TypeSim, LinkInv
<1>1. CASE SystemAdvance
  <2>1. SimBusy
    BY <1>1, <1>9, AdvanceEffect
  <2> QED BY <1>0, <1>1, <2>1, AdvanceEffect DEF SimWaits, SimBusy, responder
<1>2. CASE SystemEpollWait
  BY <1>2, WaitEffect DEF SimWaits, SimBusy, responder
<1>3. CASE MonitorStep
  BY <1>3, MonitorCases DEF SimWaits, SimBusy, responder
<1>4. CASE SimEpollWait
  <2>1. now <= t + BatchGap /\ now' = now /\ sim_batch_now' = now /\ SimReady \subseteq sim_batch'
    BY <1>4 DEF SimEpollWait, SimWaits, vars
  <2>2. CASE client.state = "none"
    <3>1. now = 0
      BY <2>2, <1>4 DEF Unaccepted, SimEpollWait
    <3> QED BY <1>0, <2>1, <3>1 DEF SimWaits
  <2>3. CASE client.state # "none"
    <3>1. "EPOLLIN" \in SimReady
      BY <1>9, <2>3 DEF SimReady
    <3> QED BY <1>0, <2>1, <3>1 DEF SimWaits
  <2> QED BY <2>2, <2>3
<1>5. CASE SimAccept
  BY <1>5 DEF SimAccept, SimWaits, SimBusy, vars
<1>6. CASE SimConnectHello
  BY <1>6 DEF SimConnectHello, Handled, SimWaits, SimBusy
<1>7. CASE SimPing
  BY <1>7 DEF SimPing, Handled, SimWaits, SimBusy
<1>8. CASE SimTick
  <2>1. sim_batch' = sim_batch \ {"timer"} /\ UNCHANGED <<now, sim_batch_now, reading>>
    BY <1>8 DEF SimTick, BaseInv, TypeSim
  <2>2. SimBusy
    BY <1>8 DEF SimTick, SimBusy
  <2> QED BY <2>1, <2>2 DEF SimWaits, SimBusy
<1> QED BY <1>1, <1>2, <1>3, <1>4, <1>5, <1>6, <1>7, <1>8 DEF SystemNext

\* The same for a message in the monitor's socket.
LEMMA MonitorWaitsStep ==
  ASSUME BaseInv, LinkInv, SystemNext, ~OnReadable, inbox # <<>>, state' # "kFailed",
         NEW t \in Nat, MonitorWaits(t)
  PROVE  MonitorWaits(t)'
<1>0. now \in Nat /\ batch_now \in Nat /\ BatchGap \in Nat
  BY SystemAssumption DEF BaseInv, TypeSim, TypeInv, TypeOK, TypeReactor
<1>1. CASE SystemAdvance
  <2>1. MonitorBusy
    BY <1>1, AdvanceEffect
  <2> QED BY <1>0, <1>1, <2>1, AdvanceEffect DEF MonitorWaits, MonitorBusy, reactor
<1>2. CASE SystemEpollWait
  BY <1>0, <1>2, WaitEffect DEF MonitorWaits, MonitorBusy
<1>3. CASE MonitorStep
  <2>1. MonitorBusy /\ now' = now /\ batch_now' = batch_now
    BY <1>3, MonitorCases
  <2>2. "EPOLLIN" \in batch => "EPOLLIN" \in batch'
    BY <1>3, MonitorCases DEF OnConnected, AfterWritable, FailWith, TransitionTo, HandleConnectAck,
       HandlePong, HandleDisconnect, HandleViolation, DrainDone, DrainOn, DrainFailed, TickPing,
       TickNoPing, CheckOpening, CheckLive, CheckPassed, CheckFailed
  <2> QED BY <1>0, <2>1, <2>2 DEF MonitorWaits
<1>4. CASE SimSteps
  BY <1>4, SimFrames DEF SimFrame, reactor, MonitorWaits, MonitorBusy
<1> QED BY <1>1, <1>2, <1>3, <1>4 DEF SystemNext, SimSteps

\* A client not accepted yet stays so until the batch that accepts it.
LEMMA UnacceptedStep ==
  ASSUME BaseInv, LinkInv, Unaccepted, SystemNext
  PROVE  Unaccepted'
<1>0. now \in Nat /\ client.state \in {"none", "kHandshaking", "kHealthy"}
  BY DEF BaseInv, TypeSim, TypeInv, TypeOK, TypeReactor, LinkInv
<1>1. CASE SystemAdvance
  BY <1>1, AdvanceEffect DEF Unaccepted, responder, SimBusy
<1>2. CASE SystemEpollWait
  BY <1>2, WaitEffect DEF Unaccepted, responder
<1>3. CASE MonitorStep
  BY <1>3, MonitorCases DEF Unaccepted, responder
<1>4. CASE SimEpollWait
  <2>1. client.state = "none" => SimReady = {"accept"}
    BY DEF SimReady
  <2> QED BY <1>4, <2>1 DEF SimEpollWait, Unaccepted, vars
<1>5. CASE SimAccept
  BY <1>5 DEF SimAccept, Unaccepted
<1>6. CASE SimOnReadable
  BY <1>6 DEF SimOnReadable, Unaccepted
<1>7. CASE SimConnectHello
  BY <1>7 DEF SimConnectHello, Handled, Unaccepted
<1>8. CASE SimPing
  BY <1>8 DEF SimPing, Handled, Unaccepted, SimPinged
<1>9. CASE SimTick
  <2>1. client.state = "none" => ~SimTimedOut
    BY DEF SimTimedOut
  <2>2. client'.state = "none" => client.state = "none"
    BY <1>0, <1>9 DEF SimTick, BaseInv, TypeSim
  <2>3. client.state = "none" => sim_batch' = sim_batch \ {"timer"}
    BY <1>9, <2>1 DEF SimTick
  <2> QED BY <1>9, <2>2, <2>3 DEF SimTick, Unaccepted
<1> QED BY <1>1, <1>2, <1>3, <1>4, <1>5, <1>6, <1>7, <1>8, <1>9 DEF SystemNext

\* As long as no handler fails the connection and the simulator keeps the
\* client, the socket stays open and nothing is left to write.
LEMMA LinkStep ==
  ASSUME Prompt, BaseInv, LinkInv, SystemNext, state' # "kFailed", client'.state # "kFailed",
         state = "kConnecting" => Dialing
  PROVE  LinkInv'
<1>0. now \in Nat /\ client.state \in {"none", "kHandshaking", "kHealthy"}
  BY DEF BaseInv, TypeSim, TypeInv, TypeOK, TypeReactor, LinkInv
<1>1. CASE SystemAdvance
  BY <1>1, AdvanceEffect DEF LinkInv, responder, reactor, slot, buffers, peer
<1>2. CASE SystemEpollWait
  BY <1>2, WaitEffect DEF LinkInv, responder, slot, buffers, peer
<1>3. CASE MonitorStep
  <2>0. UNCHANGED responder
    BY <1>3, MonitorCases
  <2>1. CASE OnConnected
    BY <2>0, <2>1, ConnectedEffect DEF LinkInv, responder, slot, OnConnected
  <2>2. CASE OnReadable
    BY <2>0, <2>2 DEF LinkInv, responder, OnReadable, FailWith, TransitionTo, ConnEvents
  <2>3. CASE HandleConnectAck \/ HandlePong \/ HandleDisconnect \/ HandleViolation
    BY <2>0, <2>3 DEF LinkInv, responder, HandleConnectAck, HandlePong, HandleDisconnect,
       HandleViolation, Draining, DrainOn, DrainFailed, DrainFrame, FailWith, TransitionTo,
       peer, buffers
  <2>4. CASE DrainDone
    BY <2>0, <2>4 DEF LinkInv, responder, DrainDone, DrainFrame, FailWith, TransitionTo,
       peer, buffers
  <2>5. CASE TickPing
    <3>1. PICK o \in QueueOutcomes(Msg("kPing", next_sequence, now)) : write_pending' = o.pending
      BY <2>5 DEF TickPing
    <3>2. Msg("kPing", next_sequence, now) \in Message
      BY <1>0, MsgType DEF BaseInv, TypeInv, TypeOK, TypeState
    <3>3. write_pending' = <<>>
      BY <3>1, <3>2, SendOutcome
    <3>4. state' = state
      BY <2>5 DEF TickPing, FailWith, TransitionTo
    <3> QED BY <2>0, <2>5, <3>3, <3>4 DEF LinkInv, TickPing, TickStart, responder
  <2>6. CASE TickNoPing
    BY <2>0, <2>6 DEF LinkInv, TickNoPing, responder, slot, buffers, peer
  <2>7. CASE CheckOpening \/ CheckLive
    BY <2>0, <2>7 DEF LinkInv, CheckOpening, CheckLive, CheckPassed, CheckFailed, FailWith,
       TransitionTo, CheckFrame, responder, buffers, peer, Live, Opening
  <2> QED BY <1>3, <2>1, <2>2, <2>3, <2>4, <2>5, <2>6, <2>7, MonitorCases
<1>4. CASE SimSteps
  <2>1. UNCHANGED <<reactor, slot, state, buffers>>
    BY <1>4, SimFrames DEF SimFrame
  <2>2. link' = link
    BY <1>4 DEF SimSteps, SimEpollWait, SimAccept, SimOnReadable, SimConnectHello, SimPing, SimTick,
       Handled, vars, peer, BaseInv, TypeSim
  <2>3. "accept" \in sim_batch' => client'.state = "none"
    <3>1. CASE SimEpollWait
      BY <3>1 DEF SimEpollWait, SimReady
    <3>2. CASE SimAccept
      BY <3>2 DEF SimAccept
    <3>3. CASE SimOnReadable
      BY <3>3 DEF SimOnReadable, LinkInv
    <3>4. CASE SimConnectHello
      BY <3>4 DEF SimConnectHello, Handled, LinkInv
    <3>5. CASE SimPing
      BY <3>5 DEF SimPing, Handled, LinkInv
    <3>6. CASE SimTick
      BY <3>6 DEF SimTick, LinkInv
    <3> QED BY <1>4, <3>1, <3>2, <3>3, <3>4, <3>5, <3>6 DEF SimSteps
  <2> QED BY <2>1, <2>2, <2>3 DEF LinkInv, reactor, slot, buffers
<1> QED BY <1>1, <1>2, <1>3, <1>4 DEF SystemNext, SimSteps

\* Before the session begins nothing counts.
LEMMA UnusedStep ==
  ASSUME BaseInv, LinkInv, Unused, SystemNext, state \notin Live, ~SimPing, ~HandlePong
  PROVE  Unused'
<1>1. CASE SystemAdvance
  BY <1>1, AdvanceEffect DEF Unused, responder, slot, liveness, acks
<1>2. CASE SystemEpollWait
  BY <1>2, WaitEffect DEF Unused, responder, slot, liveness, acks
<1>3. CASE MonitorStep
  <2>0. UNCHANGED responder
    BY <1>3, MonitorCases
  <2>1. UNCHANGED <<next_sequence, next_ping_due, consecutive_missed, acks>>
    BY <1>3, MonitorCases DEF OnConnected, OnReadable, HandleConnectAck, HandleDisconnect,
       HandleViolation, DrainDone, DrainFrame, DrainFailed, TickPing, TickNoPing, CheckOpening,
       CheckLive, CheckFrame, liveness, slot
  <2> QED BY <2>0, <2>1 DEF Unused, responder, acks
<1>4. CASE SimSteps
  <2>1. UNCHANGED <<next_sequence, slot, liveness, acks>>
    BY <1>4, SimFrames DEF SimFrame
  <2>2. drops' = drops
    BY <1>4 DEF SimSteps, SimEpollWait, SimAccept, SimOnReadable, SimConnectHello, SimTick
  <2> QED BY <2>1, <2>2 DEF Unused, slot, liveness, acks
<1> QED BY <1>1, <1>2, <1>3, <1>4 DEF SystemNext, SimSteps

\* The simulator does not give up a client that has had less than a timeout.
LEMMA TickKeeps ==
  ASSUME BaseInv, SimTick, ~SimTimedOut
  PROVE  /\ sim_batch' = sim_batch \ {"timer"} /\ SimBusy
         /\ UNCHANGED <<vars, client, reading, sim_batch_now, drops>>
<1>1. UNCHANGED <<vars, client, reading, sim_batch_now, drops>>
  BY DEF SimTick, vars, peer
<1> QED BY <1>1 DEF SimTick, SimBusy

\* connect() completes in the monitor's first batch.
LEMMA DialingStep ==
  ASSUME Prompt, BaseInv, LinkInv, Unaccepted, Unused, Dialing, SystemNext
  PROVE  (Dialing' \/ Greeting') /\ ~SimPing /\ ~HandlePong
<1>0. /\ now \in Nat /\ batch_now \in Nat /\ tick_now \in Nat /\ sim_batch_now \in Nat
      /\ state_entered \in Nat /\ client.state_entered \in Nat
      /\ sim_batch_now <= now /\ tick_now <= now /\ TypeOK
      /\ client.state \in {"none", "kHandshaking"}
  BY DEF BaseInv, TypeSim, TypeInv, TypeOK, TypeReactor, TypeState, BatchInv, DetectionInv,
     ClockInv, Dialing
<1>a. /\ BatchGap \in Nat /\ heartbeat_timeout \in Nat /\ 5 * BatchGap < heartbeat_timeout
      /\ SimTimeout \in Nat /\ 5 * BatchGap < SimTimeout
  BY <1>0, Room
<1>b. now <= BatchGap
  BY <1>0, <1>a DEF Dialing, BaseInv, BatchInv, MonitorBusy
<1>c. ~SimPing /\ ~SimConnectHello
  BY DEF Dialing, SimPing, SimConnectHello
<1>1. CASE SystemAdvance
  <2>1. MonitorBusy
    BY <1>1, AdvanceEffect DEF Dialing
  <2> QED BY <1>1, <1>c, <2>1, AdvanceEffect
          DEF Dialing, MonitorBusy, SystemAdvance, Advance, HandlePong, Draining, responder,
              reactor,
              peer, buffers
<1>2. CASE SystemEpollWait
  <2>1. now = 0
    BY <1>2, WaitEffect DEF Dialing, MonitorBusy
  <2> QED BY <1>2, <1>c, <2>1, WaitEffect
          DEF Dialing, MonitorBusy, HandlePong, Draining, responder, peer, buffers
<1>3. CASE MonitorStep
  <2>0. UNCHANGED responder
    BY <1>3, MonitorCases
  <2>1. CASE OnConnected
    <3>1. /\ state' = "kHandshaking" /\ pc' = "loop" /\ batch' \subseteq batch /\ now' = now
          /\ IsHello(delivered') /\ inbox' = inbox /\ read_accum' = read_accum
      BY <2>1, ConnectedEffect
    <3>2. reading' = {} /\ client' = client /\ sim_batch_now' = sim_batch_now
      BY <2>0 DEF responder, Dialing
    <3>3. SimWaits(BatchGap)'
      BY <1>0, <1>a, <1>b, <3>1, <3>2 DEF SimWaits
    <3> QED BY <1>c, <3>1, <3>2, <3>3 DEF Dialing, Greeting, HandlePong, Draining
  <2>2. CASE TickNoPing
    <3>1. /\ batch' = batch \ {"timer"} /\ pc' = "check" /\ pc = "loop"
          /\ UNCHANGED <<now, batch_now, state, inbox, read_accum, delivered>>
      BY <2>2 DEF TickNoPing, TickStart, peer, buffers
    <3>2. MonitorBusy /\ MonitorBusy'
      BY <1>3, <3>1, MonitorCases DEF MonitorBusy
    <3>3. reading' = reading /\ client' = client
      BY <2>0 DEF responder
    <3> QED BY <1>c, <3>1, <3>2, <3>3 DEF Dialing, HandlePong, Draining
  <2>3. CASE CheckOpening
    <3>1. ~(tick_now - state_entered >= heartbeat_timeout)
      BY <1>0, <1>a, <1>b
    <3>2. /\ pc' = "loop" /\ pc = "check"
          /\ UNCHANGED <<now, batch, batch_now, state, inbox, read_accum, delivered>>
      BY <2>3, <3>1 DEF CheckOpening, CheckPassed, CheckFrame, peer, buffers
    <3> QED BY <1>c, <2>0, <3>2 DEF Dialing, MonitorBusy, HandlePong, Draining, responder
  <2>4. ~OnReadable /\ ~HandleConnectAck /\ ~HandlePong /\ ~HandleDisconnect /\ ~HandleViolation
        /\ ~DrainDone /\ ~TickPing /\ ~CheckLive
    BY DEF OnReadable, ReadDue, HandleConnectAck, HandlePong, HandleDisconnect, HandleViolation,
       Draining, DrainDone, TickPing, CheckLive, Dialing, LinkInv, Live
  <2> QED BY <1>3, <2>1, <2>2, <2>3, <2>4, MonitorCases
<1>4. CASE SimSteps
  <2>0. UNCHANGED <<now, reactor, state, buffers>>
    BY <1>4, SimFrames DEF SimFrame
  <2>1. CASE SimTick
    <3>1. ~SimTimedOut
      BY <1>0, <1>a, <1>b DEF SimTimedOut
    <3> QED BY <1>c, <2>1, <3>1, TickKeeps DEF Dialing, MonitorBusy, vars, reactor, peer, buffers,
               HandlePong, Draining
  <2>2. CASE SimEpollWait \/ SimAccept \/ SimOnReadable
    <3>1. inbox' = inbox /\ delivered' = {} /\ reading' = {}
      BY <2>2 DEF SimEpollWait, SimAccept, SimOnReadable, vars, peer, Dialing
    <3>2. client'.state \in {"none", "kHandshaking"}
      BY <1>0, <2>2 DEF SimEpollWait, SimAccept, SimOnReadable
    <3> QED BY <1>c, <2>0, <3>1, <3>2 DEF Dialing, MonitorBusy, reactor, buffers, HandlePong,
                                          Draining
  <2> QED BY <1>4, <1>c, <2>1, <2>2 DEF SimSteps
<1> QED BY <1>1, <1>2, <1>3, <1>4 DEF SystemNext, SimSteps

\* While the handshake is under way the monitor only reads and ticks.
LEMMA HandshakeSteps ==
  ASSUME BaseInv, LinkInv, state = "kHandshaking", pc # "drain", MonitorStep, ~OnReadable,
         tick_now - state_entered < heartbeat_timeout
  PROVE  /\ batch' \subseteq batch /\ pc' \in {"loop", "check"}
         /\ UNCHANGED <<now, batch_now, state, inbox, read_accum, delivered, responder>>
<1>0. tick_now \in Nat /\ state_entered \in Nat /\ heartbeat_timeout \in Nat
  BY TimingAssumption DEF BaseInv, TypeInv, TypeOK, TypeReactor, TypeState
<1>1. TickNoPing \/ CheckOpening
  <2>1. ~OnConnected /\ ~HandleConnectAck /\ ~HandlePong /\ ~HandleDisconnect /\ ~HandleViolation
        /\ ~DrainDone /\ ~TickPing /\ ~CheckLive
    BY DEF OnConnected, HandleConnectAck, HandlePong, HandleDisconnect, HandleViolation,
       Draining, DrainDone, TickPing, CheckLive, Live
  <2> QED BY <2>1, MonitorCases
<1>2. UNCHANGED <<now, batch_now, responder>>
  BY MonitorCases
<1>3. CASE TickNoPing
  BY <1>2, <1>3 DEF TickNoPing, peer, buffers
<1>4. CASE CheckOpening
  BY <1>0, <1>2, <1>4 DEF CheckOpening, CheckPassed, CheckFrame, peer, buffers
<1> QED BY <1>1, <1>3, <1>4

\* The CONNECT_HELLO is answered by the third batch.
LEMMA GreetingStep ==
  ASSUME Prompt, BaseInv, LinkInv, Unaccepted, Greeting, SystemNext
  PROVE  (Greeting' \/ Acking') /\ ~SimPing /\ ~HandlePong
<1>0. /\ now \in Nat /\ batch_now \in Nat /\ tick_now \in Nat /\ sim_batch_now \in Nat
      /\ state_entered \in Nat /\ client.state_entered \in Nat
      /\ sim_batch_now <= now /\ tick_now <= now /\ batch_now <= now /\ TypeOK
      /\ client.state \in {"none", "kHandshaking"}
      /\ SimBusy => now <= sim_batch_now + BatchGap
  BY DEF BaseInv, TypeSim, TypeInv, TypeOK, TypeReactor, TypeState, BatchInv, DetectionInv,
     ClockInv, Greeting
<1>a. /\ BatchGap \in Nat /\ heartbeat_timeout \in Nat /\ 5 * BatchGap < heartbeat_timeout
      /\ SimTimeout \in Nat /\ 5 * BatchGap < SimTimeout
  BY <1>0, Room
<1>b. now <= 3 * BatchGap
  <2>1. IsHello(reading) => SimBusy
    BY DEF IsHello, SimBusy
  <2>2. "EPOLLIN" \in sim_batch => SimBusy
    BY DEF SimBusy
  <2> QED BY <1>0, <1>a, <2>1, <2>2 DEF Greeting, SimWaits
<1>c. ~SimPing /\ ~HandlePong
  <2>1. \A m \in reading : m.type # "kPing"
    BY DEF Greeting, IsHello
  <2> QED BY <2>1 DEF SimPing, HandlePong, Draining, Greeting
<1>d. client'.state # "kFailed"
  <2>1. ~SimTimedOut
    BY <1>0, <1>a, <1>b DEF SimTimedOut
  <2>2. CASE SystemAdvance \/ SystemEpollWait \/ MonitorStep
    BY <1>0, <2>2, MonitorSteps DEF responder
  <2>3. CASE SimSteps
    BY <1>0, <1>c, <2>1, <2>3 DEF SimSteps, SimEpollWait, SimAccept, SimOnReadable,
                                  SimConnectHello, SimTick
  <2> QED BY <2>2, <2>3 DEF SystemNext, SimSteps
<1>e. delivered # {} /\ SimWaits(BatchGap) /\ ~SimOnReadable => SimWaits(BatchGap)'
  BY <1>a, <1>d, SimWaitsStep
<1>1. CASE SystemAdvance \/ SystemEpollWait \/ MonitorStep
  <2>1. /\ state' = "kHandshaking" /\ "EPOLLIN" \notin batch' /\ pc' # "drain"
        /\ inbox' = <<>> /\ read_accum' = <<>>
        /\ delivered' = delivered /\ UNCHANGED responder
    <3>1. CASE SystemAdvance
      BY <3>1, AdvanceEffect DEF Greeting, reactor, buffers, peer
    <3>2. CASE SystemEpollWait
      BY <3>2, WaitEffect DEF Greeting, buffers, peer
    <3>3. CASE MonitorStep
      <4>1. ~OnReadable
        BY DEF OnReadable, ReadDue, Greeting, LinkInv
      <4>2. tick_now - state_entered < heartbeat_timeout
        BY <1>0, <1>a, <1>b
      <4> QED BY <3>3, <4>1, <4>2, HandshakeSteps DEF Greeting
    <3> QED BY <1>1, <3>1, <3>2, <3>3
  <2>2. ~SimOnReadable
    BY <2>1 DEF responder, SimOnReadable
  <2>3. client'.state \in {"none", "kHandshaking"} /\ reading' = reading
          /\ sim_batch_now' = sim_batch_now
    BY <1>0, <2>1 DEF responder
  <2>4. IsHello(delivered) => delivered # {}
    BY DEF IsHello
  <2>5. IsHello(delivered)' = IsHello(delivered) /\ IsHello(reading)' = IsHello(reading)
    BY <2>1, <2>3 DEF IsHello
  <2> QED BY <1>c, <1>e, <2>1, <2>2, <2>3, <2>4, <2>5 DEF Greeting
<1>2. CASE SimSteps
  <2>0. UNCHANGED <<now, pc, batch, batch_now, state, read_accum>>
    BY <1>2, SimFrames DEF SimFrame, reactor, buffers
  <2>1. CASE SimEpollWait \/ SimAccept \/ SimTick
    <3>1. reading = {} /\ reading' = {} /\ delivered' = delivered /\ inbox' = inbox
      BY <2>1 DEF SimEpollWait, SimAccept, SimTick, SimIdle, vars, peer
    <3>2. client'.state \in {"none", "kHandshaking"}
      BY <1>0, <1>d, <2>1 DEF SimEpollWait, SimAccept, SimTick, BaseInv, TypeSim
    <3>3. IsHello(delivered) /\ delivered # {} /\ SimWaits(BatchGap)
      BY <3>1 DEF Greeting, IsHello
    <3>4. ~SimOnReadable
      BY <3>1, <3>3 DEF SimOnReadable
    <3>5. SimWaits(BatchGap)' /\ IsHello(delivered)'
      BY <1>e, <3>1, <3>3, <3>4 DEF IsHello
    <3> QED BY <1>c, <2>0, <3>1, <3>2, <3>5 DEF Greeting
  <2>2. CASE SimOnReadable
    <3>1. /\ reading = {} /\ SimBusy /\ reading' = delivered /\ delivered' = {}
          /\ UNCHANGED <<inbox, client, sim_batch_now>>
      BY <2>2 DEF SimOnReadable, SimIdle, SimBusy
    <3>2. IsHello(delivered) /\ SimWaits(BatchGap)
      BY <3>1 DEF Greeting, IsHello
    <3>3. sim_batch_now <= 2 * BatchGap
      BY <1>0, <1>a, <3>1, <3>2 DEF SimWaits
    <3>4. IsHello(reading)'
      BY <3>1, <3>2 DEF IsHello
    <3> QED BY <1>c, <2>0, <3>1, <3>3, <3>4 DEF Greeting
  <2>3. CASE SimConnectHello
    <3>1. PICK m \in reading : Handled(m)
      BY <2>3 DEF SimConnectHello
    <3>2. reading # {} /\ IsHello(reading) /\ delivered = {} /\ sim_batch_now <= 2 * BatchGap
      BY <3>1 DEF Greeting
    <3>3. reading' = {} /\ delivered' = {} /\ sim_batch_now' = sim_batch_now
      BY <3>1, <3>2 DEF Handled, IsHello
    <3>4. now <= sim_batch_now + BatchGap
      BY <1>0, <3>2 DEF SimBusy
    <3>5. /\ client'.state = "kHealthy" /\ client'.last_liveness = sim_batch_now
          /\ inbox' = Append(<<>>, Msg("kConnectAck", 0, sim_batch_now))
      BY <2>3 DEF SimConnectHello, Reply, Greeting
    <3>6. IsAck(inbox)'
      BY <3>5 DEF IsAck, Msg
    <3>7. PICK c \in Nat : c = sim_batch_now
      BY <1>0
    <3>8. MonitorWaits(c + BatchGap)'
      BY <1>0, <1>a, <2>0, <3>4, <3>7 DEF MonitorWaits
    <3>9. MonitorWaits(client.last_liveness + BatchGap)'
      BY <3>5, <3>7, <3>8 DEF MonitorWaits, MonitorBusy
    <3> QED BY <1>c, <2>0, <3>2, <3>3, <3>5, <3>6, <3>9 DEF Greeting, Acking
  <2> QED BY <1>2, <1>c, <2>1, <2>2, <2>3 DEF SimSteps
<1> QED BY <1>1, <1>2 DEF SystemNext, SimSteps

\* The CONNECT_ACK begins a session in which nothing was sent yet.
LEMMA SessionBegins ==
  ASSUME Prompt, BaseInv, LinkInv, Unused, Acking, HandleConnectAck, UNCHANGED responder,
         NEW u \in Nat, u = tick_now
  PROVE  Session(<<u>>, <<>>)'
<1>0. /\ now \in Nat /\ batch_now \in Nat /\ tick_now <= now /\ TypeOK
      /\ client.last_liveness \in Nat
      /\ MonitorBusy => now <= batch_now + BatchGap
  BY DEF BaseInv, TypeSim, TypeInv, TypeOK, TypeReactor, TypeState, BatchInv, DetectionInv, ClockInv
<1>a. BatchGap \in Nat /\ AckedWindow \in Nat
  BY <1>0, Room, LimitAssumption
<1>1. pc = "drain" /\ read_accum # <<>>
  BY DEF HandleConnectAck, Draining
<1>2. IsAck(read_accum) /\ inbox = <<>> /\ batch_now <= client.last_liveness + 2 * BatchGap
  BY <1>1 DEF Acking
<1>3. read_accum[1].feed_id = "own" /\ Tail(read_accum) = <<>> /\ Head(read_accum) = read_accum[1]
  <2>1. read_accum \in Seq(Message) /\ Len(read_accum) = 1
    BY <1>0, <1>2 DEF TypeOK, TypeBuffers, IsAck
  <2>2. read_accum # <<>>
    BY <2>1
  <2>3. Tail(read_accum) \in Seq(Message) /\ Len(Tail(read_accum)) = 0
    BY <2>1, <2>2, HeadTailProperties
  <2>4. Tail(read_accum) = <<>>
    BY <2>3, EmptySeq
  <2>5. read_accum[1].feed_id = "own" /\ Head(read_accum) = read_accum[1]
    BY <1>2, <2>1 DEF IsAck
  <2> QED BY <2>4, <2>5
<1>4. /\ state' = "kHealthy" /\ baseline' = batch_now /\ inherited' = 0 /\ consecutive_missed' = 0
      /\ read_accum' = <<>> /\ pc' = "drain" /\ batch' = batch
      /\ UNCHANGED <<now, batch_now, tick_now, next_ping_due, next_sequence, acks, inbox,
                     delivered>>
  BY <1>1, <1>3 DEF HandleConnectAck, DrainOn, DrainFrame, TransitionTo, Acking, Unused, peer
<1>5. now <= batch_now + BatchGap
  BY <1>0, <1>1 DEF MonitorBusy
<1>6. Sched(<<u>>)'
  BY <1>0, <1>4 DEF Sched, Unused
<1>7. Answers(<<>>)'
  BY DEF Answers
<1>8. Pings(<<u>>, <<>>)'
  <2>1. HandledPings(<<>>)' = 0
    BY DEF HandledPings, responder, Unused
  <2>2. next_sequence' = 0 /\ reading' = {} /\ delivered' = {}
    BY <1>4 DEF Unused, Acking, responder
  <2>3. client' = client
    BY DEF responder
  <2>4. <<u>>[1] <= client'.last_liveness + 3 * BatchGap
    BY <1>0, <1>a, <1>2, <1>5, <2>3
  <2>5. 0 .. 0 - 1 = {}
    OBVIOUS
  <2>6. 0 \in 0 .. 0
    OBVIOUS
  <2>7. reading' = {Ping(<<u>>, q) : q \in 0 .. 0 - 1}
          /\ delivered' = {Ping(<<u>>, q) : q \in 0 .. 0 - 1}
    BY <2>2, <2>5
  <2> QED BY <2>1, <2>2, <2>4, <2>6, <2>7 DEF Pings
<1>9. Pongs(<<u>>, <<>>)'
  BY <1>1, <1>2, <1>4 DEF Pongs, Unused, acks, LinkInv
<1>10. Evidence(<<u>>, <<>>)'
  <2>1. ack_log' = <<>> /\ acked_count' = 0 /\ LastAnswer(<<>>)' = 1
    BY <1>4 DEF acks, Unused, LastAnswer
  <2>2. \A i \in 0 .. AckedWindow - 1 : acked_sequences'[i] <= 0
    BY <1>4 DEF acks, Unused
  <2>3. <<u>>[1] <= baseline' + BatchGap
    BY <1>0, <1>a, <1>4, <1>5
  <2> QED BY <2>1, <2>2, <2>3 DEF Evidence
<1>11. client'.state = "kHealthy" /\ drops' = 0
  BY DEF responder, Acking, Unused
<1> QED BY <1>4, <1>6, <1>7, <1>8, <1>9, <1>10, <1>11 DEF Session, Live

\* The CONNECT_ACK is handled by the fifth batch.
LEMMA AckingStep ==
  ASSUME Prompt, BaseInv, LinkInv, Unaccepted, Unused, Acking, SystemNext
  PROVE  /\ \/ Acking'
            \/ \E sent \in Seq(Nat), answered \in Seq(Nat) : Session(sent, answered)'
         /\ ~SimPing /\ ~HandlePong
<1>0. /\ now \in Nat /\ batch_now \in Nat /\ tick_now \in Nat
      /\ state_entered \in Nat /\ tick_now <= now /\ TypeOK
      /\ client.last_liveness \in Nat
      /\ MonitorBusy => now <= batch_now + BatchGap
  BY DEF BaseInv, TypeSim, TypeInv, TypeOK, TypeReactor, TypeState, BatchInv, DetectionInv, ClockInv
<1>a. /\ BatchGap \in Nat /\ heartbeat_timeout \in Nat /\ 5 * BatchGap < heartbeat_timeout
      /\ SimTimeout \in Nat /\ 5 * BatchGap < SimTimeout
      /\ MaxReadAccum \in Nat /\ MaxReadAccum >= 1
  BY <1>0, Room, LimitAssumption
<1>p. PICK c \in Nat : c = client.last_liveness
  BY <1>0
<1>b. now <= c + 3 * BatchGap /\ now <= 5 * BatchGap
  <2>1. "EPOLLIN" \in batch \/ pc = "drain" => MonitorBusy
    BY DEF MonitorBusy
  <2>2. c <= 2 * BatchGap
    BY <1>p DEF Acking
  <2>3. now <= c + 3 * BatchGap
    BY <1>0, <1>a, <1>p, <2>1 DEF Acking, MonitorWaits
  <2> QED BY <1>0, <1>a, <2>2, <2>3
<1>c. ~SimPing /\ ~SimConnectHello /\ ~SimAccept
  BY DEF SimPing, SimConnectHello, Acking, SimAccept, LinkInv
<1>d. /\ IsAck(inbox) => inbox # <<>>
      /\ IsAck(read_accum) => /\ read_accum # <<>>
                              /\ Head(read_accum).type = "kConnectAck"
      /\ IsAck(inbox) => <<>> \o inbox = inbox
  <2>1. read_accum \in Seq(Message) /\ inbox \in Seq(Message)
    BY <1>0 DEF TypeOK, TypeBuffers, TypePeer
  <2> QED BY <2>1 DEF IsAck
<1>e. ~HandlePong
  BY <1>d DEF HandlePong, Draining, Acking
<1>f. inbox # <<>> /\ MonitorWaits(c + BatchGap) /\ ~OnReadable /\ state' # "kFailed"
        => MonitorWaits(c + BatchGap)'
  BY <1>a, MonitorWaitsStep
<1>1. CASE pc # "drain" /\ ~SimSteps
  <2>0. IsAck(inbox) /\ inbox # <<>> /\ read_accum = <<>> /\ MonitorWaits(c + BatchGap)
    BY <1>1, <1>d, <1>p DEF Acking
  <2>1. UNCHANGED responder
    BY <1>1, MonitorSteps DEF SystemNext, SimSteps
  <2>2. CASE OnReadable
    <3>1. ~(Len(read_accum) + Len(inbox) > MaxReadAccum)
      BY <1>a, <2>0 DEF IsAck
    <3>2. /\ read_accum' = inbox /\ inbox' = <<>> /\ pc' = "drain"
          /\ UNCHANGED <<state, batch_now, delivered>>
      BY <1>d, <2>0, <2>2, <3>1 DEF OnReadable
    <3>3. batch_now <= c + 2 * BatchGap
      <4>1. MonitorBusy
        BY <2>2 DEF OnReadable, ReadDue, MonitorBusy
      <4> QED BY <1>0, <1>a, <2>0, <4>1 DEF MonitorWaits
    <3>4. IsAck(read_accum)'
      BY <2>0, <3>2 DEF IsAck
    <3>5. client' = client /\ reading' = reading
      BY <2>1 DEF responder
    <3> QED BY <1>c, <1>e, <1>p, <3>2, <3>3, <3>4, <3>5 DEF Acking
  <2>3. CASE ~OnReadable
    <3>1. /\ state' = "kHandshaking" /\ pc' # "drain"
          /\ inbox' = inbox /\ read_accum' = <<>> /\ delivered' = delivered
      <4>1. CASE SystemAdvance
        BY <1>1, <2>0, <4>1, AdvanceEffect DEF Acking, reactor, buffers, peer
      <4>2. CASE SystemEpollWait
        BY <1>1, <2>0, <4>2, WaitEffect DEF Acking, buffers, peer
      <4>3. CASE MonitorStep
        <5>1. tick_now - state_entered < heartbeat_timeout
          BY <1>0, <1>a, <1>b
        <5> QED BY <1>1, <2>0, <2>3, <4>3, <5>1, HandshakeSteps DEF Acking
      <4> QED BY <1>1, <4>1, <4>2, <4>3 DEF SystemNext, SimSteps
    <3>2. MonitorWaits(c + BatchGap)'
      BY <1>f, <2>0, <2>3, <3>1
    <3>3. client' = client /\ reading' = reading
      BY <2>1 DEF responder
    <3>4. MonitorWaits(client.last_liveness + BatchGap)'
      BY <1>p, <3>2, <3>3 DEF MonitorWaits, MonitorBusy
    <3>5. IsAck(inbox)'
      BY <2>0, <3>1 DEF IsAck
    <3> QED BY <1>c, <1>e, <3>1, <3>3, <3>4, <3>5 DEF Acking
  <2> QED BY <2>2, <2>3
<1>2. CASE pc = "drain" /\ ~SimSteps
  <2>0. /\ IsAck(read_accum) /\ read_accum # <<>> /\ inbox = <<>>
        /\ Head(read_accum).type = "kConnectAck"
    BY <1>2, <1>d DEF Acking
  <2>1. UNCHANGED responder
    BY <1>2, MonitorSteps DEF SystemNext, SimSteps
  <2>2. CASE SystemAdvance
    <3>1. /\ UNCHANGED <<pc, batch_now, state, inbox, read_accum, delivered>>
      BY <2>2, AdvanceEffect DEF reactor, buffers, peer
    <3>2. IsAck(read_accum)'
      BY <2>0, <3>1 DEF IsAck
    <3>3. client' = client /\ reading' = reading
      BY <2>1 DEF responder
    <3> QED BY <1>2, <1>c, <1>e, <2>0, <3>1, <3>2, <3>3 DEF Acking
  <2>3. CASE MonitorStep
    <3>1. HandleConnectAck
      <4>1. ~OnConnected /\ ~OnReadable /\ ~HandleDisconnect /\ ~HandleViolation /\ ~DrainDone
            /\ ~TickPing /\ ~TickNoPing /\ ~CheckOpening /\ ~CheckLive
        BY <1>2, <2>0 DEF OnConnected, OnReadable, ReadDue, HandleDisconnect, HandleViolation,
           Draining, DrainDone, TickPing, TickNoPing, TickStart, CheckOpening, CheckLive
      <4> QED BY <1>e, <2>3, <4>1, MonitorCases
    <3>2. PICK u \in Nat : u = tick_now
      BY <1>0
    <3>3. Session(<<u>>, <<>>)'
      BY <2>1, <3>1, <3>2, SessionBegins
    <3>4. <<u>> \in Seq(Nat) /\ <<>> \in Seq(Nat)
      OBVIOUS
    <3> QED BY <1>c, <1>e, <3>3, <3>4
  <2>4. ~SystemEpollWait
    BY <1>2 DEF SystemEpollWait, EpollWait
  <2> QED BY <1>2, <2>2, <2>3, <2>4 DEF SystemNext, SimSteps
<1>3. CASE SimSteps
  <2>0. UNCHANGED <<now, pc, batch, batch_now, state, read_accum>>
    BY <1>3, SimFrames DEF SimFrame, reactor, buffers
  <2>1. ~SimTimedOut
    BY <1>0, <1>a, <1>b, <1>p DEF SimTimedOut, Acking
  <2>2. inbox' = inbox /\ delivered' = {} /\ reading' = {} /\ client' = client
    <3>1. CASE SimTick
      BY <2>1, <3>1, TickKeeps DEF vars, peer, Acking
    <3>2. CASE SimEpollWait \/ SimOnReadable
      BY <3>2 DEF SimEpollWait, SimOnReadable, vars, peer, Acking
    <3> QED BY <1>3, <1>c, <3>1, <3>2 DEF SimSteps
  <2>3. IsAck(inbox)' = IsAck(inbox) /\ IsAck(read_accum)' = IsAck(read_accum)
    BY <2>0, <2>2 DEF IsAck
  <2>4. MonitorWaits(client.last_liveness + BatchGap)'
          = MonitorWaits(client.last_liveness + BatchGap)
    BY <2>0, <2>2 DEF MonitorWaits, MonitorBusy
  <2> QED BY <1>c, <1>e, <2>0, <2>2, <2>3, <2>4 DEF Acking
<1> QED BY <1>1, <1>2, <1>3 DEF SimSteps

-----------------------------------------------------------------------------
(* The session: how long nothing may be heard                              *)

\* The numbers of a session.
LEMMA SessionTypes ==
  ASSUME Prompt, BaseInv, NEW sent \in Seq(Nat), NEW answered \in Seq(Nat),
         Session(sent, answered)
  PROVE  /\ next_sequence \in Nat /\ drops \in Nat /\ now \in Nat /\ tick_now \in Nat
         /\ batch_now \in Nat /\ sim_batch_now \in Nat /\ baseline \in Nat
         /\ client.last_liveness \in Nat /\ consecutive_missed \in Nat
         /\ Len(sent) = next_sequence + 1
         /\ \A i \in 1 .. next_sequence + 1 : sent[i] \in Nat
         /\ HandledPings(answered) \in 0 .. next_sequence
         /\ HandledPings(answered) \in Nat /\ HandledPings(answered) <= next_sequence
         /\ HandledPings(answered) = drops + Len(answered)
         /\ Len(answered) \in Nat /\ Len(ack_log) \in Nat
         /\ Len(read_accum) \in Nat /\ Len(inbox) \in Nat
         /\ Len(answered) = Len(ack_log) + Len(read_accum) + Len(inbox)
         /\ \A i \in 1 .. Len(answered) : answered[i] \in Nat
                 /\ answered[i] < HandledPings(answered)
         /\ \A i \in 1 .. Len(answered) : sent[answered[i] + 2] \in Nat
<1>0. /\ next_sequence \in Nat /\ drops \in Nat /\ now \in Nat /\ tick_now \in Nat
      /\ batch_now \in Nat /\ sim_batch_now \in Nat /\ baseline \in Nat
      /\ client.last_liveness \in Nat /\ consecutive_missed \in Nat
      /\ Len(ack_log) \in Nat /\ Len(read_accum) \in Nat /\ Len(inbox) \in Nat
  BY DEF BaseInv, TypeInv, TypeOK, TypeReactor, TypeState, TypeSim, TypeAcks, TypeBuffers, TypePeer
<1>1. Len(sent) = next_sequence + 1 /\ Len(answered) \in Nat
  BY DEF Session, Sched
<1>2. \A i \in 1 .. next_sequence + 1 : sent[i] \in Nat
  BY <1>0, <1>1
<1>3. HandledPings(answered) = drops + Len(answered)
  BY DEF HandledPings
<1>4. PICK r \in HandledPings(answered) .. next_sequence : TRUE
  BY DEF Session, Pings
<1>5. HandledPings(answered) \in 0 .. next_sequence
  BY <1>0, <1>1, <1>3, <1>4
<1>6. Len(answered) = Len(ack_log) + Len(read_accum) + Len(inbox)
  BY DEF Session, Pongs
<1>7. \A i \in 1 .. Len(answered) : answered[i] \in Nat /\ answered[i] < HandledPings(answered)
  BY <1>1 DEF Session, Answers
<1>8. \A i \in 1 .. Len(answered) : sent[answered[i] + 2] \in Nat
  <2> SUFFICES ASSUME NEW i \in 1 .. Len(answered) PROVE sent[answered[i] + 2] \in Nat
    OBVIOUS
  <2>1. answered[i] \in Nat /\ answered[i] + 2 \in 1 .. next_sequence + 1
    BY <1>0, <1>5, <1>7, SMTT(30)
  <2> QED BY <1>2, <2>1
<1> QED BY <1>0, <1>1, <1>2, <1>3, <1>5, <1>6, <1>7, <1>8

\* PINGs d apart are sent at most d periods apart.
LEMMA Reach ==
  ASSUME Prompt, BaseInv, NEW sent \in Seq(Nat), Sched(sent),
         NEW i \in 1 .. next_sequence + 1, NEW j \in 1 .. next_sequence + 1,
         NEW d \in Nat, i <= j, j <= i + d
  PROVE  sent[j] <= sent[i] + d * Period
<1>0. /\ Period \in Nat /\ Len(sent) = next_sequence + 1 /\ next_sequence \in Nat
  BY Room DEF BaseInv, TypeInv, TypeOK, TypeState, Sched
<1>1. sent[i] \in Nat /\ sent[j] \in Nat
  BY <1>0
<1>2. (j - i) * Period <= d * Period /\ d * Period \in Nat /\ (j - i) * Period \in Int
  <2>1. j - i \in Int /\ d \in Int /\ j - i <= d
    BY <1>0
  <2>2. (j - i) * Period <= d * Period
    BY <1>0, <2>1, MoreMisses
  <2>3. (j - i) * Period \in Int /\ d * Period \in Nat
    BY <1>0, <2>1
  <2> QED BY <2>2, <2>3
<1>3. CASE i = j
  BY <1>1, <1>2, <1>3
<1>4. CASE i < j
  <2>1. sent[j] <= sent[i] + (j - i) * Period
    BY <1>0, <1>4 DEF Sched
  <2> QED BY <1>1, <1>2, <2>1
<1> QED BY <1>0, <1>3, <1>4

\* The next PING is at most one period away.
LEMMA NextPing ==
  ASSUME Prompt, BaseInv, NEW sent \in Seq(Nat), Sched(sent)
  PROVE  now <= sent[next_sequence + 1] + Period
<1>0. /\ heartbeat_interval \in Nat /\ heartbeat_interval >= 1 /\ TickGap \in Nat
      /\ Len(sent) = next_sequence + 1 /\ next_sequence \in Nat /\ now \in Nat /\ tick_now \in Nat
      /\ now <= tick_now + TickGap /\ next_ping_due \in Nat
  BY Room, SMTT(30)
     DEF BaseInv, TypeInv, TypeOK, TypeReactor, TypeState, Sched, DetectionInv, ClockInv
<1>1. sent[next_sequence + 1] \in Nat
  BY <1>0
<1>2. CASE next_sequence = 0
  <2>1. tick_now = sent[next_sequence + 1]
    BY <1>2 DEF Sched
  <2> QED BY <1>0, <1>1, <2>1 DEF Period
<1>3. CASE next_sequence > 0
  <2>1. tick_now < sent[next_sequence + 1] + heartbeat_interval
    BY <1>3 DEF Sched
  <2> QED BY <1>0, <1>1, <2>1 DEF Period
<1> QED BY <1>0, <1>2, <1>3

\* A PING is handled within two batches of its send.
LEMMA PingInFlight ==
  ASSUME Prompt, BaseInv, NEW sent \in Seq(Nat), NEW answered \in Seq(Nat),
         Session(sent, answered), HandledPings(answered) < next_sequence
  PROVE  now <= sent[HandledPings(answered) + 2] + 2 * BatchGap
<1> DEFINE h == HandledPings(answered)
<1>0. /\ h \in Nat /\ next_sequence \in Nat /\ now \in Nat /\ sim_batch_now \in Nat
        /\ BatchGap \in Nat
      /\ h < next_sequence
      /\ SimBusy => now <= sim_batch_now + BatchGap
  BY SessionTypes, SystemAssumption DEF BaseInv, BatchInv
<1>1. PICK r \in h .. next_sequence :
        /\ reading = {Ping(sent, q) : q \in h .. r - 1}
        /\ h < r => sim_batch_now <= sent[h + 2] + BatchGap
        /\ r < next_sequence => SimWaits(sent[r + 2])
  BY DEF Session, Pings
<1>4. \A i \in 1 .. next_sequence + 1 : sent[i] \in Nat
  BY SessionTypes
<1> HIDE DEF h
<1>5. sent[h + 2] \in Nat
  <2>1. h + 2 \in 1 .. next_sequence + 1
    BY <1>0
  <2> QED BY <1>4, <2>1
<1>2. CASE h < r
  <2>0. h \in h .. r - 1
    BY <1>0, <1>1, <1>2
  <2>1. Ping(sent, h) \in reading
    BY <1>1, <2>0
  <2>2. SimBusy
    BY <2>1 DEF SimBusy
  <2> QED BY <1>0, <1>1, <1>2, <1>5, <2>2 DEF h
<1>3. CASE h = r
  <2>1. SimWaits(sent[h + 2])
    BY <1>1, <1>3 DEF h
  <2>2. "EPOLLIN" \in sim_batch => SimBusy
    BY DEF SimBusy
  <2> QED BY <1>0, <1>5, <2>1, <2>2, SMTT(30) DEF h, SimWaits
<1> QED BY <1>0, <1>1, <1>2, <1>3

\* A PONG is handled within four batches of the send of its PING.
LEMMA PongInFlight ==
  ASSUME Prompt, BaseInv, NEW sent \in Seq(Nat), NEW answered \in Seq(Nat),
         Session(sent, answered), Len(ack_log) < Len(answered)
  PROVE  now <= sent[answered[Len(ack_log) + 1] + 2] + 4 * BatchGap
<1> DEFINE L == Len(ack_log)
           t == sent[answered[L + 1] + 2]
<1>0. /\ L \in Nat /\ now \in Nat /\ batch_now \in Nat /\ BatchGap \in Nat /\ t \in Nat
      /\ Len(read_accum) \in Nat /\ Len(inbox) \in Nat
      /\ Len(answered) = L + Len(read_accum) + Len(inbox)
      /\ MonitorBusy => now <= batch_now + BatchGap
  BY SessionTypes, SystemAssumption DEF BaseInv, BatchInv
<1>1. CASE read_accum # <<>>
  <2>1. MonitorBusy /\ batch_now <= t + 3 * BatchGap
    BY <1>1 DEF Session, Pongs, MonitorBusy
  <2> HIDE DEF t
  <2>2. now <= t + 4 * BatchGap
    BY <1>0, <2>1
  <2> QED BY <2>2 DEF t
<1>2. CASE read_accum = <<>>
  <2>1. Len(read_accum) = 0
    BY <1>2
  <2>2. inbox # <<>>
    BY <1>0, <2>1
  <2>3. MonitorWaits(sent[answered[L + Len(read_accum) + 1] + 2] + 2 * BatchGap)
    BY <2>2 DEF Session, Pongs
  <2>4. L + Len(read_accum) + 1 = L + 1
    BY <1>0, <2>1
  <2>5. MonitorWaits(t + 2 * BatchGap)
    BY <2>3, <2>4
  <2>6. "EPOLLIN" \in batch => MonitorBusy
    BY DEF MonitorBusy
  <2> HIDE DEF t
  <2>7. now <= t + 4 * BatchGap
    BY <1>0, <2>5, <2>6 DEF MonitorWaits
  <2> QED BY <2>7 DEF t
<1> QED BY <1>1, <1>2

\* The last evidence before what is on its way: never more than the dropped
\* replies lie between them.
LEMMA LastAnswerBounds ==
  ASSUME Prompt, BaseInv, NEW sent \in Seq(Nat), NEW answered \in Seq(Nat),
         Session(sent, answered)
  PROVE  /\ LastAnswer(answered) \in 1 .. HandledPings(answered) + 1
         /\ LastAnswer(answered) >= Len(ack_log) + 1
         /\ sent[LastAnswer(answered)] \in Nat
         /\ sent[LastAnswer(answered)] <= baseline + BatchGap
<1> DEFINE L == Len(ack_log)
<1>0. /\ L \in Nat /\ Len(answered) \in Nat /\ L <= Len(answered) /\ drops \in Nat
      /\ HandledPings(answered) \in Nat /\ HandledPings(answered) <= next_sequence
      /\ next_sequence \in Nat
  BY SessionTypes
<1>1. sent[LastAnswer(answered)] <= baseline + BatchGap
  BY DEF Session, Evidence
<1>2. /\ LastAnswer(answered) \in 1 .. HandledPings(answered) + 1
      /\ LastAnswer(answered) >= L + 1
  <2>1. CASE ack_log = <<>>
    <3>1. L = 0 /\ LastAnswer(answered) = 1
      BY <2>1 DEF LastAnswer
    <3> QED BY <1>0, <3>1
  <2>2. CASE ack_log # <<>>
    <3>1. L >= 1 /\ LastAnswer(answered) = answered[L] + 2
      BY <1>0, <2>2 DEF LastAnswer, BaseInv, TypeInv, TypeOK, TypeAcks
    <3>2. L \in 1 .. Len(answered)
      BY <1>0, <3>1
    <3>3. answered[L] \in L - 1 .. L - 1 + drops /\ answered[L] < HandledPings(answered)
      BY <3>2 DEF Session, Answers
    <3> QED BY <1>0, <3>1, <3>3, SMTT(30)
  <2> QED BY <2>1, <2>2
<1>3. LastAnswer(answered) \in 1 .. next_sequence + 1
  BY <1>0, <1>2
<1>4. sent[LastAnswer(answered)] \in Nat
  BY <1>3, SessionTypes
<1> QED BY <1>1, <1>2, <1>4

\* From the last evidence to now, over the PING that is awaited next.
LEMMA Awaited ==
  ASSUME Prompt, BaseInv, NEW sent \in Seq(Nat), Sched(sent),
         NEW l \in 1 .. next_sequence + 1, NEW j \in 1 .. next_sequence + 1,
         NEW d \in Nat, NEW x \in Nat, l <= j, j <= l + d,
         sent[l] <= baseline + BatchGap, now <= sent[j] + x
  PROVE  now <= baseline + BatchGap + x + d * Period
<1>0. /\ Period \in Nat /\ BatchGap \in Nat /\ now \in Nat /\ baseline \in Nat
      /\ Len(sent) = next_sequence + 1 /\ next_sequence \in Nat
  BY Room DEF BaseInv, TypeInv, TypeOK, TypeReactor, TypeState, Sched
<1>1. sent[l] \in Nat /\ sent[j] \in Nat
  BY <1>0
<1>2. sent[j] <= sent[l] + d * Period
  BY Reach
<1>3. d * Period \in Nat
  BY <1>0
<1> QED BY <1>0, <1>1, <1>2, <1>3

\* Answers are in order: the next one awaited comes after the last one seen.
LEMMA AnswerOrder ==
  ASSUME Prompt, BaseInv, NEW sent \in Seq(Nat), NEW answered \in Seq(Nat),
         Session(sent, answered), Len(ack_log) < Len(answered)
  PROVE  /\ answered[Len(ack_log) + 1] \in Len(ack_log) .. Len(ack_log) + drops
         /\ answered[Len(ack_log) + 1] < HandledPings(answered)
         /\ LastAnswer(answered) <= answered[Len(ack_log) + 1] + 2
<1> DEFINE L == Len(ack_log)
<1>0. L \in Nat /\ Len(answered) \in Nat /\ L < Len(answered) /\ drops \in Nat
  BY SessionTypes
<1>1. L + 1 \in 1 .. Len(answered)
  BY <1>0
<1>2. answered[L + 1] \in L + 1 - 1 .. L + 1 - 1 + drops /\ answered[L + 1] < HandledPings(answered)
  BY <1>1 DEF Session, Answers
<1>3. answered[L + 1] \in L .. L + drops
  BY <1>0, <1>2
<1>4. CASE ack_log = <<>>
  <2>1. LastAnswer(answered) = 1
    BY <1>4 DEF LastAnswer
  <2> QED BY <1>0, <1>2, <1>3, <2>1
<1>5. CASE ack_log # <<>>
  <2>1. L \in 1 .. Len(answered) /\ LastAnswer(answered) = answered[L] + 2
    BY <1>0, <1>5 DEF LastAnswer, BaseInv, TypeInv, TypeOK, TypeAcks
  <2>2. answered[L] + (L + 1 - L) <= answered[L + 1]
    BY <1>0, <1>1, <2>1 DEF Session, Answers
  <2>3. answered[L] \in Nat
    BY <2>1, SessionTypes
  <2> QED BY <1>0, <1>2, <1>3, <2>1, <2>2, <2>3, SMTT(30)
<1> QED BY <1>4, <1>5

\* The monitor has heard from its peer within five batches and one period for
\* every dropped reply and one more.
LEMMA SilenceBound ==
  ASSUME Prompt, BaseInv, NEW sent \in Seq(Nat), NEW answered \in Seq(Nat),
         Session(sent, answered)
  PROVE  now <= baseline + 5 * BatchGap + (drops + 1) * Period
<1>0. /\ Len(ack_log) \in Nat /\ HandledPings(answered) \in Nat /\ drops \in Nat
      /\ next_sequence \in Nat /\ now \in Nat /\ baseline \in Nat /\ BatchGap \in Nat
      /\ Period \in Nat /\ HandledPings(answered) <= next_sequence
      /\ Len(answered) \in Nat /\ HandledPings(answered) = drops + Len(answered)
      /\ Len(ack_log) <= Len(answered)
  BY SessionTypes, Room, SMTT(30) DEF BaseInv, TypeInv
<1>1. PICK L \in Nat, h \in Nat, l \in Nat :
        L = Len(ack_log) /\ h = HandledPings(answered) /\ l = LastAnswer(answered)
  BY <1>0, LastAnswerBounds
<1>2. /\ l \in 1 .. h + 1 /\ l >= L + 1 /\ sent[l] <= baseline + BatchGap
  BY <1>1, LastAnswerBounds
<1>3. Sched(sent) /\ h <= next_sequence /\ h = drops + Len(answered) /\ L <= Len(answered)
  BY <1>0, <1>1 DEF Session
<1>4. l \in 1 .. next_sequence + 1
  BY <1>0, <1>2, <1>3
<1>5. (drops + 1) * Period = drops * Period + Period /\ drops * Period \in Nat
  BY <1>0, OneMoreMiss
<1>6. CASE L < Len(answered)
  <2>1. PICK j \in Nat : j = answered[L + 1] + 2
    BY <1>1, <1>6, AnswerOrder
  <2>2. j \in L + 2 .. L + drops + 2 /\ j <= h + 1 /\ l <= j
    <3>1. /\ answered[L + 1] \in L .. L + drops /\ answered[L + 1] < h
          /\ l <= answered[L + 1] + 2
      BY <1>1, <1>6, AnswerOrder
    <3>2. PICK a \in L .. L + drops : a = answered[L + 1]
      BY <3>1
    <3>3. a < h /\ l <= a + 2 /\ j = a + 2 /\ a \in Nat
      BY <1>0, <2>1, <3>1, <3>2, SMTT(30)
    <3>4. drops \in Nat
      BY <1>0
    <3> QED BY <3>2, <3>3, <3>4, SMTT(30)
  <2>3. now <= sent[j] + 4 * BatchGap
    BY <1>1, <1>6, <2>1, PongInFlight
  <2>4. j \in 1 .. next_sequence + 1 /\ j <= l + (drops + 1)
    BY <1>0, <1>2, <1>3, <2>2
  <2>5. now <= baseline + BatchGap + 4 * BatchGap + (drops + 1) * Period
    <3>1. drops + 1 \in Nat /\ 4 * BatchGap \in Nat
      BY <1>0
    <3> QED BY <1>2, <1>3, <1>4, <2>2, <2>3, <2>4, <3>1, Awaited
  <2> QED BY <1>0, <1>5, <2>5
<1>7. CASE L = Len(answered) /\ h < next_sequence
  <2>1. now <= sent[h + 2] + 2 * BatchGap
    BY <1>1, <1>7, PingInFlight
  <2>2. h + 2 \in 1 .. next_sequence + 1 /\ h + 2 <= l + (drops + 1) /\ l <= h + 2
    BY <1>0, <1>2, <1>3, <1>7
  <2>3. now <= baseline + BatchGap + 2 * BatchGap + (drops + 1) * Period
    <3>1. drops + 1 \in Nat /\ 2 * BatchGap \in Nat
      BY <1>0
    <3> QED BY <1>2, <1>3, <1>4, <2>1, <2>2, <3>1, Awaited
  <2> QED BY <1>0, <1>5, <2>3
<1>8. CASE L = Len(answered) /\ h = next_sequence
  <2>1. now <= sent[next_sequence + 1] + Period
    BY <1>3, NextPing
  <2>2. /\ next_sequence + 1 \in 1 .. next_sequence + 1 /\ next_sequence + 1 <= l + drops
        /\ l <= next_sequence + 1
    BY <1>0, <1>2, <1>3, <1>8
  <2>3. now <= baseline + BatchGap + Period + drops * Period
    BY <1>0, <1>2, <1>3, <1>4, <2>1, <2>2, Awaited
  <2> QED BY <1>0, <1>5, <2>3
<1> QED BY <1>0, <1>3, <1>6, <1>7, <1>8

\* The simulator has heard from its client within a timeout.
LEMMA ClientHeard ==
  ASSUME Prompt, BaseInv, NEW sent \in Seq(Nat), NEW answered \in Seq(Nat),
         Session(sent, answered)
  PROVE  now - client.last_liveness < SimTimeout
<1> DEFINE h == HandledPings(answered)
           c == client.last_liveness
<1>0. /\ h \in Nat /\ next_sequence \in Nat /\ now \in Nat /\ h <= next_sequence
      /\ c \in Nat /\ BatchGap \in Nat /\ Period \in Nat /\ SimTimeout \in Nat
      /\ Period + 5 * BatchGap < SimTimeout
  BY SessionTypes, Room DEF BaseInv, TypeInv
<1>1. sent[h + 1] <= c + 3 * BatchGap /\ Sched(sent)
  BY DEF Session, Pings
<1>2. \A i \in 1 .. next_sequence + 1 : sent[i] \in Nat
  BY SessionTypes
<1>3. CASE h < next_sequence
  <2>1. now <= sent[h + 2] + 2 * BatchGap
    BY <1>3, PingInFlight
  <2> HIDE DEF h
  <2>2. h + 1 \in 1 .. next_sequence + 1 /\ h + 2 \in 1 .. next_sequence + 1
    BY <1>0, <1>3
  <2>3. sent[h + 2] <= sent[h + 1] + 1 * Period
    <3>1. PICK i \in 1 .. next_sequence + 1, j \in 1 .. next_sequence + 1 : i = h + 1 /\ j = h + 2
      BY <2>2
    <3>2. i <= j /\ j <= i + 1 /\ 1 \in Nat
      BY <1>0, <3>1
    <3>3. sent[j] <= sent[i] + 1 * Period
      BY <1>1, <3>2, Reach
    <3> QED BY <3>1, <3>3
  <2>4. sent[h + 1] \in Nat /\ sent[h + 2] \in Nat
    BY <1>2, <2>2
  <2> HIDE DEF c
  <2>5. now - c < SimTimeout
    BY <1>0, <1>1, <2>1, <2>3, <2>4, SMTT(30)
  <2> QED BY <2>5 DEF c
<1>4. CASE h = next_sequence
  <2>1. now <= sent[h + 1] + Period
    BY <1>1, <1>4, NextPing
  <2> HIDE DEF h
  <2>2. h + 1 \in 1 .. next_sequence + 1
    BY <1>0
  <2>3. sent[h + 1] \in Nat
    BY <1>2, <2>2
  <2> HIDE DEF c
  <2>5. now - c < SimTimeout
    BY <1>0, <1>1, <2>1, <2>3
  <2> QED BY <2>5 DEF c
<1> QED BY <1>0, <1>3, <1>4

\* The socket never holds more PONGs than the read buffer takes.
LEMMA NoReadOverflow ==
  ASSUME Prompt, BaseInv, NEW sent \in Seq(Nat), NEW answered \in Seq(Nat),
         Session(sent, answered), read_accum = <<>>
  PROVE  Len(inbox) <= MaxReadAccum
<1>0. /\ next_sequence \in Nat /\ now \in Nat /\ BatchGap \in Nat /\ MaxReadAccum \in Nat
      /\ MaxReadAccum >= 1 /\ Len(sent) = next_sequence + 1
      /\ HandledPings(answered) \in Nat /\ HandledPings(answered) <= next_sequence
  BY SessionTypes, Room, LimitAssumption DEF BaseInv, TypeInv
<1>1. PICK L \in Nat, m \in Nat, I \in Nat :
        /\ L = Len(ack_log) /\ m = Len(inbox) /\ I = heartbeat_interval
        /\ I >= 1 /\ 4 * BatchGap < I * MaxReadAccum
  BY SessionTypes, Room DEF BaseInv, TypeInv
<1>2. Len(answered) = L + m
  <2>1. Len(read_accum) = 0
    OBVIOUS
  <2>2. Len(answered) = L + Len(read_accum) + m
    BY <1>1, SessionTypes
  <2> QED BY <2>1, <2>2
<1>3. CASE m <= 1
  BY <1>0, <1>1, <1>3
<1>4. CASE m > 1
  <2>1. L + 1 \in 1 .. Len(answered) /\ L + m \in 1 .. Len(answered)
    BY <1>2, <1>4
  <2>2. PICK a \in Nat, b \in Nat :
          /\ a = answered[L + 1] /\ b = answered[L + m]
          /\ a < HandledPings(answered) /\ b < HandledPings(answered)
    BY <2>1, SessionTypes
  <2>3. now <= sent[a + 2] + 4 * BatchGap
    <3>1. Len(ack_log) < Len(answered)
      BY <1>1, <1>2, <1>4
    <3> QED BY <1>1, <2>2, <3>1, PongInFlight
  <2>4. a + ((L + m) - (L + 1)) <= b
    <3>1. L + 1 < L + m
      BY <1>4
    <3> QED BY <2>1, <2>2, <3>1 DEF Session, Answers
  <2>5. PICK i \in Nat, j \in Nat : i = a + 2 /\ j = b + 2
    OBVIOUS
  <2>6. /\ i \in 1 .. next_sequence + 1 /\ j \in 1 .. next_sequence + 1 /\ i > 1 /\ i < j
        /\ m - 1 <= j - i
    <3>1. m - 1 = (L + m) - (L + 1)
      OBVIOUS
    <3>2. a + (m - 1) <= b
      BY <2>4, <3>1
    <3>3. a < next_sequence /\ b < next_sequence
      <4>1. PICK H \in Nat : H = HandledPings(answered)
        BY <1>0
      <4>2. H <= next_sequence /\ next_sequence \in Nat /\ a < H /\ b < H
        BY <1>0, <2>2, <4>1
      <4> QED BY <4>2
    <3>4. m - 1 <= j - i /\ i < j /\ i > 1
      BY <1>4, <2>5, <3>2
    <3> QED BY <1>0, <2>5, <3>3, <3>4
  <2>7. sent[i] + (j - i) * I <= sent[j] /\ sent[j] <= now
    BY <1>0, <1>1, <2>6 DEF Session, Sched
  <2>8. sent[i] \in Nat /\ sent[j] \in Nat
    BY <2>6, SessionTypes
  <2>9. (m - 1) * I <= (j - i) * I
    <3>1. m - 1 \in Int /\ j - i \in Int
      OBVIOUS
    <3> QED BY <2>6, <3>1, MoreMisses
  <2>10. PICK u \in Int, v \in Int, w \in Int :
           u = (m - 1) * I /\ v = (j - i) * I /\ w = I * MaxReadAccum
    BY <1>0
  <2>11. now <= sent[i] + 4 * BatchGap
    BY <2>3, <2>5
  <2>12. u < w
    <3>1. sent[i] + v <= sent[j] /\ u <= v /\ 4 * BatchGap < w
      BY <1>1, <2>7, <2>9, <2>10
    <3> QED BY <1>0, <2>7, <2>8, <2>11, <3>1, SMTT(30)
  <2>13. ~(m > MaxReadAccum)
    <3> SUFFICES ASSUME m > MaxReadAccum PROVE FALSE
      OBVIOUS
    <3>1. MaxReadAccum <= m - 1 /\ m - 1 \in Int /\ MaxReadAccum \in Int
      BY <1>0
    <3>2. MaxReadAccum * I <= (m - 1) * I
      BY <3>1, MoreMisses
    <3>3. MaxReadAccum * I = I * MaxReadAccum
      BY <1>0
    <3> QED BY <2>10, <2>12, <3>2, <3>3
  <2> QED BY <1>0, <1>1, <2>13
<1> QED BY <1>3, <1>4

-----------------------------------------------------------------------------
(* The session: the steps that move neither PING nor PONG                  *)

\* Where an answered PING stands in the schedule.
LEMMA AnsweredIndex ==
  ASSUME Prompt, BaseInv, NEW sent \in Seq(Nat), NEW answered \in Seq(Nat),
         Session(sent, answered), NEW i \in 1 .. Len(answered)
  PROVE  /\ answered[i] \in Nat /\ answered[i] + 2 \in 1 .. next_sequence + 1
         /\ sent[answered[i] + 2] \in Nat /\ sent[answered[i] + 2] <= now
<1>0. HandledPings(answered) \in Nat /\ HandledPings(answered) <= next_sequence
  BY SessionTypes
<1>1. PICK h \in Nat : h = HandledPings(answered) /\ h <= next_sequence
  BY <1>0
<1>2. PICK a \in Nat : a = answered[i] /\ a < h
  BY <1>1, SessionTypes
<1>3. next_sequence \in Nat /\ Len(sent) = next_sequence + 1
  BY SessionTypes
<1>4. a + 2 \in 1 .. next_sequence + 1
  BY <1>1, <1>2, <1>3, SMTT(30)
<1>5. sent[a + 2] <= now
  BY <1>3, <1>4 DEF Session, Sched
<1>6. sent[a + 2] \in Nat
  BY <1>4, SessionTypes
<1> QED BY <1>2, <1>4, <1>5, <1>6

\* A queue that is not empty has a first element.
LEMMA NotEmpty ==
  ASSUME NEW S, NEW q \in Seq(S), q # <<>>
  PROVE  Len(q) \in Nat /\ Len(q) >= 1 /\ 1 \in 1 .. Len(q) /\ Head(q) = q[1]
  OBVIOUS

\* A step that neither sends nor handles a PING or a PONG.
Quiet ==
  /\ UNCHANGED <<heartbeat_interval, next_sequence, next_ping_due, drops, ack_log, acked_sequences,
                 acked_count, read_accum, inbox, delivered, reading, client, baseline, inherited>>
  /\ now' \in Nat /\ now <= now'
  /\ tick_now' = tick_now \/ (next_sequence > 0 /\ tick_now' < next_ping_due)
  /\ state' \in Live /\ consecutive_missed' <= drops
  /\ reading # {} => sim_batch_now' = sim_batch_now
  /\ delivered # {} => \A t \in Nat : SimWaits(t) => SimWaits(t)'
  /\ inbox # <<>> => \A t \in Nat : MonitorWaits(t) => MonitorWaits(t)'
  /\ read_accum # <<>> => batch_now' = batch_now /\ pc' = "drain"
  /\ "EPOLLIN" \in batch' => \/ "EPOLLIN" \in batch /\ batch_now' = batch_now
                             \/ inbox # <<>> /\ batch_now' = now

\* The schedule survives the clock and a tick before the next PING is due.
LEMMA SchedKept ==
  ASSUME NEW sent \in Seq(Nat), Sched(sent), now \in Nat, now' \in Nat, now <= now',
         UNCHANGED <<heartbeat_interval, next_sequence, next_ping_due>>,
         next_sequence \in Nat,
         tick_now' = tick_now \/ (next_sequence > 0 /\ tick_now' < next_ping_due)
  PROVE  Sched(sent)'
<1>1. /\ Len(sent) = next_sequence' + 1
      /\ next_sequence' = 0 => tick_now' = sent[1] /\ next_ping_due' = 0
      /\ next_sequence' > 0 => /\ next_ping_due' = sent[next_sequence' + 1] + heartbeat_interval'
                               /\ tick_now' < next_ping_due'
  BY DEF Sched
<1>2. \A i \in 1 .. Len(sent) : sent[i] <= now'
  <2> SUFFICES ASSUME NEW i \in 1 .. Len(sent) PROVE sent[i] <= now'
    OBVIOUS
  <2>1. sent[i] \in Nat /\ sent[i] <= now
    BY DEF Sched
  <2> QED BY <2>1
<1>3. Period' = Period
  BY DEF Period
<1>4. \A i \in 1 .. Len(sent), j \in 1 .. Len(sent) :
        i < j => /\ sent[i] <= sent[j]
                 /\ sent[j] <= sent[i] + (j - i) * Period'
                 /\ i > 1 => sent[i] + (j - i) * heartbeat_interval' <= sent[j]
  BY <1>3 DEF Sched
<1> QED BY <1>1, <1>2, <1>4 DEF Sched

\* The PINGs on their way stay there when neither end touches them.
LEMMA PingsKept ==
  ASSUME Prompt, BaseInv, NEW sent \in Seq(Nat), NEW answered \in Seq(Nat),
         Session(sent, answered),
         UNCHANGED <<next_sequence, drops, delivered, reading, client>>,
         reading # {} => sim_batch_now' = sim_batch_now,
         delivered # {} => \A t \in Nat : SimWaits(t) => SimWaits(t)'
  PROVE  Pings(sent, answered)'
<1>1. PICK h \in Nat : h = HandledPings(answered)
  BY SessionTypes
<1>2. HandledPings(answered)' = h
  BY <1>1 DEF HandledPings
<1>3. PICK r \in h .. next_sequence :
        /\ reading = {Ping(sent, q) : q \in h .. r - 1}
        /\ delivered = {Ping(sent, q) : q \in r .. next_sequence - 1}
        /\ h < r => sim_batch_now <= sent[h + 2] + BatchGap
        /\ r < next_sequence => SimWaits(sent[r + 2])
  BY <1>1 DEF Session, Pings
<1>4. sent[h + 1] <= client'.last_liveness + 3 * BatchGap
  BY <1>1 DEF Session, Pings
<1>5. h < r => sim_batch_now' <= sent[h + 2] + BatchGap
  <2> SUFFICES ASSUME h < r PROVE sim_batch_now' = sim_batch_now
    BY <1>3
  <2>1. h \in h .. r - 1
    BY <1>3
  <2>2. Ping(sent, h) \in reading
    BY <1>3, <2>1
  <2> QED BY <2>2
<1>6. r < next_sequence => SimWaits(sent[r + 2])'
  <2> SUFFICES ASSUME r < next_sequence PROVE SimWaits(sent[r + 2])'
    OBVIOUS
  <2>0. next_sequence \in Nat
    BY SessionTypes
  <2>1. r \in r .. next_sequence - 1 /\ r + 2 \in 1 .. next_sequence + 1
    BY <1>3, <2>0
  <2>2. Ping(sent, r) \in delivered
    BY <1>3, <2>1
  <2>3. PICK t \in Nat : t = sent[r + 2]
    BY <2>1, SessionTypes
  <2>4. SimWaits(t)'
    BY <1>3, <2>2, <2>3
  <2> QED BY <2>3, <2>4
<1>7. r \in h .. next_sequence'
  BY <1>3
<1>8. /\ reading' = {Ping(sent, q) : q \in h .. r - 1}
      /\ delivered' = {Ping(sent, q) : q \in r .. next_sequence' - 1}
  BY <1>3
<1> QED BY <1>2, <1>4, <1>5, <1>6, <1>7, <1>8 DEF Pings

\* The PONGs on their way stay there when neither end touches them.
LEMMA PongsKept ==
  ASSUME BaseInv, NEW sent \in Seq(Nat), NEW answered \in Seq(Nat), Pongs(sent, answered),
         \A i \in 1 .. Len(answered) :
           sent[answered[i] + 2] \in Nat /\ sent[answered[i] + 2] <= now,
         UNCHANGED <<ack_log, read_accum, inbox, baseline>>,
         inbox # <<>> => \A t \in Nat : MonitorWaits(t) => MonitorWaits(t)',
         read_accum # <<>> => batch_now' = batch_now /\ pc' = "drain",
         "EPOLLIN" \in batch' => \/ "EPOLLIN" \in batch /\ batch_now' = batch_now
                                 \/ inbox # <<>> /\ batch_now' = now
  PROVE  Pongs(sent, answered)'
<1>1. PICK L \in Nat, R \in Nat : L = Len(ack_log) /\ R = L + Len(read_accum)
  BY DEF BaseInv, TypeInv, TypeOK, TypeAcks, TypeBuffers
<1>2. /\ Len(answered) = R + Len(inbox)
      /\ pc # "drain" => read_accum = <<>>
      /\ \A i \in 1 .. L : ack_log[i] = answered[i]
      /\ \A i \in 1 .. Len(read_accum) : read_accum[i] = Pong(sent, answered[L + i])
      /\ \A i \in 1 .. Len(inbox) : inbox[i] = Pong(sent, answered[R + i])
      /\ read_accum # <<>> => /\ batch_now <= sent[answered[L + 1] + 2] + 3 * BatchGap
                              /\ sent[answered[L + 1] + 2] <= batch_now \/ baseline = batch_now
      /\ inbox # <<>> => MonitorWaits(sent[answered[R + 1] + 2] + 2 * BatchGap)
      /\ "EPOLLIN" \in batch => inbox # <<>> /\ sent[answered[R + 1] + 2] <= batch_now
  BY <1>1 DEF Pongs
<1>3. L = Len(ack_log') /\ R = L + Len(read_accum')
  BY <1>1
<1>4. ASSUME inbox # <<>>
      PROVE  /\ sent[answered[R + 1] + 2] \in Nat /\ sent[answered[R + 1] + 2] <= now
             /\ MonitorWaits(sent[answered[R + 1] + 2] + 2 * BatchGap)'
  <2>1. R + 1 \in 1 .. Len(answered)
    <3>1. Len(inbox) \in Nat /\ Len(inbox) >= 1
      BY <1>4, NotEmpty DEF BaseInv, TypeInv, TypeOK, TypePeer
    <3> QED BY <1>2, <3>1
  <2>3. PICK t \in Nat : t = sent[answered[R + 1] + 2] /\ t <= now
    BY <2>1
  <2>5. t + 2 * BatchGap \in Nat
    BY SystemAssumption
  <2>6. MonitorWaits(t + 2 * BatchGap)'
    BY <1>2, <1>4, <2>3, <2>5
  <2> QED BY <2>3, <2>6
<1>5. "EPOLLIN" \in batch' => inbox # <<>> /\ sent[answered[R + 1] + 2] <= batch_now'
  BY <1>2, <1>4
<1>6. pc' # "drain" => read_accum' = <<>>
  OBVIOUS
<1>7. read_accum' # <<>> =>
        /\ batch_now' <= sent[answered[L + 1] + 2] + 3 * BatchGap
        /\ sent[answered[L + 1] + 2] <= batch_now' \/ baseline' = batch_now'
  BY <1>2
<1>8. /\ \A i \in 1 .. Len(read_accum') : read_accum'[i] = Pong(sent, answered[L + i])
      /\ \A i \in 1 .. Len(inbox') : inbox'[i] = Pong(sent, answered[R + i])
      /\ \A i \in 1 .. L : ack_log'[i] = answered[i]
      /\ Len(answered) = R + Len(inbox')
  BY <1>2
<1>9. inbox' # <<>> => MonitorWaits(sent[answered[R + 1] + 2] + 2 * BatchGap)'
  BY <1>4
<1>10. "EPOLLIN" \in batch' => inbox' # <<>> /\ sent[answered[R + 1] + 2] <= batch_now'
  BY <1>5
<1> QED BY <1>1, <1>3, <1>6, <1>7, <1>8, <1>9, <1>10 DEF Pongs

\* A quiet step leaves the session as it was.
LEMMA QuietStep ==
  ASSUME Prompt, BaseInv, NEW sent \in Seq(Nat), NEW answered \in Seq(Nat),
         Session(sent, answered), Quiet
  PROVE  Session(sent, answered)'
<1> USE DEF Quiet
<1>1. state' \in Live /\ client'.state = "kHealthy" /\ inherited' = 0
        /\ consecutive_missed' <= drops'
  BY DEF Session
<1>2. Sched(sent)'
  BY SchedKept, SessionTypes DEF Session
<1>3. Answers(answered)'
  BY DEF Session, Answers, HandledPings
<1>4. Pings(sent, answered)'
  BY PingsKept
<1>5. Pongs(sent, answered)'
  BY PongsKept, AnsweredIndex DEF Session
<1>6. Evidence(sent, answered)'
  BY DEF Session, Evidence, LastAnswer
<1> QED BY <1>1, <1>2, <1>3, <1>4, <1>5, <1>6 DEF Session

\* check_timeout counts no more misses than replies were dropped, so it never
\* reaches the limit.
LEMMA MissesBounded ==
  ASSUME Prompt, BaseInv, NEW sent \in Seq(Nat), NEW answered \in Seq(Nat),
         Session(sent, answered), drops < MaxMissedHeartbeats, CheckLive
  PROVE  /\ state' \in Live /\ consecutive_missed' <= drops /\ pc = "check" /\ pc' = "loop"
         /\ UNCHANGED <<now, heartbeat_interval, batch, batch_now, tick_now, next_ping_due,
                        next_sequence, baseline, inherited, acks, buffers, peer>>
<1>0. /\ drops \in Nat /\ consecutive_missed \in Nat /\ tick_now \in Nat /\ now \in Nat
      /\ baseline \in Nat /\ BatchGap \in Nat /\ Period \in Nat /\ heartbeat_timeout \in Nat
      /\ MaxMissedHeartbeats \in Nat /\ last_liveness \in Nat
      /\ Period + 5 * BatchGap < heartbeat_timeout
      /\ consecutive_missed <= drops /\ tick_now <= now /\ inherited = 0
  BY SessionTypes, Room DEF BaseInv, TypeInv, TypeOK, TypeState, DetectionInv, ClockInv, Session
<1>1. UNCHANGED <<now, heartbeat_interval, batch_now, tick_now, next_ping_due,
                  next_sequence, baseline, inherited, acks, buffers, peer>>
  BY DEF CheckLive, CheckFrame, config
<1>2. pc = "check" /\ state \in Live
  BY DEF CheckLive
<1>3. CASE ~Missed
  BY <1>0, <1>1, <1>2, <1>3 DEF CheckLive, CheckPassed
<1>4. CASE Missed
  <2>1. last_liveness = baseline + (consecutive_missed - inherited) * heartbeat_timeout
    BY <1>2 DEF BaseInv, DetectionInv, WindowInv
  <2>2. consecutive_missed - inherited = consecutive_missed
    BY <1>0
  <2>3. last_liveness = baseline + consecutive_missed * heartbeat_timeout
    BY <2>1, <2>2
  <2>4. now <= baseline + 5 * BatchGap + (drops + 1) * Period
    BY SilenceBound
  <2>5. consecutive_missed < drops
    <3> SUFFICES ASSUME consecutive_missed = drops PROVE FALSE
      BY <1>0
    <3>1. (drops + 1) * Period = drops * Period + Period
      BY <1>0, OneMoreMiss
    <3>2. PICK u \in Int, v \in Int : u = drops * Period /\ v = drops * heartbeat_timeout /\ u <= v
      <4>1. Period * drops <= heartbeat_timeout * drops
        BY <1>0, MoreMisses
      <4>2. Period * drops = drops * Period /\ heartbeat_timeout * drops = drops * heartbeat_timeout
        BY <1>0
      <4>3. drops * Period \in Int /\ drops * heartbeat_timeout \in Int
        BY <1>0
      <4> QED BY <4>1, <4>2, <4>3
    <3>3. last_liveness = baseline + v /\ now <= baseline + 5 * BatchGap + u + Period
      BY <1>0, <2>3, <2>4, <3>1, <3>2
    <3>4. tick_now - last_liveness >= heartbeat_timeout
      BY <1>4 DEF Missed
    <3> QED BY <1>0, <3>2, <3>3, <3>4
  <2>6. ~LimitReached
    BY <1>0, <2>5 DEF LimitReached
  <2>7. /\ consecutive_missed' = consecutive_missed + 1 /\ CheckPassed /\ state' = "kDegraded"
    BY <1>4, <2>6 DEF CheckLive, TransitionTo
  <2> QED BY <1>0, <1>1, <1>2, <2>5, <2>7 DEF CheckPassed, Live
<1> QED BY <1>3, <1>4

\* What a session's queues hold: PINGs and PONGs.
LEMMA SessionTraffic ==
  ASSUME Prompt, BaseInv, NEW sent \in Seq(Nat), NEW answered \in Seq(Nat),
         Session(sent, answered)
  PROVE  /\ \A m \in reading : m.type = "kPing"
         /\ read_accum # <<>> => /\ Head(read_accum).type = "kPong"
                                 /\ pc = "drain"
<1>1. \A m \in reading : m.type = "kPing"
  <2>1. PICK r \in HandledPings(answered) .. next_sequence :
          reading = {Ping(sent, q) : q \in HandledPings(answered) .. r - 1}
    BY DEF Session, Pings
  <2> QED BY <2>1 DEF Ping, Msg
<1>2. ASSUME read_accum # <<>> PROVE Head(read_accum).type = "kPong" /\ pc = "drain"
  <2>1. 1 \in 1 .. Len(read_accum) /\ Head(read_accum) = read_accum[1]
    BY <1>2, NotEmpty DEF BaseInv, TypeInv, TypeOK, TypeBuffers
  <2>2. read_accum[1] = Pong(sent, answered[Len(ack_log) + 1])
    BY <2>1 DEF Session, Pongs
  <2>3. pc = "drain"
    BY <1>2 DEF Session, Pongs
  <2> QED BY <2>1, <2>2, <2>3 DEF Pong, Msg
<1> QED BY <1>1, <1>2

\* The steps of a session: nobody else has a handler to run.
LEMMA SessionCases ==
  ASSUME Prompt, BaseInv, LinkInv, NEW sent \in Seq(Nat), NEW answered \in Seq(Nat),
         Session(sent, answered), SystemNext
  PROVE  \/ SystemAdvance \/ SystemEpollWait
         \/ MonitorStep /\ (OnReadable \/ HandlePong \/ DrainDone \/ TickPing \/ TickNoPing
                            \/ CheckLive)
         \/ SimEpollWait \/ SimOnReadable \/ SimPing \/ SimTick
<1>1. ~SimAccept /\ ~SimConnectHello
  <2>1. ~SimAccept
    BY DEF SimAccept, LinkInv, Session
  <2>2. ~SimConnectHello
    BY SessionTraffic DEF SimConnectHello
  <2> QED BY <2>1, <2>2
<1>2. ~OnConnected /\ ~CheckOpening
  BY DEF OnConnected, CheckOpening, Session, Live, Opening
<1>3. ~HandleConnectAck /\ ~HandleDisconnect /\ ~HandleViolation
  BY SessionTraffic DEF HandleConnectAck, HandleDisconnect, HandleViolation, Draining
<1> QED BY <1>1, <1>2, <1>3, MonitorCases DEF SystemNext

\* Clock, waits, ticks and checks are quiet.
LEMMA QuietSteps ==
  ASSUME Prompt, BaseInv, LinkInv, Unaccepted, NEW sent \in Seq(Nat), NEW answered \in Seq(Nat),
         Session(sent, answered), drops < MaxMissedHeartbeats, SystemNext,
         \/ SystemAdvance \/ SystemEpollWait
         \/ MonitorStep /\ (DrainDone \/ TickNoPing \/ CheckLive)
         \/ SimEpollWait \/ SimTick
  PROVE  Quiet
<1>0. /\ now \in Nat /\ drops \in Nat /\ consecutive_missed <= drops /\ state \in Live
      /\ client.state = "kHealthy" /\ next_sequence \in Nat
      /\ read_accum # <<>> => pc = "drain"
  BY SessionTypes, SessionTraffic DEF Session
<1>1. OnReadable => "EPOLLIN" \in batch /\ "EPOLLIN" \notin batch'
  BY DEF OnReadable, ReadDue, OnConnectionFailed, ConnEvents, LinkInv
<1>2. SimOnReadable => "EPOLLIN" \in sim_batch /\ "EPOLLIN" \notin sim_batch'
  BY DEF SimOnReadable
<1>3. ASSUME ~OnReadable, ~SimOnReadable, state' \in Live, client'.state = "kHealthy"
      PROVE  /\ delivered # {} => \A t \in Nat : SimWaits(t) => SimWaits(t)'
             /\ inbox # <<>> => \A t \in Nat : MonitorWaits(t) => MonitorWaits(t)'
  BY <1>3, SimWaitsStep, MonitorWaitsStep DEF Live
<1>4. CASE SystemAdvance
  <2>1. /\ now' = now + 1
        /\ UNCHANGED <<config, reactor, slot, state, state_entered, reason, next_sequence,
                       liveness, acks, buffers, peer, responder>>
    BY <1>4, AdvanceEffect
  <2>2. ~OnReadable /\ ~SimOnReadable
    BY <1>1, <1>2, <2>1 DEF reactor, responder
  <2>3. client' = client /\ state' = state
    BY <2>1 DEF responder
  <2> QED BY <1>0, <1>3, <2>1, <2>2, <2>3
          DEF Quiet, config, reactor, slot, liveness, acks, buffers, peer, responder
<1>5. CASE SystemEpollWait
  <2>1. /\ pc = "loop" /\ batch = {} /\ batch_now' = now
        /\ "EPOLLIN" \in batch' <=> inbox # <<>>
        /\ UNCHANGED <<now, config, pc, tick_now, slot, state, state_entered, reason,
                       next_sequence, liveness, acks, buffers, peer, responder>>
    BY <1>5, WaitEffect
  <2>2. ~OnReadable /\ ~SimOnReadable
    BY <1>1, <1>2, <2>1 DEF responder
  <2>3. client' = client /\ state' = state
    BY <2>1 DEF responder
  <2> QED BY <1>0, <1>3, <2>1, <2>2, <2>3
          DEF Quiet, config, slot, liveness, acks, buffers, peer, responder
<1>6. CASE MonitorStep /\ (DrainDone \/ TickNoPing \/ CheckLive)
  <2>0. UNCHANGED <<now, heartbeat_interval, batch_now, responder>>
    BY <1>6, MonitorCases
  <2>1. ~SimOnReadable
    BY <1>2, <2>0 DEF responder
  <2>2. client' = client
    BY <2>0 DEF responder
  <2>3. CASE DrainDone
    <3>1. /\ pc' = "loop" /\ read_accum = <<>>
          /\ UNCHANGED <<batch, state, read_accum, liveness, acks, tick_now, next_ping_due,
                         next_sequence, peer>>
      BY <2>3 DEF DrainDone, DrainFrame, LinkInv
    <3>2. ~OnReadable
      BY <1>1, <3>1
    <3> QED BY <1>0, <1>3, <2>0, <2>1, <2>2, <3>1, <3>2 DEF Quiet, liveness, acks, peer, responder
  <2>4. CASE TickNoPing
    <3>1. /\ pc = "loop" /\ batch' = batch \ {"timer"} /\ tick_now' = now
          /\ now < next_ping_due
          /\ UNCHANGED <<slot, state, next_sequence, liveness, acks, buffers, peer>>
      BY <1>0, <2>4 DEF TickNoPing, TickStart, Live, Opening
    <3>2. ~OnReadable
      BY <1>1, <3>1
    <3>3. next_sequence > 0
      BY <1>0, <3>1 DEF Session, Sched
    <3> QED BY <1>0, <1>3, <2>0, <2>1, <2>2, <3>1, <3>2, <3>3
            DEF Quiet, slot, liveness, acks, buffers, peer, responder
  <2>5. CASE CheckLive
    <3>1. /\ state' \in Live /\ consecutive_missed' <= drops /\ pc = "check" /\ pc' = "loop"
          /\ UNCHANGED <<now, heartbeat_interval, batch, batch_now, tick_now, next_ping_due,
                         next_sequence, baseline, inherited, acks, buffers, peer>>
      BY <2>5, MissesBounded
    <3>2. ~OnReadable
      BY <1>1, <3>1
    <3> QED BY <1>0, <1>3, <2>0, <2>1, <2>2, <3>1, <3>2 DEF Quiet, acks, buffers, peer, responder
  <2> QED BY <1>6, <2>3, <2>4, <2>5
<1>7. CASE SimEpollWait
  <2>1. reading = {} /\ sim_batch = {} /\ UNCHANGED <<vars, client, reading, drops>>
    BY <1>7 DEF SimEpollWait, SimIdle
  <2>2. ~OnReadable /\ ~SimOnReadable
    BY <1>1, <1>2, <2>1 DEF vars, reactor
  <2> QED BY <1>0, <1>3, <2>1, <2>2
          DEF Quiet, vars, config, reactor, slot, liveness, acks, buffers, peer
<1>8. CASE SimTick
  <2>1. ~SimTimedOut
    <3>1. client.last_liveness \in Nat /\ SimTimeout \in Nat
      BY SessionTypes, Room DEF BaseInv, TypeInv
    <3>2. now - client.last_liveness < SimTimeout
      BY ClientHeard
    <3> QED BY <1>0, <3>1, <3>2 DEF SimTimedOut
  <2>2. /\ sim_batch' = sim_batch \ {"timer"}
        /\ UNCHANGED <<vars, client, reading, sim_batch_now, drops>>
    BY <1>8, <2>1, TickKeeps
  <2>3. ~OnReadable /\ ~SimOnReadable
    BY <1>1, <1>2, <2>2 DEF vars, reactor
  <2> QED BY <1>0, <1>3, <2>2, <2>3
          DEF Quiet, vars, config, reactor, slot, liveness, acks, buffers, peer
<1> QED BY <1>4, <1>5, <1>6, <1>7, <1>8

-----------------------------------------------------------------------------
(* The session: the steps that move a PING or a PONG                       *)

\* What a step of the monitor leaves to the simulator.
LEMMA MonitorLeaves ==
  ASSUME Prompt, BaseInv, LinkInv, Unaccepted, SystemNext, MonitorStep, client.state = "kHealthy"
  PROVE  /\ UNCHANGED <<now, heartbeat_interval, batch_now, client, drops, reading, sim_batch_now>>
         /\ delivered # {} => \A t \in Nat : SimWaits(t) => SimWaits(t)'
<1>1. UNCHANGED <<now, heartbeat_interval, batch_now, responder>>
  BY MonitorCases
<1>2. ~SimOnReadable /\ client'.state # "kFailed"
  BY <1>1 DEF SimOnReadable, responder
<1> QED BY <1>1, <1>2, SimWaitsStep DEF responder

\* on_readable: the read buffer takes every PONG the socket holds.
LEMMA ReadableStep ==
  ASSUME Prompt, BaseInv, LinkInv, Unaccepted, NEW sent \in Seq(Nat), NEW answered \in Seq(Nat),
         Session(sent, answered), SystemNext, MonitorStep, OnReadable
  PROVE  Session(sent, answered)'
<1>1. pc = "loop" /\ "EPOLLIN" \in batch /\ MonitorBusy
  BY DEF OnReadable, ReadDue, LinkInv, MonitorBusy
<1>2. read_accum = <<>> /\ inbox \in Seq(Message)
  BY <1>1 DEF Session, Pongs, BaseInv, TypeInv, TypeOK, TypePeer
<1>3. ~(Len(read_accum) + Len(inbox) > MaxReadAccum)
  <2>1. Len(inbox) <= MaxReadAccum /\ Len(inbox) \in Nat /\ MaxReadAccum \in Nat
          /\ Len(read_accum) = 0
    BY <1>2, NoReadOverflow, LimitAssumption
  <2> QED BY <2>1
<1>4. <<>> \o inbox = inbox
  BY <1>2
<1>5. /\ read_accum' = inbox /\ inbox' = <<>> /\ pc' = "drain" /\ "EPOLLIN" \notin batch'
      /\ UNCHANGED <<tick_now, next_ping_due, state, next_sequence, liveness, acks, delivered>>
  BY <1>2, <1>3, <1>4 DEF OnReadable, ConnEvents
<1>6. /\ UNCHANGED <<now, heartbeat_interval, batch_now, client, drops, reading, sim_batch_now>>
      /\ delivered # {} => \A t \in Nat : SimWaits(t) => SimWaits(t)'
  BY MonitorLeaves DEF Session
<1>7. Sched(sent)'
  <2>1. now \in Nat /\ next_sequence \in Nat
    BY SessionTypes
  <2> QED BY <1>5, <1>6, <2>1, SchedKept DEF Session
<1>8. Answers(answered)'
  BY <1>6 DEF Session, Answers, HandledPings
<1>9. Pings(sent, answered)'
  BY <1>5, <1>6, PingsKept
<1>10. Evidence(sent, answered)'
  BY <1>5 DEF Session, Evidence, LastAnswer, liveness, acks
<1>11. Pongs(sent, answered)'
  <2>1. PICK L \in Nat : L = Len(ack_log)
    BY SessionTypes
  <2>2. /\ Len(answered) = L + Len(inbox)
        /\ \A i \in 1 .. L : ack_log[i] = answered[i]
        /\ \A i \in 1 .. Len(inbox) : inbox[i] = Pong(sent, answered[L + i])
        /\ inbox # <<>> => MonitorWaits(sent[answered[L + 1] + 2] + 2 * BatchGap)
        /\ inbox # <<>> /\ sent[answered[L + 1] + 2] <= batch_now
    <3>1. L + Len(read_accum) = L
      BY <1>2
    <3> QED BY <1>1, <2>1, <3>1 DEF Session, Pongs
  <2>3. L + 1 \in 1 .. Len(answered)
    <3>1. Len(inbox) \in Nat /\ Len(inbox) >= 1
      BY <1>2, <2>2, NotEmpty
    <3> QED BY <2>2, <3>1
  <2>4. PICK t \in Nat : t = sent[answered[L + 1] + 2]
    BY <2>3, AnsweredIndex
  <2>5. batch_now <= t + 3 * BatchGap
    <3>1. now \in Nat /\ batch_now \in Nat /\ BatchGap \in Nat
      BY SessionTypes, SystemAssumption
    <3>2. MonitorWaits(t + 2 * BatchGap)
      BY <2>2, <2>4
    <3>3. batch_now <= t + 2 * BatchGap + BatchGap
      BY <1>1, <3>1, <3>2 DEF MonitorWaits
    <3> QED BY <3>1, <3>3
  <2>6. /\ batch_now' <= sent[answered[L + 1] + 2] + 3 * BatchGap
        /\ sent[answered[L + 1] + 2] <= batch_now'
    BY <1>6, <2>2, <2>4, <2>5
  <2>7. ack_log' = ack_log /\ Len(read_accum') = Len(inbox) /\ Len(inbox') = 0
    BY <1>5 DEF acks
  <2>8. /\ \A i \in 1 .. Len(read_accum') : read_accum'[i] = Pong(sent, answered[L + i])
        /\ \A i \in 1 .. L : ack_log'[i] = answered[i]
        /\ \A i \in 1 .. Len(inbox') : FALSE
    BY <1>5, <2>2, <2>7
  <2>9. Len(answered) = L + Len(read_accum') + Len(inbox') /\ L = Len(ack_log')
    <3>1. Len(inbox) \in Nat
      BY <1>2
    <3> QED BY <2>1, <2>2, <2>7, <3>1
  <2> QED BY <1>5, <2>6, <2>8, <2>9 DEF Pongs
<1> QED BY <1>5, <1>6, <1>7, <1>8, <1>9, <1>10, <1>11 DEF Session, liveness

\* The PONG at the head of the read buffer answers the next PING in the order
\* of the answers, and no cell of the ring holds its sequence.
LEMMA NextPong ==
  ASSUME Prompt, BaseInv, NEW sent \in Seq(Nat), NEW answered \in Seq(Nat),
         Session(sent, answered), read_accum # <<>>
  PROVE  /\ Len(ack_log) + 1 \in 1 .. Len(answered)
         /\ Head(read_accum) = Pong(sent, answered[Len(ack_log) + 1])
         /\ ~HasAckedSequence(answered[Len(ack_log) + 1])
         /\ \A i \in 0 .. AckedWindow - 1 : acked_sequences[i] <= answered[Len(ack_log) + 1]
<1>1. PICK L \in Nat : L = Len(ack_log)
  BY SessionTypes
<1>2. Len(read_accum) >= 1 /\ 1 \in 1 .. Len(read_accum) /\ Head(read_accum) = read_accum[1]
  BY NotEmpty DEF BaseInv, TypeInv, TypeOK, TypeBuffers
<1>3. L + 1 \in 1 .. Len(answered) /\ L < Len(answered)
  <2>1. Len(answered) = L + Len(read_accum) + Len(inbox) /\ Len(read_accum) \in Nat
          /\ Len(inbox) \in Nat
    BY <1>1, SessionTypes
  <2> QED BY <1>2, <2>1
<1>4. PICK a \in Nat : a = answered[L + 1]
  BY <1>3, SessionTypes
<1>5. Head(read_accum) = Pong(sent, a)
  BY <1>1, <1>2, <1>4 DEF Session, Pongs
<1>6. /\ acked_sequences \in [0 .. AckedWindow - 1 -> Nat] /\ acked_count \in 0 .. AckedWindow
      /\ AckedWindow \in Nat
  BY LimitAssumption DEF BaseInv, TypeInv, TypeOK, TypeAcks
<1>7. CASE ack_log = <<>>
  <2>1. acked_count = 0 /\ \A i \in 0 .. AckedWindow - 1 : acked_sequences[i] <= 0
    BY <1>7 DEF Session, Evidence
  <2>2. ~HasAckedSequence(a)
    BY <2>1 DEF HasAckedSequence
  <2>3. \A i \in 0 .. AckedWindow - 1 : acked_sequences[i] <= a
    BY <1>4, <1>6, <2>1
  <2> QED BY <1>1, <1>3, <1>4, <1>5, <2>2, <2>3
<1>8. CASE ack_log # <<>>
  <2>1. L \in 1 .. Len(answered) /\ L < L + 1
    <3>1. L >= 1
      BY <1>1, <1>8, NotEmpty DEF BaseInv, TypeInv, TypeOK, TypeAcks
    <3> QED BY <1>3, <3>1
  <2>2. PICK b \in Nat : b = answered[L]
    BY <2>1, SessionTypes
  <2>3. b + (L + 1 - L) <= a
    BY <1>3, <1>4, <2>1, <2>2 DEF Session, Answers
  <2>4. \A i \in 0 .. AckedWindow - 1 : acked_sequences[i] <= b
    BY <1>1, <1>8, <2>2 DEF Session, Evidence
  <2>5. b < a
    BY <2>3
  <2>6. \A i \in 0 .. AckedWindow - 1 : acked_sequences[i] < a
    BY <1>6, <2>4, <2>5
  <2>7. ~HasAckedSequence(a)
    BY <1>6, <2>6 DEF HasAckedSequence
  <2>8. \A i \in 0 .. AckedWindow - 1 : acked_sequences[i] <= a
    BY <1>6, <2>6
  <2> QED BY <1>1, <1>3, <1>4, <1>5, <2>7, <2>8
<1> QED BY <1>7, <1>8

\* handle_pong: whether the PONG is timely or was overtaken by the clock of its
\* own batch, the monitor has heard its peer in this batch.
LEMMA PongEffect ==
  ASSUME Prompt, BaseInv, LinkInv, NEW sent \in Seq(Nat), NEW answered \in Seq(Nat),
         Session(sent, answered), HandlePong, NEW a \in Nat, a = answered[Len(ack_log) + 1]
  PROVE  /\ pc = "drain" /\ read_accum # <<>> /\ RememberAckedSequence(a)
         /\ baseline' = batch_now /\ inherited' = 0 /\ consecutive_missed' <= drops
         /\ state' \in Live /\ read_accum' = Tail(read_accum)
         /\ UNCHANGED <<pc, batch, batch_now, tick_now, next_ping_due, next_sequence, now, inbox,
                        delivered, heartbeat_interval>>
<1>1. pc = "drain" /\ read_accum # <<>>
  BY DEF HandlePong, Draining
<1>2. Head(read_accum) = Pong(sent, a) /\ ~HasAckedSequence(a)
        /\ Len(ack_log) + 1 \in 1 .. Len(answered)
  BY <1>1, NextPong
<1>3. PICK t \in Nat : t = sent[a + 2]
  BY <1>2, AnsweredIndex
<1>4. Head(read_accum).sequence = a /\ Head(read_accum).timestamp_ns = t
  BY <1>2, <1>3, SMTT(30) DEF Pong, Msg
<1>5. /\ batch_now \in Nat /\ BatchGap \in Nat /\ heartbeat_timeout \in Nat /\ drops \in Nat
      /\ Period \in Nat /\ Period + 5 * BatchGap < heartbeat_timeout
  BY SessionTypes, Room DEF BaseInv, TypeInv
<1>6. batch_now <= t + 3 * BatchGap /\ (t <= batch_now \/ baseline = batch_now)
  BY <1>1, <1>3 DEF Session, Pongs
<1>7. t <= batch_now => Timely(Head(read_accum))
  BY <1>4, <1>5, <1>6 DEF Timely
<1>8. /\ state \in Live /\ inherited = 0 /\ consecutive_missed <= drops
  BY DEF Session
<1>9. /\ DrainOn /\ DrainFrame /\ RememberAckedSequence(a)
      /\ IF Timely(Head(read_accum))
         THEN /\ ProofOfLife
              /\ IF state = "kDegraded"
                 THEN TransitionTo("kHealthy", batch_now)
                 ELSE UNCHANGED <<state, state_entered>>
         ELSE UNCHANGED <<liveness, state, state_entered>>
  BY <1>2, <1>4, <1>8 DEF HandlePong
<1>10. /\ read_accum' = Tail(read_accum)
       /\ UNCHANGED <<pc, batch, batch_now, tick_now, next_ping_due, next_sequence, now, inbox,
                      delivered, heartbeat_interval>>
  BY <1>9 DEF DrainOn, DrainFrame, peer, config
<1>11. CASE Timely(Head(read_accum))
  <2>1. state' \in Live
    BY <1>8, <1>9, <1>11 DEF TransitionTo, Live
  <2>2. baseline' = batch_now /\ inherited' = 0 /\ consecutive_missed' <= drops
    BY <1>5, <1>9, <1>11 DEF ProofOfLife
  <2> QED BY <1>1, <1>9, <1>10, <2>1, <2>2
<1>12. CASE ~Timely(Head(read_accum))
  <2>1. baseline = batch_now
    BY <1>6, <1>7, <1>12
  <2>2. UNCHANGED <<liveness, state>>
    BY <1>9, <1>12
  <2> QED BY <1>1, <1>8, <1>9, <1>10, <2>1, <2>2 DEF liveness
<1> QED BY <1>11, <1>12

\* The PONGs left once the first one is handled.
LEMMA PongsAfter ==
  ASSUME Prompt, BaseInv, LinkInv, NEW sent \in Seq(Nat), NEW answered \in Seq(Nat),
         Session(sent, answered), SystemNext, MonitorStep, HandlePong,
         NEW a \in Nat, a = answered[Len(ack_log) + 1]
  PROVE  Pongs(sent, answered)'
<1>0. /\ pc = "drain" /\ read_accum # <<>> /\ RememberAckedSequence(a)
      /\ baseline' = batch_now /\ state' \in Live /\ read_accum' = Tail(read_accum)
      /\ UNCHANGED <<pc, batch, batch_now, inbox>>
  BY PongEffect
<1>1. PICK L \in Nat, R \in Nat : L = Len(ack_log) /\ R = L + Len(read_accum)
  BY SessionTypes, SMTT(30)
<1>2. /\ Len(answered) = R + Len(inbox)
      /\ \A i \in 1 .. L : ack_log[i] = answered[i]
      /\ \A i \in 1 .. Len(read_accum) : read_accum[i] = Pong(sent, answered[L + i])
      /\ \A i \in 1 .. Len(inbox) : inbox[i] = Pong(sent, answered[R + i])
      /\ batch_now <= sent[answered[L + 1] + 2] + 3 * BatchGap
      /\ inbox # <<>> => MonitorWaits(sent[answered[R + 1] + 2] + 2 * BatchGap)
  BY <1>0, <1>1 DEF Session, Pongs
<1>3. "EPOLLIN" \notin batch'
  BY <1>0 DEF LinkInv
<1>4. /\ read_accum' \in Seq(Message) /\ Len(read_accum') = Len(read_accum) - 1
      /\ \A i \in 1 .. Len(read_accum') : read_accum'[i] = read_accum[i + 1]
      /\ Len(read_accum) \in Nat /\ Len(read_accum) >= 1
  <2>1. read_accum \in Seq(Message)
    BY DEF BaseInv, TypeInv, TypeOK, TypeBuffers
  <2>2. Len(read_accum) \in Nat /\ Len(read_accum) >= 1
    BY <1>0, <2>1, NotEmpty
  <2> QED BY <1>0, <2>1, <2>2, HeadTailProperties
<1>5. /\ Len(ack_log') = L + 1
      /\ \A i \in 1 .. L + 1 : ack_log'[i] = answered[i]
  <2>1. ack_log' = Append(ack_log, a) /\ ack_log \in Seq(Nat)
    BY <1>0 DEF RememberAckedSequence, BaseInv, TypeInv, TypeOK, TypeAcks
  <2>2. /\ Len(ack_log') = L + 1 /\ ack_log'[L + 1] = a
        /\ \A i \in 1 .. L : ack_log'[i] = ack_log[i]
    BY <1>1, <2>1, AppendProperties
  <2>3. \A i \in 1 .. L + 1 : i \in 1 .. L \/ i = L + 1
    OBVIOUS
  <2>4. a = answered[L + 1]
    BY <1>1
  <2> QED BY <1>2, <2>2, <2>3, <2>4
<1>6. R = L + 1 + Len(read_accum')
  BY <1>1, <1>4
<1>7. \A i \in 1 .. Len(read_accum') : read_accum'[i] = Pong(sent, answered[L + 1 + i])
  <2> SUFFICES ASSUME NEW i \in 1 .. Len(read_accum')
               PROVE  read_accum'[i] = Pong(sent, answered[L + 1 + i])
    OBVIOUS
  <2>1. i + 1 \in 1 .. Len(read_accum) /\ L + (i + 1) = L + 1 + i
    BY <1>4
  <2>2. read_accum[i + 1] = Pong(sent, answered[L + (i + 1)])
    BY <1>2, <2>1
  <2> QED BY <1>4, <2>1, <2>2
<1>8. ASSUME read_accum' # <<>> PROVE batch_now' <= sent[answered[L + 1 + 1] + 2] + 3 * BatchGap
  <2>1. L + 1 \in 1 .. Len(answered) /\ L + 2 \in 1 .. Len(answered) /\ L + 1 < L + 2
          /\ L + 1 + 1 = L + 2
    <3>1. Len(read_accum') >= 1
      BY <1>4, <1>8, NotEmpty
    <3>2. Len(inbox) \in Nat
      BY SessionTypes
    <3>3. Len(answered) = R + Len(inbox) /\ R = L + 1 + Len(read_accum') /\ Len(read_accum') \in Int
      BY <1>2, <1>4, <1>6
    <3>4. Len(answered) >= L + 2
      BY <3>1, <3>2, <3>3
    <3>5. Len(answered) \in Nat
      BY SessionTypes
    <3> QED BY <3>4, <3>5
  <2>2. PICK b \in Nat : b = answered[L + 2] /\ b + 2 \in 1 .. next_sequence + 1
          /\ sent[b + 2] \in Nat
    BY <2>1, AnsweredIndex
  <2>3. a + 2 \in 1 .. next_sequence + 1 /\ sent[a + 2] \in Nat
    BY <1>1, <2>1, AnsweredIndex
  <2>4. a + ((L + 2) - (L + 1)) <= b
    BY <1>1, <2>1, <2>2 DEF Session, Answers
  <2>5. a + 2 < b + 2
    BY <2>4
  <2>6. sent[a + 2] <= sent[b + 2]
    BY <2>2, <2>3, <2>5, SessionTypes DEF Session, Sched
  <2>7. batch_now <= sent[a + 2] + 3 * BatchGap /\ batch_now \in Nat /\ BatchGap \in Nat
    BY <1>1, <1>2, SessionTypes, SystemAssumption
  <2>8. batch_now <= sent[b + 2] + 3 * BatchGap
    <3>1. PICK u \in Nat, v \in Nat : u = sent[a + 2] /\ v = sent[b + 2]
      BY <2>2, <2>3
    <3>2. u <= v /\ batch_now <= u + 3 * BatchGap
      BY <2>6, <2>7, <3>1
    <3>3. batch_now <= v + 3 * BatchGap
      BY <2>7, <3>2
    <3> QED BY <3>1, <3>3
  <2> QED BY <1>0, <2>1, <2>2, <2>8
<1>9. ASSUME inbox # <<>> PROVE MonitorWaits(sent[answered[R + 1] + 2] + 2 * BatchGap)'
  <2>1. R + 1 \in 1 .. Len(answered)
    <3>1. Len(inbox) \in Nat /\ Len(inbox) >= 1
      BY <1>9, NotEmpty DEF BaseInv, TypeInv, TypeOK, TypePeer
    <3> QED BY <1>2, <3>1
  <2>2. PICK t \in Nat : t = sent[answered[R + 1] + 2]
    BY <2>1, AnsweredIndex
  <2>3. t + 2 * BatchGap \in Nat
    BY SystemAssumption
  <2>4. ~OnReadable /\ state' # "kFailed"
    BY <1>0 DEF OnReadable, ReadDue, Live
  <2>5. MonitorWaits(t + 2 * BatchGap)'
    BY <1>2, <1>9, <2>2, <2>3, <2>4, MonitorWaitsStep
  <2> QED BY <2>2, <2>5
<1>10. /\ Len(answered) = R + Len(inbox') /\ pc' = "drain"
       /\ \A i \in 1 .. Len(inbox') : inbox'[i] = Pong(sent, answered[R + i])
       /\ inbox' # <<>> => MonitorWaits(sent[answered[R + 1] + 2] + 2 * BatchGap)'
       /\ read_accum' # <<>> =>
            /\ batch_now' <= sent[answered[L + 1 + 1] + 2] + 3 * BatchGap
            /\ sent[answered[L + 1 + 1] + 2] <= batch_now' \/ baseline' = batch_now'
  BY <1>0, <1>2, <1>8, <1>9
<1>11. PICK K \in Nat : K = L + 1
  OBVIOUS
<1> QED BY <1>3, <1>5, <1>6, <1>7, <1>10, <1>11 DEF Pongs

\* handle_pong keeps the session.
LEMMA PongStep ==
  ASSUME Prompt, BaseInv, LinkInv, Unaccepted, NEW sent \in Seq(Nat), NEW answered \in Seq(Nat),
         Session(sent, answered), SystemNext, MonitorStep, HandlePong
  PROVE  Session(sent, answered)'
<1>1. read_accum # <<>> /\ pc = "drain"
  BY DEF HandlePong, Draining
<1>2. PICK L \in Nat : L = Len(ack_log) /\ L + 1 \in 1 .. Len(answered)
  BY <1>1, NextPong, SessionTypes
<1>3. PICK a \in Nat : /\ a = answered[L + 1] /\ a = answered[Len(ack_log) + 1]
                       /\ sent[a + 2] \in Nat /\ sent[a + 2] <= now
  BY <1>2, AnsweredIndex
<1>4. /\ RememberAckedSequence(a)
      /\ baseline' = batch_now /\ inherited' = 0 /\ consecutive_missed' <= drops /\ state' \in Live
      /\ UNCHANGED <<batch_now, tick_now, next_ping_due, next_sequence, delivered>>
  BY <1>3, PongEffect
<1>5. /\ UNCHANGED <<now, heartbeat_interval, client, drops, reading, sim_batch_now>>
      /\ delivered # {} => \A t \in Nat : SimWaits(t) => SimWaits(t)'
  BY MonitorLeaves DEF Session
<1>6. Sched(sent)'
  <2>1. now \in Nat /\ next_sequence \in Nat
    BY SessionTypes
  <2> QED BY <1>4, <1>5, <2>1, SchedKept DEF Session
<1>7. Answers(answered)'
  BY <1>5 DEF Session, Answers, HandledPings
<1>8. Pings(sent, answered)'
  BY <1>4, <1>5, PingsKept
<1>9. Pongs(sent, answered)'
  BY <1>3, PongsAfter
<1>10. Evidence(sent, answered)'
  <2>1. ack_log' = Append(ack_log, a) /\ ack_log \in Seq(Nat)
    BY <1>4 DEF RememberAckedSequence, BaseInv, TypeInv, TypeOK, TypeAcks
  <2>2. Len(ack_log') = L + 1 /\ ack_log' # <<>>
    BY <1>2, <2>1, AppendProperties
  <2>3. LastAnswer(answered)' = a + 2
    BY <1>3, <2>2 DEF LastAnswer
  <2>4. sent[a + 2] <= baseline' + BatchGap
    <3>1. MonitorBusy
      BY <1>1 DEF MonitorBusy
    <3>2. now <= batch_now + BatchGap /\ now \in Nat /\ batch_now \in Nat /\ BatchGap \in Nat
      BY <3>1, SessionTypes, SystemAssumption DEF BaseInv, BatchInv
    <3> QED BY <1>3, <1>4, <3>2
  <2>5. \A i \in 0 .. AckedWindow - 1 : acked_sequences'[i] <= a
    <3>1. acked_sequences' = [acked_sequences EXCEPT ![acked_next] = a]
      BY <1>4 DEF RememberAckedSequence
    <3>2. \A i \in 0 .. AckedWindow - 1 : acked_sequences[i] <= a
      BY <1>1, <1>3, NextPong
    <3>3. acked_sequences \in [0 .. AckedWindow - 1 -> Nat]
      BY DEF BaseInv, TypeInv, TypeOK, TypeAcks
    <3> QED BY <3>1, <3>2, <3>3
  <2>6. answered[Len(ack_log')] = a
    BY <1>3, <2>2
  <2> QED BY <2>2, <2>3, <2>4, <2>5, <2>6 DEF Evidence
<1> QED BY <1>4, <1>5, <1>6, <1>7, <1>8, <1>9, <1>10 DEF Session

\* The schedule with one more PING.
LEMMA SchedGrows ==
  ASSUME Prompt, BaseInv, NEW sent \in Seq(Nat), Sched(sent), now >= next_ping_due,
         UNCHANGED <<now, heartbeat_interval>>, next_sequence' = next_sequence + 1,
         next_ping_due' = now + heartbeat_interval, tick_now' = now,
         NEW more \in Seq(Nat), more = Append(sent, now)
  PROVE  Sched(more)'
<1>0. PICK n \in Nat, I \in Nat, t \in Nat :
        /\ n = next_sequence + 1 /\ I = heartbeat_interval /\ t = now /\ I >= 1
        /\ Len(sent) = n /\ n >= 1
  <2>1. next_sequence \in Nat /\ now \in Nat
    BY DEF BaseInv, TypeInv, TypeOK, TypeReactor, TypeState
  <2>2. heartbeat_interval \in Nat /\ heartbeat_interval >= 1
    BY Room DEF BaseInv, TypeInv
  <2>3. Len(sent) = next_sequence + 1
    BY DEF Sched
  <2>4. next_sequence + 1 \in Nat /\ next_sequence + 1 >= 1
    BY <2>1
  <2> QED BY <2>1, <2>2, <2>3, <2>4
<1>1. PICK P \in Nat : P = Period /\ P = Period' /\ I <= P
  BY <1>0, Room, SMTT(30) DEF BaseInv, TypeInv, Period
<1>2. /\ Len(more) = n + 1 /\ more[n + 1] = t
      /\ \A i \in 1 .. n : more[i] = sent[i] /\ more[i] \in Nat
  <2>1. now \in Nat
    BY <1>0
  <2>2. /\ Len(more) = Len(sent) + 1 /\ more[Len(sent) + 1] = now
        /\ \A i \in 1 .. Len(sent) : more[i] = sent[i]
    BY <2>1, AppendProperties
  <2> QED BY <1>0, <2>2
<1>3. \A i \in 1 .. n + 1 : more[i] <= t /\ more[i] \in Nat
  <2>1. \A i \in 1 .. n : more[i] <= t
    BY <1>0, <1>2 DEF Sched
  <2>2. \A i \in 1 .. n + 1 : i \in 1 .. n \/ i = n + 1
    OBVIOUS
  <2> QED BY <1>2, <2>1, <2>2
<1>4. t <= more[n] + P /\ (n > 1 => more[n] + I <= t)
  <2>1. now <= sent[next_sequence + 1] + Period
    BY NextPing
  <2>2. n > 1 => next_ping_due = sent[n] + I
    BY <1>0 DEF Sched, BaseInv, TypeInv, TypeOK, TypeState
  <2>3. n \in 1 .. n
    BY <1>0
  <2> QED BY <1>0, <1>1, <1>2, <2>1, <2>2, <2>3
<1>5. ASSUME NEW i \in 1 .. n + 1, NEW j \in 1 .. n + 1, i < j
      PROVE  /\ more[i] <= more[j]
             /\ more[j] <= more[i] + (j - i) * P
             /\ i > 1 => more[i] + (j - i) * I <= more[j]
  <2>1. i \in 1 .. n
    BY <1>5
  <2>2. CASE j \in 1 .. n
    BY <1>0, <1>1, <1>2, <1>5, <2>1, <2>2 DEF Sched
  <2>3. CASE j = n + 1
    <3>1. CASE i = n
      <4>1. j - i = 1 /\ 1 * P = P /\ 1 * I = I
        BY <2>3, <3>1
      <4>2. more[j] = t /\ more[i] = more[n]
        BY <1>2, <2>3, <3>1
      <4> QED BY <1>0, <1>3, <1>4, <3>1, <4>1, <4>2
    <3>2. CASE i < n
      <4>1. /\ more[i] <= more[n]
            /\ more[n] <= more[i] + (n - i) * P
            /\ i > 1 => more[i] + (n - i) * I <= more[n]
        <5>1. n \in 1 .. n
          BY <1>0
        <5> QED BY <1>0, <1>1, <1>2, <2>1, <3>2, <5>1 DEF Sched
      <4>2. PICK d \in Nat : d = n - i /\ j - i = d + 1
        BY <2>1, <2>3, <3>2
      <4>3. (d + 1) * P = d * P + P /\ (d + 1) * I = d * I + I
        BY OneMoreMiss
      <4>4. PICK u \in Int, v \in Int : u = d * P /\ v = d * I
        OBVIOUS
      <4>5. PICK x \in Nat, y \in Nat : x = more[i] /\ y = more[n]
        BY <1>0, <1>2, <2>1
      <4>6. x <= y /\ y <= x + u /\ (i > 1 => x + v <= y) /\ t <= y + P /\ y <= t
        <5>1. n \in 1 .. n + 1
          BY <1>0
        <5> QED BY <1>3, <1>4, <4>1, <4>2, <4>4, <4>5, <5>1
      <4>7. i > 1 => y + I <= t
        BY <1>0, <1>4, <2>1, <3>2, <4>5
      <4>8. /\ x <= t /\ t <= x + (u + P) /\ (i > 1 => x + (v + I) <= t)
        <5>1. x \in Int /\ y \in Int /\ u \in Int /\ v \in Int /\ t \in Int /\ P \in Int
                /\ I \in Int
          BY <1>0, <1>1, <4>4, <4>5
        <5>2. x <= t /\ t <= x + (u + P)
          BY <4>6, <5>1
        <5>3. ASSUME i > 1 PROVE x + (v + I) <= t
          <6>1. x + v <= y /\ y + I <= t
            BY <4>6, <4>7, <5>3
          <6> QED BY <5>1, <6>1
        <5> QED BY <5>2, <5>3
      <4> QED BY <1>2, <2>3, <4>2, <4>3, <4>4, <4>5, <4>8
    <3>3. i = n \/ i < n
      BY <1>0, <2>1
    <3> QED BY <3>1, <3>2, <3>3
  <2>4. j \in 1 .. n \/ j = n + 1
    BY <1>0
  <2> QED BY <2>2, <2>3, <2>4
<1>6. next_sequence' = n /\ now' = t /\ heartbeat_interval' = I /\ tick_now' < next_ping_due'
  BY <1>0
<1>7. next_ping_due' = more[n + 1] + I
  BY <1>0, <1>2
<1>8. /\ Len(more) = next_sequence' + 1
      /\ next_sequence' = 0 => tick_now' = more[1] /\ next_ping_due' = 0
      /\ next_sequence' > 0 => /\ next_ping_due' = more[next_sequence' + 1] + heartbeat_interval'
                               /\ tick_now' < next_ping_due'
  BY <1>0, <1>2, <1>6, <1>7
<1>9. \A i \in 1 .. Len(more) : more[i] <= now'
  BY <1>2, <1>3, <1>6
<1>10. \A i \in 1 .. Len(more), j \in 1 .. Len(more) :
         i < j => /\ more[i] <= more[j]
                  /\ more[j] <= more[i] + (j - i) * Period'
                  /\ i > 1 => more[i] + (j - i) * heartbeat_interval' <= more[j]
  BY <1>1, <1>2, <1>5, <1>6
<1> QED BY <1>8, <1>9, <1>10 DEF Sched

\* Later PINGs change nothing about the PONGs on their way.
LEMMA PongsExtended ==
  ASSUME BaseInv, NEW sent \in Seq(Nat), NEW more \in Seq(Nat), NEW answered \in Seq(Nat),
         Pongs(sent, answered),
         \A i \in 1 .. Len(answered) : more[answered[i] + 2] = sent[answered[i] + 2]
  PROVE  Pongs(more, answered)
<1>1. PICK L \in Nat, R \in Nat, k \in Nat, m \in Nat :
        /\ L = Len(ack_log) /\ R = L + Len(read_accum) /\ k = Len(read_accum) /\ m = Len(inbox)
  <2>1. Len(ack_log) \in Nat /\ Len(read_accum) \in Nat /\ Len(inbox) \in Nat
    BY DEF BaseInv, TypeInv, TypeOK, TypeAcks, TypeBuffers, TypePeer
  <2>2. Len(ack_log) + Len(read_accum) \in Nat
    BY <2>1
  <2> QED BY <2>1, <2>2
<1>2. /\ Len(answered) = R + m
      /\ pc # "drain" => read_accum = <<>>
      /\ \A i \in 1 .. L : ack_log[i] = answered[i]
      /\ \A i \in 1 .. k : read_accum[i] = Pong(sent, answered[L + i])
      /\ \A i \in 1 .. m : inbox[i] = Pong(sent, answered[R + i])
      /\ read_accum # <<>> => /\ batch_now <= sent[answered[L + 1] + 2] + 3 * BatchGap
                              /\ sent[answered[L + 1] + 2] <= batch_now \/ baseline = batch_now
      /\ inbox # <<>> => MonitorWaits(sent[answered[R + 1] + 2] + 2 * BatchGap)
      /\ "EPOLLIN" \in batch => inbox # <<>> /\ sent[answered[R + 1] + 2] <= batch_now
  BY <1>1 DEF Pongs
<1>3. \A i \in 1 .. Len(answered) : Pong(more, answered[i]) = Pong(sent, answered[i])
  BY DEF Pong
<1>4. \A i \in 1 .. k : L + i \in 1 .. Len(answered)
  <2>1. R = L + k /\ Len(answered) = R + m
    BY <1>1, <1>2
  <2> QED BY <2>1
<1>5. \A i \in 1 .. m : R + i \in 1 .. Len(answered)
  BY <1>1, <1>2
<1>6. read_accum # <<>> => more[answered[L + 1] + 2] = sent[answered[L + 1] + 2]
  <2>1. read_accum # <<>> => 1 \in 1 .. k
    BY <1>1, NotEmpty DEF BaseInv, TypeInv, TypeOK, TypeBuffers
  <2> QED BY <1>4, <2>1
<1>7. inbox # <<>> => more[answered[R + 1] + 2] = sent[answered[R + 1] + 2]
  <2>1. inbox # <<>> => 1 \in 1 .. m
    BY <1>1, NotEmpty DEF BaseInv, TypeInv, TypeOK, TypePeer
  <2> QED BY <1>5, <2>1
<1>8. /\ \A i \in 1 .. k : read_accum[i] = Pong(more, answered[L + i])
      /\ \A i \in 1 .. m : inbox[i] = Pong(more, answered[R + i])
  BY <1>2, <1>3, <1>4, <1>5
<1>9. inbox # <<>> => MonitorWaits(more[answered[R + 1] + 2] + 2 * BatchGap)
  BY <1>2, <1>7
<1>10. /\ "EPOLLIN" \in batch => inbox # <<>> /\ more[answered[R + 1] + 2] <= batch_now
       /\ read_accum # <<>> => /\ batch_now <= more[answered[L + 1] + 2] + 3 * BatchGap
                               /\ more[answered[L + 1] + 2] <= batch_now \/ baseline = batch_now
  BY <1>2, <1>6, <1>7
<1> QED BY <1>1, <1>2, <1>8, <1>9, <1>10 DEF Pongs

\* send_ping, in a tick: the socket takes the PING whole.
LEMMA PingEffect ==
  ASSUME Prompt, BaseInv, LinkInv, TickPing
  PROVE  /\ delivered' = delivered \cup {Msg("kPing", next_sequence, now)}
         /\ state' = state /\ tick_now' = now /\ now >= next_ping_due /\ pc = "loop"
         /\ next_sequence' = next_sequence + 1 /\ next_ping_due' = now + heartbeat_interval
         /\ batch' = batch \ {"timer"}
         /\ UNCHANGED <<batch_now, liveness, acks, read_accum, inbox>>
<1> DEFINE ping == Msg("kPing", next_sequence, now)
<1>1. ping \in Message
  BY MsgType DEF BaseInv, TypeInv, TypeOK, TypeReactor, TypeState
<1>2. PICK o \in QueueOutcomes(ping) :
        /\ delivered' = Deliver(Append(write_pending, ping), o.sent)
        /\ o.failed = "none" => UNCHANGED <<state, state_entered, reason>>
  BY DEF TickPing
<1>3. o.failed = "none" /\ Deliver(Append(write_pending, ping), o.sent) = delivered \cup {ping}
  BY <1>1, SendOutcome
<1>4. delivered' = delivered \cup {ping} /\ state' = state
  BY <1>2, <1>3
<1> QED BY <1>4 DEF TickPing, TickStart

\* The PINGs on their way, with the new one last.
LEMMA PingsGrow ==
  ASSUME Prompt, BaseInv, NEW sent \in Seq(Nat), NEW answered \in Seq(Nat),
         Session(sent, answered), NEW more \in Seq(Nat), more = Append(sent, now),
         delivered' = delivered \cup {Msg("kPing", next_sequence, now)},
         next_sequence' = next_sequence + 1,
         UNCHANGED <<now, client, drops, reading, sim_batch_now>>,
         delivered # {} => \A t \in Nat : SimWaits(t) => SimWaits(t)'
  PROVE  Pings(more, answered)'
<1>1. PICK h \in Nat, n \in Nat : h = HandledPings(answered) /\ n = next_sequence /\ h <= n
  BY SessionTypes
<1>2. HandledPings(answered)' = h
  BY <1>1 DEF HandledPings
<1>3. PICK r \in h .. n :
        /\ reading = {Ping(sent, q) : q \in h .. r - 1}
        /\ delivered = {Ping(sent, q) : q \in r .. n - 1}
        /\ h < r => sim_batch_now <= sent[h + 2] + BatchGap
        /\ r < n => SimWaits(sent[r + 2])
  BY <1>1 DEF Session, Pings
<1>4. /\ \A i \in 1 .. n + 1 : more[i] = sent[i] /\ more[i] \in Nat
      /\ more[n + 2] = now /\ now \in Nat
  <2>1. now \in Nat /\ Len(sent) = n + 1
    BY <1>1, SessionTypes
  <2>2. /\ more[Len(sent) + 1] = now
        /\ \A i \in 1 .. Len(sent) : more[i] = sent[i]
    BY <2>1, AppendProperties
  <2> QED BY <1>1, <2>1, <2>2
<1>5. \A q \in 0 .. n - 1 : Ping(more, q) = Ping(sent, q)
  <2> SUFFICES ASSUME NEW q \in 0 .. n - 1 PROVE more[q + 2] = sent[q + 2]
    BY DEF Ping
  <2>1. q + 2 \in 1 .. n + 1
    BY <1>1
  <2> QED BY <1>4, <2>1
<1>6. reading' = {Ping(more, q) : q \in h .. r - 1}
  <2>1. \A q \in h .. r - 1 : q \in 0 .. n - 1
    BY <1>1, <1>3
  <2> QED BY <1>3, <1>5, <2>1
<1>7. delivered' = {Ping(more, q) : q \in r .. (n + 1) - 1}
  <2>1. \A q \in r .. n - 1 : q \in 0 .. n - 1
    BY <1>1, <1>3
  <2>2. Ping(more, n) = Msg("kPing", n, now)
    BY <1>4 DEF Ping
  <2>3. r .. (n + 1) - 1 = (r .. n - 1) \cup {n}
    BY <1>1, <1>3
  <2>4. delivered = {Ping(more, q) : q \in r .. n - 1}
    BY <1>3, <1>5, <2>1
  <2> QED BY <1>1, <2>2, <2>3, <2>4
<1>8. h + 1 \in 1 .. n + 1 /\ more[h + 1] <= client'.last_liveness + 3 * BatchGap
  <2>1. h + 1 \in 1 .. n + 1
    BY <1>1
  <2>2. sent[h + 1] <= client.last_liveness + 3 * BatchGap
    BY <1>1 DEF Session, Pings
  <2> QED BY <1>4, <2>1, <2>2
<1>9. h < r => sim_batch_now' <= more[h + 2] + BatchGap
  <2>1. h < r => h + 2 \in 1 .. n + 1
    BY <1>1, <1>3
  <2> QED BY <1>3, <1>4, <2>1
<1>10. SimWaits(more[r + 2])'
  <2>1. CASE r < n
    <3>1. r \in r .. n - 1 /\ r + 2 \in 1 .. n + 1
      BY <1>1, <1>3, <2>1
    <3>2. Ping(sent, r) \in delivered
      BY <1>3, <3>1
    <3>3. PICK t \in Nat : t = sent[r + 2] /\ t = more[r + 2]
      BY <1>4, <3>1
    <3>4. SimWaits(t)'
      BY <1>3, <2>1, <3>2, <3>3
    <3> QED BY <3>3, <3>4
  <2>2. CASE r = n
    <3>1. now' = now /\ sim_batch_now' <= now /\ BatchGap \in Nat
      BY SystemAssumption DEF BaseInv, BatchInv
    <3>2. more[r + 2] = now
      BY <1>4, <2>2
    <3> QED BY <1>4, <3>1, <3>2 DEF SimWaits
  <2>3. r < n \/ r = n
    BY <1>1, <1>3
  <2> QED BY <2>1, <2>2, <2>3
<1>11. r \in h .. n + 1
  BY <1>1, <1>3
<1>12. next_sequence' = n + 1
  BY <1>1
<1> QED BY <1>2, <1>6, <1>7, <1>8, <1>9, <1>10, <1>11, <1>12 DEF Pings

\* A tick that sends a PING keeps the session.
LEMMA PingStep ==
  ASSUME Prompt, BaseInv, LinkInv, Unaccepted, NEW sent \in Seq(Nat), NEW answered \in Seq(Nat),
         Session(sent, answered), SystemNext, MonitorStep, TickPing
  PROVE  \E more \in Seq(Nat) : Session(more, answered)'
<1>0. /\ delivered' = delivered \cup {Msg("kPing", next_sequence, now)}
      /\ state' = state /\ tick_now' = now /\ now >= next_ping_due /\ pc = "loop"
      /\ next_sequence' = next_sequence + 1 /\ next_ping_due' = now + heartbeat_interval
      /\ batch' = batch \ {"timer"}
      /\ UNCHANGED <<batch_now, liveness, acks, read_accum, inbox>>
  BY PingEffect
<1>1. /\ UNCHANGED <<now, heartbeat_interval, batch_now, client, drops, reading, sim_batch_now>>
      /\ delivered # {} => \A t \in Nat : SimWaits(t) => SimWaits(t)'
  BY MonitorLeaves DEF Session
<1>2. now \in Nat /\ next_sequence \in Nat /\ Len(sent) = next_sequence + 1
  BY SessionTypes
<1>3. PICK more \in Seq(Nat) : more = Append(sent, now)
  BY <1>2, AppendProperties
<1>4. Sched(more)'
  BY <1>0, <1>1, <1>3, SchedGrows DEF Session
<1>5. Answers(answered)'
  BY <1>1 DEF Session, Answers, HandledPings
<1>6. Pings(more, answered)'
  BY <1>0, <1>1, <1>3, PingsGrow
<1>7. \A i \in 1 .. next_sequence + 1 : more[i] = sent[i]
  BY <1>2, <1>3, AppendProperties
<1>8. \A i \in 1 .. Len(answered) : /\ more[answered[i] + 2] = sent[answered[i] + 2]
                                    /\ more[answered[i] + 2] \in Nat
                                    /\ more[answered[i] + 2] <= now
  <2> SUFFICES ASSUME NEW i \in 1 .. Len(answered)
               PROVE  /\ more[answered[i] + 2] = sent[answered[i] + 2]
                      /\ more[answered[i] + 2] \in Nat
                      /\ more[answered[i] + 2] <= now
    OBVIOUS
  <2>1. /\ answered[i] + 2 \in 1 .. next_sequence + 1
        /\ sent[answered[i] + 2] \in Nat /\ sent[answered[i] + 2] <= now
    BY AnsweredIndex
  <2>2. more[answered[i] + 2] = sent[answered[i] + 2]
    BY <1>7, <2>1
  <2> QED BY <2>1, <2>2
<1>9. Pongs(more, answered)'
  <2>1. Pongs(more, answered)
    BY <1>8, PongsExtended DEF Session
  <2>2. read_accum = <<>>
    BY <1>0 DEF Session, Pongs
  <2>3. ~OnReadable /\ state' # "kFailed"
    <3>1. OnReadable => "EPOLLIN" \in batch /\ "EPOLLIN" \notin batch'
      BY DEF OnReadable, ReadDue, OnConnectionFailed, ConnEvents, LinkInv
    <3> QED BY <1>0, <3>1 DEF Session, Live
  <2>4. inbox # <<>> => \A t \in Nat : MonitorWaits(t) => MonitorWaits(t)'
    BY <2>3, MonitorWaitsStep
  <2>5. "EPOLLIN" \in batch' => "EPOLLIN" \in batch
    BY <1>0
  <2>6. UNCHANGED <<ack_log, read_accum, inbox, baseline, batch_now>>
    BY <1>0 DEF liveness, acks
  <2>7. \A i \in 1 .. Len(answered) :
          more[answered[i] + 2] \in Nat /\ more[answered[i] + 2] <= now
    BY <1>8
  <2> QED BY <2>1, <2>2, <2>4, <2>5, <2>6, <2>7, PongsKept
<1>10. Evidence(more, answered)'
  <2>1. UNCHANGED <<ack_log, acked_count, acked_sequences, baseline>>
    BY <1>0 DEF liveness, acks
  <2>2. LastAnswer(answered)' = LastAnswer(answered)
    BY <2>1 DEF LastAnswer
  <2>3. PICK l \in Nat : l = LastAnswer(answered) /\ l \in 1 .. next_sequence + 1
    <3>1. /\ LastAnswer(answered) \in 1 .. HandledPings(answered) + 1
          /\ HandledPings(answered) \in 0 .. next_sequence
      BY LastAnswerBounds, SessionTypes
    <3> QED BY <1>2, <3>1
  <2>4. more[l] = sent[l]
    BY <1>7, <2>3
  <2>5. more[LastAnswer(answered)'] <= baseline' + BatchGap
    BY <2>1, <2>2, <2>3, <2>4 DEF Session, Evidence
  <2>6. /\ ack_log' = <<>> => acked_count' = 0
        /\ \A i \in 0 .. AckedWindow - 1 :
             acked_sequences'[i] <= IF ack_log' = <<>> THEN 0 ELSE answered[Len(ack_log')]
    BY <2>1 DEF Session, Evidence
  <2> QED BY <2>5, <2>6 DEF Evidence
<1>11. /\ state' \in Live /\ client'.state = "kHealthy"
       /\ inherited' = 0 /\ consecutive_missed' <= drops'
  BY <1>0, <1>1 DEF Session, liveness
<1>12. Session(more, answered)'
  BY <1>4, <1>5, <1>6, <1>9, <1>10, <1>11 DEF Session
<1> QED BY <1>3, <1>12

\* What a step of the simulator leaves to the monitor.
LEMMA SimLeaves ==
  ASSUME Prompt, BaseInv, LinkInv, SystemNext, SimSteps, state \in Live
  PROVE  /\ UNCHANGED <<now, heartbeat_interval, pc, batch, batch_now, tick_now, next_ping_due,
                        next_sequence, state, liveness, acks, read_accum>>
         /\ inbox # <<>> => \A t \in Nat : MonitorWaits(t) => MonitorWaits(t)'
<1>1. UNCHANGED <<now, config, reactor, slot, state, next_sequence, liveness, acks, buffers>>
  BY SimFrames DEF SimFrame
<1>2. UNCHANGED <<now, heartbeat_interval, pc, batch, batch_now, tick_now, next_ping_due,
                  next_sequence, state, liveness, acks, read_accum>>
  BY <1>1 DEF config, reactor, slot, buffers
<1>3. OnReadable => "EPOLLIN" \in batch /\ "EPOLLIN" \notin batch'
  BY DEF OnReadable, ReadDue, OnConnectionFailed, ConnEvents, LinkInv
<1>4. ~OnReadable /\ state' # "kFailed"
  BY <1>2, <1>3 DEF Live
<1> QED BY <1>2, <1>4, MonitorWaitsStep

\* on_readable of the simulator: it takes every PING the socket holds.
LEMMA SimReadableStep ==
  ASSUME Prompt, BaseInv, LinkInv, NEW sent \in Seq(Nat), NEW answered \in Seq(Nat),
         Session(sent, answered), SystemNext, SimOnReadable
  PROVE  Session(sent, answered)'
<1>1. /\ UNCHANGED <<now, heartbeat_interval, pc, batch, batch_now, tick_now, next_ping_due,
                     next_sequence, state, liveness, acks, read_accum>>
      /\ inbox # <<>> => \A t \in Nat : MonitorWaits(t) => MonitorWaits(t)'
  BY SimLeaves DEF SimSteps, Session
<1>2. /\ reading = {} /\ "EPOLLIN" \in sim_batch /\ reading' = delivered /\ delivered' = {}
      /\ UNCHANGED <<inbox, client, sim_batch_now, drops>>
  BY DEF SimOnReadable, SimIdle
<1>3. Sched(sent)'
  <2>1. now \in Nat /\ next_sequence \in Nat
    BY SessionTypes
  <2> QED BY <1>1, <2>1, SchedKept DEF Session
<1>4. Answers(answered)'
  BY <1>2 DEF Session, Answers, HandledPings
<1>5. Pings(sent, answered)'
  <2>1. PICK h \in Nat, n \in Nat : h = HandledPings(answered) /\ n = next_sequence /\ h <= n
    BY SessionTypes
  <2>2. HandledPings(answered)' = h
    BY <1>2, <2>1 DEF HandledPings
  <2>3. PICK r \in h .. n :
          /\ reading = {Ping(sent, q) : q \in h .. r - 1}
          /\ delivered = {Ping(sent, q) : q \in r .. n - 1}
          /\ r < n => SimWaits(sent[r + 2])
    BY <2>1 DEF Session, Pings
  <2>4. r = h
    <3> SUFFICES ASSUME h < r PROVE FALSE
      BY <2>1, <2>3
    <3>1. h \in h .. r - 1
      BY <2>1, <2>3
    <3>2. Ping(sent, h) \in reading
      BY <2>3, <3>1
    <3> QED BY <1>2, <3>2
  <2>5. h < n => sim_batch_now' <= sent[h + 2] + BatchGap
    <3> SUFFICES ASSUME h < n PROVE sim_batch_now <= sent[h + 2] + BatchGap
      BY <1>2
    <3>1. h + 2 \in 1 .. next_sequence + 1
      BY <2>1
    <3>2. PICK t \in Nat : t = sent[h + 2]
      BY <3>1, SessionTypes
    <3>3. SimWaits(t) /\ SimBusy
      BY <1>2, <2>3, <2>4, <3>2 DEF SimBusy
    <3>4. sim_batch_now \in Nat /\ BatchGap \in Nat /\ now \in Nat
      BY SessionTypes, SystemAssumption
    <3>5. sim_batch_now <= t + BatchGap
      BY <3>3, <3>4 DEF SimWaits
    <3> QED BY <3>2, <3>5
  <2>6. /\ reading' = {Ping(sent, q) : q \in h .. n - 1}
        /\ delivered' = {Ping(sent, q) : q \in n .. n - 1}
    <3>1. n .. n - 1 = {}
      BY <2>1
    <3> QED BY <1>2, <2>3, <2>4, <3>1
  <2>7. sent[h + 1] <= client'.last_liveness + 3 * BatchGap
    BY <1>2, <2>1 DEF Session, Pings
  <2>8. n \in h .. n /\ ~(n < n) /\ next_sequence' = n
    BY <1>1, <2>1
  <2> QED BY <2>2, <2>5, <2>6, <2>7, <2>8 DEF Pings
<1>6. Pongs(sent, answered)'
  <2>1. UNCHANGED <<ack_log, read_accum, inbox, baseline, batch_now, batch, pc>>
    BY <1>1, <1>2 DEF liveness, acks
  <2>2. Pongs(sent, answered) /\ (read_accum # <<>> => pc' = "drain")
    BY <2>1 DEF Session, Pongs
  <2>3. \A i \in 1 .. Len(answered) :
          sent[answered[i] + 2] \in Nat /\ sent[answered[i] + 2] <= now
    BY AnsweredIndex
  <2> QED BY <1>1, <2>1, <2>2, <2>3, PongsKept
<1>7. Evidence(sent, answered)'
  BY <1>1 DEF Session, Evidence, LastAnswer, liveness, acks
<1> QED BY <1>1, <1>2, <1>3, <1>4, <1>5, <1>6, <1>7 DEF Session, liveness

\* handle_ping takes the oldest PING not handled yet; its reply is sent or dropped.
LEMMA SimPingEffect ==
  ASSUME Prompt, BaseInv, NEW sent \in Seq(Nat), NEW answered \in Seq(Nat),
         Session(sent, answered), SimPing, NEW h \in Nat, h = HandledPings(answered)
  PROVE  /\ \E r \in h + 1 .. next_sequence :
              /\ reading' = {Ping(sent, q) : q \in h + 1 .. r - 1}
              /\ delivered' = {Ping(sent, q) : q \in r .. next_sequence - 1}
              /\ delivered' = delivered
              /\ sim_batch_now <= sent[h + 2] + BatchGap
              /\ r < next_sequence => SimWaits(sent[r + 2])
         /\ reading # {} /\ sim_batch_now' = sim_batch_now
         /\ client'.state = "kHealthy" /\ client'.last_liveness = sim_batch_now
         /\ \/ drops' = drops + 1 /\ inbox' = inbox
            \/ drops' = drops /\ inbox' = Append(inbox, Pong(sent, h))
<1>1. PICK r \in h .. next_sequence :
        /\ reading = {Ping(sent, q) : q \in h .. r - 1}
        /\ delivered = {Ping(sent, q) : q \in r .. next_sequence - 1}
        /\ h < r => sim_batch_now <= sent[h + 2] + BatchGap
        /\ r < next_sequence => SimWaits(sent[r + 2])
  BY DEF Session, Pings
<1>2. PICK m \in reading :
        /\ m.type = "kPing" /\ client.state = "kHealthy" /\ Handled(m)
        /\ \/ drops' = drops + 1 /\ inbox' = inbox
           \/ drops' = drops /\ inbox' = Append(inbox, Msg("kPong", m.sequence, m.timestamp_ns))
        /\ client' = [client EXCEPT !.last_liveness = sim_batch_now]
  BY DEF SimPing, SimPinged, Reply
<1>3. next_sequence \in Nat
  BY SessionTypes
<1>4. PICK p \in h .. r - 1 : m = Ping(sent, p)
  BY <1>1, <1>2
<1>5. h < r /\ h \in h .. r - 1
  BY <1>1, <1>3, <1>4
<1>6. p = h
  <2>1. Ping(sent, h) \in reading
    BY <1>1, <1>5
  <2>2. m.sequence <= Ping(sent, h).sequence
    BY <1>2, <2>1 DEF Handled, Oldest
  <2>3. p <= h
    BY <1>4, <2>2 DEF Ping, Msg
  <2> QED BY <1>4, <2>3
<1>7. /\ reading' = reading \ {Ping(sent, h)}
      /\ delivered' = delivered /\ sim_batch_now' = sim_batch_now
  BY <1>2, <1>4, <1>6 DEF Handled
<1>8. reading' = {Ping(sent, q) : q \in h + 1 .. r - 1}
  <2>1. \A q \in h .. r - 1 : q # h => Ping(sent, q) # Ping(sent, h)
    BY DEF Ping, Msg
  <2>2. \A q : q \in h + 1 .. r - 1 <=> q \in h .. r - 1 /\ q # h
    BY <1>1
  <2> QED BY <1>1, <1>7, <2>1, <2>2
<1>9. Msg("kPong", m.sequence, m.timestamp_ns) = Pong(sent, h)
  BY <1>4, <1>6 DEF Ping, Pong, Msg
<1>10. client'.state = "kHealthy" /\ client'.last_liveness = sim_batch_now
  BY <1>2 DEF BaseInv, TypeSim
<1>11. r \in h + 1 .. next_sequence
  BY <1>1, <1>3, <1>5
<1> QED BY <1>1, <1>2, <1>5, <1>7, <1>8, <1>9, <1>10, <1>11

\* The PINGs left once the oldest one is handled, whatever became of its reply.
LEMMA PingHandled ==
  ASSUME Prompt, BaseInv, LinkInv, Unaccepted, NEW sent \in Seq(Nat), NEW answered \in Seq(Nat),
         Session(sent, answered), SystemNext, SimPing, NEW next \in Seq(Nat),
         HandledPings(next)' = HandledPings(answered) + 1
  PROVE  Pings(sent, next)'
<1>1. PICK h \in Nat, n \in Nat : h = HandledPings(answered) /\ n = next_sequence
  <2>1. HandledPings(answered) \in Nat /\ next_sequence \in Nat
    BY SessionTypes
  <2> QED BY <2>1
<1>2. PICK r \in h + 1 .. n :
        /\ reading' = {Ping(sent, q) : q \in h + 1 .. r - 1}
        /\ delivered' = {Ping(sent, q) : q \in r .. n - 1}
        /\ delivered' = delivered
        /\ sim_batch_now <= sent[h + 2] + BatchGap
        /\ r < n => SimWaits(sent[r + 2])
  BY <1>1, SimPingEffect
<1>3. /\ reading # {} /\ sim_batch_now' = sim_batch_now
      /\ client'.state = "kHealthy" /\ client'.last_liveness = sim_batch_now
  BY <1>1, SimPingEffect
<1>4. next_sequence' = n
  BY <1>1, SimLeaves DEF SimSteps, Session
<1>5. \A i \in 1 .. n + 1 : sent[i] \in Nat
  BY <1>1, SessionTypes
<1>6. /\ now \in Nat /\ sim_batch_now \in Nat /\ BatchGap \in Nat /\ now <= sim_batch_now + BatchGap
  BY <1>3, SessionTypes, SystemAssumption DEF BaseInv, BatchInv, SimBusy
<1>7. h + 2 \in 1 .. n + 1
  BY <1>1, <1>2
<1>8. sent[h + 1 + 1] <= client'.last_liveness + 3 * BatchGap
  <2>1. PICK t \in Nat : t = sent[h + 2] /\ t <= now
    BY <1>1, <1>5, <1>7, SessionTypes DEF Session, Sched
  <2>2. t <= sim_batch_now + 3 * BatchGap
    BY <1>6, <2>1
  <2>3. h + 1 + 1 = h + 2
    OBVIOUS
  <2> QED BY <1>3, <2>1, <2>2, <2>3
<1>9. h + 1 < r => sim_batch_now' <= sent[h + 1 + 2] + BatchGap
  <2> SUFFICES ASSUME h + 1 < r PROVE sim_batch_now <= sent[h + 1 + 2] + BatchGap
    BY <1>3
  <2>1. h + 3 \in 1 .. n + 1 /\ h + 2 < h + 3 /\ h + 1 + 2 = h + 3
    BY <1>1, <1>2
  <2>2. sent[h + 2] <= sent[h + 3]
    BY <1>1, <1>7, <2>1, SessionTypes DEF Session, Sched
  <2>3. PICK t \in Nat, u \in Nat : t = sent[h + 2] /\ u = sent[h + 3]
    BY <1>5, <1>7, <2>1
  <2>4. t <= u /\ sim_batch_now <= t + BatchGap
    BY <1>2, <2>2, <2>3
  <2>5. sim_batch_now <= u + BatchGap
    BY <1>6, <2>4
  <2> QED BY <2>1, <2>3, <2>5
<1>10. r < n => SimWaits(sent[r + 2])'
  <2> SUFFICES ASSUME r < n PROVE SimWaits(sent[r + 2])'
    OBVIOUS
  <2>1. r \in r .. n - 1 /\ r + 2 \in 1 .. n + 1
    BY <1>1, <1>2
  <2>2. delivered # {}
    BY <1>2, <2>1
  <2>3. PICK t \in Nat : t = sent[r + 2]
    BY <1>5, <2>1
  <2>4. ~SimOnReadable /\ client'.state # "kFailed"
    BY <1>3 DEF SimOnReadable, SimIdle
  <2>5. SimWaits(t)'
    BY <1>2, <2>2, <2>3, <2>4, SimWaitsStep
  <2> QED BY <2>3, <2>5
<1>11. HandledPings(next)' = h + 1
  BY <1>1
<1> QED BY <1>2, <1>4, <1>8, <1>9, <1>10, <1>11 DEF Pings

\* A reply more: the answers stay in order.
LEMMA AnswersGrow ==
  ASSUME Prompt, BaseInv, NEW sent \in Seq(Nat), NEW answered \in Seq(Nat),
         Session(sent, answered), drops' = drops, NEW h \in Nat, h = HandledPings(answered),
         NEW more \in Seq(Nat), more = Append(answered, h)
  PROVE  Answers(more)' /\ HandledPings(more)' = h + 1
<1>1. PICK N \in Nat, d \in Nat : N = Len(answered) /\ d = drops /\ h = d + N
  BY SessionTypes
<1>2. /\ Len(more) = N + 1 /\ more[N + 1] = h
      /\ \A i \in 1 .. N : more[i] = answered[i]
  BY <1>1, AppendProperties
<1>3. HandledPings(more)' = h + 1
  BY <1>1, <1>2 DEF HandledPings
<1>4. \A i \in 1 .. N : /\ answered[i] \in i - 1 .. i - 1 + d /\ answered[i] < h
                        /\ answered[i] \in Nat
  BY <1>1, SessionTypes DEF Session, Answers
<1>5. \A i \in 1 .. N, j \in 1 .. N : i < j => answered[i] + (j - i) <= answered[j]
  BY <1>1 DEF Session, Answers
<1>6. \A i \in 1 .. N + 1 : i \in 1 .. N \/ i = N + 1
  OBVIOUS
<1>7. \A i \in 1 .. N + 1 : more[i] \in i - 1 .. i - 1 + d /\ more[i] < h + 1
  <2> SUFFICES ASSUME NEW i \in 1 .. N + 1
               PROVE  more[i] \in i - 1 .. i - 1 + d /\ more[i] < h + 1
    OBVIOUS
  <2>1. CASE i \in 1 .. N
    <3>1. PICK a \in Nat : a = answered[i]
      BY <1>4, <2>1
    <3>2. a \in i - 1 .. i - 1 + d /\ a < h
      BY <1>4, <2>1, <3>1
    <3>3. a < h + 1
      BY <3>2
    <3> QED BY <1>2, <2>1, <3>1, <3>2, <3>3
  <2>2. CASE i = N + 1
    <3>1. h \in i - 1 .. i - 1 + d /\ h < h + 1
      BY <1>1, <2>2
    <3> QED BY <1>2, <2>2, <3>1
  <2> QED BY <1>6, <2>1, <2>2
<1>8. ASSUME NEW i \in 1 .. N + 1, NEW j \in 1 .. N + 1, i < j
      PROVE  more[i] + (j - i) <= more[j]
  <2>1. i \in 1 .. N
    BY <1>8
  <2>2. CASE j \in 1 .. N
    BY <1>2, <1>5, <1>8, <2>1, <2>2
  <2>3. CASE j = N + 1
    <3>1. N \in 1 .. N
      BY <2>1
    <3>2. PICK a \in Nat, b \in Nat : a = answered[i] /\ b = answered[N] /\ b < h
      BY <1>4, <2>1, <3>1
    <3>3. i < N => a + (N - i) <= b
      BY <1>5, <2>1, <3>1, <3>2
    <3>4. i = N => a = b
      BY <3>2
    <3>5. a + (j - i) <= h
      <4>1. a \in Nat /\ b \in Nat /\ b < h /\ i \in 1 .. N /\ j = N + 1
        BY <2>1, <2>3, <3>2
      <4>2. a + (N - i) <= b
        BY <3>3, <3>4, <4>1
      <4> QED BY <4>1, <4>2
    <3> QED BY <1>2, <2>1, <2>3, <3>2, <3>5
  <2> QED BY <1>6, <2>2, <2>3
<1> QED BY <1>1, <1>2, <1>3, <1>7, <1>8 DEF Answers

\* A reply dropped: one more may be missing before each answer.
LEMMA AnswersDropped ==
  ASSUME Prompt, BaseInv, NEW sent \in Seq(Nat), NEW answered \in Seq(Nat),
         Session(sent, answered), drops' = drops + 1
  PROVE  Answers(answered)' /\ HandledPings(answered)' = HandledPings(answered) + 1
<1>1. PICK N \in Nat, d \in Nat, h \in Nat :
        N = Len(answered) /\ d = drops /\ h = d + N /\ h = HandledPings(answered)
  BY SessionTypes
<1>2. HandledPings(answered)' = h + 1
  BY <1>1 DEF HandledPings
<1>3. \A i \in 1 .. N : answered[i] \in i - 1 .. i - 1 + (d + 1) /\ answered[i] < h + 1
  <2> SUFFICES ASSUME NEW i \in 1 .. N
               PROVE  answered[i] \in i - 1 .. i - 1 + (d + 1) /\ answered[i] < h + 1
    OBVIOUS
  <2>1. PICK a \in Nat : a = answered[i]
    BY <1>1, SessionTypes
  <2>2. a \in i - 1 .. i - 1 + d /\ a < h
    BY <1>1, <2>1 DEF Session, Answers
  <2>3. a \in i - 1 .. i - 1 + (d + 1) /\ a < h + 1
    BY <2>2
  <2> QED BY <2>1, <2>3
<1>4. \A i \in 1 .. N, j \in 1 .. N : i < j => answered[i] + (j - i) <= answered[j]
  BY <1>1 DEF Session, Answers
<1> QED BY <1>1, <1>2, <1>3, <1>4 DEF Answers

\* The PONGs on their way, with the new one last.
LEMMA PongsGrow ==
  ASSUME Prompt, BaseInv, NEW sent \in Seq(Nat), NEW answered \in Seq(Nat),
         Session(sent, answered), NEW h \in Nat, h = HandledPings(answered), h < next_sequence,
         NEW more \in Seq(Nat), more = Append(answered, h),
         inbox' = Append(inbox, Pong(sent, h)), Pong(sent, h) \in Message,
         UNCHANGED <<ack_log, read_accum, baseline, now, pc, batch, batch_now>>,
         inbox # <<>> => \A t \in Nat : MonitorWaits(t) => MonitorWaits(t)'
  PROVE  Pongs(sent, more)'
<1>1. PICK L \in Nat, R \in Nat, k \in Nat, m \in Nat :
        /\ L = Len(ack_log) /\ R = L + k /\ k = Len(read_accum) /\ m = Len(inbox)
  <2>1. Len(ack_log) \in Nat /\ Len(read_accum) \in Nat /\ Len(inbox) \in Nat
    BY SessionTypes
  <2>2. Len(ack_log) + Len(read_accum) \in Nat
    BY <2>1
  <2> QED BY <2>1, <2>2
<1>2. /\ Len(answered) = R + m
      /\ pc # "drain" => read_accum = <<>>
      /\ \A i \in 1 .. L : ack_log[i] = answered[i]
      /\ \A i \in 1 .. k : read_accum[i] = Pong(sent, answered[L + i])
      /\ \A i \in 1 .. m : inbox[i] = Pong(sent, answered[R + i])
      /\ read_accum # <<>> => /\ batch_now <= sent[answered[L + 1] + 2] + 3 * BatchGap
                              /\ sent[answered[L + 1] + 2] <= batch_now \/ baseline = batch_now
      /\ inbox # <<>> => MonitorWaits(sent[answered[R + 1] + 2] + 2 * BatchGap)
      /\ "EPOLLIN" \in batch => inbox # <<>> /\ sent[answered[R + 1] + 2] <= batch_now
  BY <1>1 DEF Session, Pongs
<1>3. /\ Len(more) = R + m + 1 /\ more[R + m + 1] = h
      /\ \A i \in 1 .. R + m : more[i] = answered[i]
  <2>1. /\ Len(more) = Len(answered) + 1 /\ more[Len(answered) + 1] = h
        /\ \A i \in 1 .. Len(answered) : more[i] = answered[i]
    BY AppendProperties
  <2>2. Len(answered) = R + m
    BY <1>2
  <2> QED BY <2>1, <2>2
<1>4. /\ Len(inbox') = m + 1 /\ inbox'[m + 1] = Pong(sent, h)
      /\ \A i \in 1 .. m : inbox'[i] = inbox[i]
  <2>1. inbox \in Seq(Message)
    BY DEF BaseInv, TypeInv, TypeOK, TypePeer
  <2> QED BY <1>1, <2>1, AppendProperties
<1>5. \A i \in 1 .. L : i \in 1 .. R + m
  BY <1>1
<1>6. \A i \in 1 .. k : L + i \in 1 .. R + m
  BY <1>1
<1>7. \A i \in 1 .. m : R + i \in 1 .. R + m
  BY <1>1
<1>8. \A i \in 1 .. L : ack_log'[i] = more[i]
  BY <1>2, <1>3, <1>5
<1>9. \A i \in 1 .. k : read_accum'[i] = Pong(sent, more[L + i])
  <2> SUFFICES ASSUME NEW i \in 1 .. k PROVE read_accum[i] = Pong(sent, more[L + i])
    OBVIOUS
  <2>1. more[L + i] = answered[L + i]
    BY <1>3, <1>6
  <2> QED BY <1>2, <2>1
<1>10. \A i \in 1 .. m + 1 : inbox'[i] = Pong(sent, more[R + i])
  <2> SUFFICES ASSUME NEW i \in 1 .. m + 1 PROVE inbox'[i] = Pong(sent, more[R + i])
    OBVIOUS
  <2>1. CASE i \in 1 .. m
    <3>1. more[R + i] = answered[R + i]
      BY <1>3, <1>7, <2>1
    <3> QED BY <1>2, <1>4, <2>1, <3>1
  <2>2. CASE i = m + 1
    <3>1. R + i = R + m + 1
      BY <1>1, <2>2
    <3>2. more[R + i] = h
      BY <1>3, <3>1
    <3> QED BY <1>4, <2>2, <3>2
  <2>3. i \in 1 .. m \/ i = m + 1
    BY <1>1
  <2> QED BY <2>1, <2>2, <2>3
<1>11. read_accum # <<>> => more[L + 1] = answered[L + 1]
  <2>1. read_accum # <<>> => 1 \in 1 .. k
    BY <1>1, NotEmpty DEF BaseInv, TypeInv, TypeOK, TypeBuffers
  <2> QED BY <1>3, <1>6, <2>1
<1>12. inbox # <<>> => R + 1 \in 1 .. Len(answered) /\ more[R + 1] = answered[R + 1]
  <2>1. inbox # <<>> => 1 \in 1 .. m
    BY <1>1, NotEmpty DEF BaseInv, TypeInv, TypeOK, TypePeer
  <2> QED BY <1>2, <1>3, <1>7, <2>1
<1>13. MonitorWaits(sent[more[R + 1] + 2] + 2 * BatchGap)'
  <2>1. CASE inbox # <<>>
    <3>1. PICK t \in Nat : t = sent[answered[R + 1] + 2]
      BY <1>12, <2>1, AnsweredIndex
    <3>2. t + 2 * BatchGap \in Nat
      BY SystemAssumption
    <3>3. MonitorWaits(t + 2 * BatchGap)'
      BY <1>2, <2>1, <3>1, <3>2
    <3> QED BY <1>12, <2>1, <3>1, <3>3
  <2>2. CASE inbox = <<>>
    <3>1. R + 1 = R + m + 1
      BY <1>1, <2>2
    <3>2. more[R + 1] = h
      BY <1>3, <3>1
    <3>3. PICK t \in Nat : t = sent[h + 2]
      <4>1. h + 2 \in 1 .. next_sequence + 1
        <5>1. next_sequence \in Nat
          BY SessionTypes
        <5> QED BY <5>1
      <4> QED BY <4>1, SessionTypes
    <3>4. now <= t + 2 * BatchGap
      BY <3>3, PingInFlight
    <3>5. now \in Nat /\ BatchGap \in Nat /\ batch_now \in Nat /\ batch_now <= now
      BY SessionTypes, SystemAssumption DEF BaseInv, DetectionInv, ClockInv
    <3>6. now' <= t + 2 * BatchGap + BatchGap /\ batch_now' <= t + 2 * BatchGap
      BY <3>4, <3>5
    <3>7. MonitorWaits(t + 2 * BatchGap)'
      BY <3>6 DEF MonitorWaits
    <3> QED BY <3>2, <3>3, <3>7
  <2> QED BY <2>1, <2>2
<1>14. /\ Len(more) = L + Len(read_accum') + Len(inbox') /\ L = Len(ack_log')
       /\ R = L + Len(read_accum')
  <2>1. ack_log' = ack_log /\ read_accum' = read_accum
    OBVIOUS
  <2>2. Len(ack_log') = L /\ Len(read_accum') = k /\ Len(inbox') = m + 1
    BY <1>1, <1>4, <2>1
  <2>3. Len(more) = R + m + 1 /\ R = L + k
    BY <1>1, <1>3
  <2> QED BY <2>2, <2>3
<1>15. "EPOLLIN" \in batch' => inbox' # <<>> /\ sent[more[R + 1] + 2] <= batch_now'
  <2>1. inbox' # <<>>
    <3>1. Len(inbox') = m + 1 /\ m + 1 # 0
      BY <1>4
    <3>2. Len(<<>>) = 0
      OBVIOUS
    <3> QED BY <3>1, <3>2
  <2> QED BY <1>2, <1>12, <2>1
<1>16. read_accum' # <<>> =>
         /\ batch_now' <= sent[more[L + 1] + 2] + 3 * BatchGap
         /\ sent[more[L + 1] + 2] <= batch_now' \/ baseline' = batch_now'
  BY <1>2, <1>11
<1>17. /\ Len(more) = R + Len(inbox')
       /\ \A i \in 1 .. Len(read_accum') : read_accum'[i] = Pong(sent, more[L + i])
       /\ \A i \in 1 .. Len(inbox') : inbox'[i] = Pong(sent, more[R + i])
  <2>1. Len(read_accum') = k /\ Len(inbox') = m + 1
    BY <1>1, <1>4
  <2>2. Len(more) = R + (m + 1)
    <3>1. Len(more) = R + m + 1
      BY <1>3
    <3>2. R + m + 1 = R + (m + 1)
      OBVIOUS
    <3> QED BY <3>1, <3>2
  <2> QED BY <1>9, <1>10, <2>1, <2>2
<1>18. pc' # "drain" => read_accum' = <<>>
  BY <1>2
<1> QED BY <1>8, <1>13, <1>14, <1>15, <1>16, <1>17, <1>18 DEF Pongs

\* handle_ping keeps the session: one more answer, or one more dropped.
LEMMA SimPingStep ==
  ASSUME Prompt, BaseInv, LinkInv, Unaccepted, NEW sent \in Seq(Nat), NEW answered \in Seq(Nat),
         Session(sent, answered), SystemNext, SimPing
  PROVE  \E more \in Seq(Nat) : Session(sent, more)'
<1>1. PICK h \in Nat : h = HandledPings(answered)
  BY SessionTypes
<1>2. /\ h < next_sequence /\ reading # {} /\ client'.state = "kHealthy"
      /\ \/ drops' = drops + 1 /\ inbox' = inbox
         \/ drops' = drops /\ inbox' = Append(inbox, Pong(sent, h))
  <2>1. PICK r \in h + 1 .. next_sequence : TRUE
    BY <1>1, SimPingEffect
  <2>2. h < next_sequence
    BY <2>1, SessionTypes, SMTT(30)
  <2> QED BY <1>1, <2>2, SimPingEffect
<1>3. /\ UNCHANGED <<now, heartbeat_interval, pc, batch, batch_now, tick_now, next_ping_due,
                     next_sequence, state, liveness, acks, read_accum>>
      /\ inbox # <<>> => \A t \in Nat : MonitorWaits(t) => MonitorWaits(t)'
  BY SimLeaves DEF SimSteps, Session
<1>4. Sched(sent)'
  <2>1. now \in Nat /\ next_sequence \in Nat
    BY SessionTypes
  <2> QED BY <1>3, <2>1, SchedKept DEF Session
<1>5. UNCHANGED <<ack_log, acked_count, acked_sequences, baseline, inherited, consecutive_missed>>
  BY <1>3 DEF liveness, acks
<1>6. /\ state' \in Live /\ client'.state = "kHealthy"
      /\ inherited' = 0 /\ consecutive_missed' <= drops'
  <2>1. drops \in Nat /\ consecutive_missed \in Nat /\ consecutive_missed <= drops
    BY SessionTypes DEF Session
  <2> QED BY <1>2, <1>3, <1>5, <2>1 DEF Session
<1>7. CASE drops' = drops + 1 /\ inbox' = inbox
  <2>1. Answers(answered)' /\ HandledPings(answered)' = HandledPings(answered) + 1
    BY <1>7, AnswersDropped
  <2>2. Pings(sent, answered)'
    BY <2>1, PingHandled
  <2>3. Pongs(sent, answered)'
    <3>1. Pongs(sent, answered) /\ (read_accum # <<>> => pc' = "drain")
      BY <1>3 DEF Session, Pongs
    <3>2. \A i \in 1 .. Len(answered) :
            sent[answered[i] + 2] \in Nat /\ sent[answered[i] + 2] <= now
      BY AnsweredIndex
    <3> QED BY <1>3, <1>5, <1>7, <3>1, <3>2, PongsKept
  <2>4. Evidence(sent, answered)'
    BY <1>5 DEF Session, Evidence, LastAnswer
  <2> QED BY <1>4, <1>6, <2>1, <2>2, <2>3, <2>4 DEF Session
<1>8. CASE drops' = drops /\ inbox' = Append(inbox, Pong(sent, h))
  <2>1. PICK more \in Seq(Nat) : more = Append(answered, h)
    BY AppendProperties
  <2>2. Answers(more)' /\ HandledPings(more)' = HandledPings(answered) + 1
    BY <1>1, <1>8, <2>1, AnswersGrow
  <2>3. Pings(sent, more)'
    BY <2>2, PingHandled
  <2>4. Pong(sent, h) \in Message
    <3>0. next_sequence \in Nat
      BY SessionTypes
    <3>1. h + 2 \in 1 .. next_sequence + 1
      BY <1>2, <3>0
    <3>2. sent[h + 2] \in Nat
      BY <3>1, SessionTypes
    <3> QED BY <3>2, MsgType DEF Pong
  <2>5. Pongs(sent, more)'
    BY <1>1, <1>2, <1>3, <1>5, <1>8, <2>1, <2>4, PongsGrow
  <2>6. Evidence(sent, more)'
    <3>1. ack_log # <<>> => more[Len(ack_log)] = answered[Len(ack_log)]
      <4>1. ack_log # <<>> => Len(ack_log) \in 1 .. Len(answered)
        <5>1. ack_log # <<>> => Len(ack_log) >= 1
          BY NotEmpty DEF BaseInv, TypeInv, TypeOK, TypeAcks
        <5>2. Len(ack_log) \in Nat /\ Len(ack_log) <= Len(answered) /\ Len(answered) \in Nat
          BY SessionTypes
        <5> QED BY <5>1, <5>2
      <4> QED BY <2>1, <4>1, AppendProperties
    <3>2. LastAnswer(more)' = LastAnswer(answered)
      BY <1>5, <3>1 DEF LastAnswer
    <3> QED BY <1>5, <3>1, <3>2 DEF Session, Evidence
  <2> QED BY <1>4, <1>6, <2>1, <2>2, <2>3, <2>5, <2>6 DEF Session
<1> QED BY <1>2, <1>7, <1>8

-----------------------------------------------------------------------------
(* The whole run                                                           *)

\* A session that keeps up goes on, or would have dropped too many replies.
LEMMA SessionStep ==
  ASSUME Prompt, BaseInv, LinkInv, Unaccepted, InSession, drops < MaxMissedHeartbeats, SystemNext
  PROVE  InSession'
<1>1. PICK sent \in Seq(Nat), answered \in Seq(Nat) : Session(sent, answered)
  BY DEF InSession
<1>2. CASE \/ SystemAdvance \/ SystemEpollWait
           \/ MonitorStep /\ (DrainDone \/ TickNoPing \/ CheckLive)
           \/ SimEpollWait \/ SimTick
  <2>1. Quiet
    BY <1>1, <1>2, QuietSteps
  <2>2. Session(sent, answered)'
    BY <1>1, <2>1, QuietStep
  <2> QED BY <2>2 DEF InSession
<1>3. CASE MonitorStep /\ OnReadable
  <2>1. Session(sent, answered)'
    BY <1>1, <1>3, ReadableStep
  <2> QED BY <2>1 DEF InSession
<1>4. CASE MonitorStep /\ HandlePong
  <2>1. Session(sent, answered)'
    BY <1>1, <1>4, PongStep
  <2> QED BY <2>1 DEF InSession
<1>5. CASE MonitorStep /\ TickPing
  <2>1. \E more \in Seq(Nat) : Session(more, answered)'
    BY <1>1, <1>5, PingStep
  <2> QED BY <2>1 DEF InSession
<1>6. CASE SimOnReadable
  <2>1. Session(sent, answered)'
    BY <1>1, <1>6, SimReadableStep
  <2> QED BY <2>1 DEF InSession
<1>7. CASE SimPing
  <2>1. \E more \in Seq(Nat) : Session(sent, more)'
    BY <1>1, <1>7, SimPingStep
  <2> QED BY <2>1 DEF InSession
<1>8. \/ SystemAdvance \/ SystemEpollWait
      \/ MonitorStep /\ (OnReadable \/ HandlePong \/ DrainDone \/ TickPing \/ TickNoPing
                         \/ CheckLive)
      \/ SimEpollWait \/ SimOnReadable \/ SimPing \/ SimTick
  BY <1>1, SessionCases
<1> QED BY <1>2, <1>3, <1>4, <1>5, <1>6, <1>7, <1>8

\* Opening or in a session, every step stays there.
LEMMA OpeningStep ==
  ASSUME Prompt, BaseInv, LinkInv, Unaccepted, Opened, SystemNext
  PROVE  Opened' \/ InSession'
<1>1. Unused /\ state \notin Live
  BY DEF Opened, Dialing, Greeting, Acking, Live
<1>2. (Dialing' \/ Greeting' \/ Acking' \/ InSession') /\ ~SimPing /\ ~HandlePong
  <2>1. CASE Dialing
    BY <1>1, <2>1, DialingStep
  <2>2. CASE Greeting
    BY <2>2, GreetingStep
  <2>3. CASE Acking
    BY <1>1, <2>3, AckingStep DEF InSession
  <2> QED BY <2>1, <2>2, <2>3 DEF Opened
<1>3. Unused'
  BY <1>1, <1>2, UnusedStep
<1> QED BY <1>2, <1>3 DEF Opened

\* Dropped replies are counted one at a time.
LEMMA DropsStep ==
  ASSUME BaseInv, SystemNext
  PROVE  drops \in Nat /\ drops' \in {drops, drops + 1}
<1>1. drops \in Nat
  BY DEF BaseInv, TypeSim
<1>2. CASE SystemAdvance \/ SystemEpollWait \/ MonitorStep
  BY <1>1, <1>2, MonitorSteps DEF responder
<1>3. CASE SimEpollWait \/ SimAccept \/ SimOnReadable \/ SimConnectHello \/ SimTick
  BY <1>1, <1>3 DEF SimEpollWait, SimAccept, SimOnReadable, SimConnectHello, SimTick
<1>4. CASE SimPing
  BY <1>1, <1>4 DEF SimPing
<1> QED BY <1>2, <1>3, <1>4 DEF SystemNext

\* The states the two ends are in at the stages.
LEMMA StageStates ==
  ASSUME Opened \/ InSession
  PROVE  state # "kFailed" /\ client.state # "kFailed" /\ (state = "kConnecting" => Dialing)
<1>1. CASE Opened
  BY <1>1 DEF Opened, Dialing, Greeting, Acking
<1>2. CASE InSession
  <2>1. state \in Live /\ client.state = "kHealthy"
    BY <1>2 DEF InSession, Session
  <2> QED BY <2>1 DEF Live
<1> QED BY <1>1, <1>2

\* The stages are kept by every step.
LEMMA StageStep == Prompt /\ BaseInv /\ StageInv /\ [SystemNext]_systemVars => StageInv'
<1> SUFFICES ASSUME Prompt, BaseInv, StageInv, [SystemNext]_systemVars,
                    drops' < MaxMissedHeartbeats
             PROVE  LinkInv' /\ Unaccepted' /\ (Opened' \/ InSession')
  BY DEF StageInv
<1>1. CASE SystemNext
  <2>1. drops < MaxMissedHeartbeats
    BY <1>1, DropsStep, LimitAssumption
  <2>2. LinkInv /\ Unaccepted /\ (Opened \/ InSession)
    BY <2>1 DEF StageInv
  <2>3. Opened' \/ InSession'
    BY <1>1, <2>1, <2>2, OpeningStep, SessionStep
  <2>4. state' # "kFailed" /\ client'.state # "kFailed"
    <3>1. CASE Opened'
      BY <3>1 DEF Opened, Dialing, Greeting, Acking
    <3>2. CASE InSession'
      <4>1. state' \in Live /\ client'.state = "kHealthy"
        BY <3>2 DEF InSession, Session
      <4> QED BY <4>1 DEF Live
    <3> QED BY <2>3, <3>1, <3>2
  <2>5. state = "kConnecting" => Dialing
    BY <2>2, StageStates
  <2>6. LinkInv'
    BY <1>1, <2>2, <2>4, <2>5, LinkStep
  <2>7. Unaccepted'
    BY <1>1, <2>2, UnacceptedStep
  <2> QED BY <2>3, <2>6, <2>7
<1>2. CASE UNCHANGED systemVars
  <2> USE DEF systemVars, vars, responder, config, reactor, slot, liveness, acks, buffers, peer
  <2>1. LinkInv /\ Unaccepted /\ (Opened \/ InSession)
    BY <1>2 DEF StageInv
  <2>2. LinkInv' = LinkInv /\ Unaccepted' = Unaccepted
    BY <1>2 DEF LinkInv, Unaccepted
  <2>3. Opened' = Opened
    BY <1>2 DEF Opened, Unused, Dialing, Greeting, Acking, MonitorBusy, SimBusy, SimWaits,
                MonitorWaits, IsHello, IsAck
  <2>4. ASSUME NEW sent \in Seq(Nat), NEW answered \in Seq(Nat), Session(sent, answered)
        PROVE  Session(sent, answered)'
    <3>1. UNCHANGED <<state, client, inherited, consecutive_missed, drops, next_sequence, now,
                      heartbeat_interval, tick_now, next_ping_due, pc, batch, batch_now,
                      sim_batch, sim_batch_now, reading, delivered, ack_log, read_accum, inbox,
                      baseline, acked_count, acked_sequences>>
      BY <1>2
    <3>2. Sched(sent)' /\ Answers(answered)' /\ Evidence(sent, answered)'
      BY <2>4, <3>1 DEF Session, Sched, Answers, Evidence, HandledPings, LastAnswer, Period
    <3>3. Pings(sent, answered)'
      BY <2>4, <3>1 DEF Session, Pings, HandledPings, SimWaits, SimBusy
    <3>4. Pongs(sent, answered)'
      BY <2>4, <3>1 DEF Session, Pongs, MonitorWaits, MonitorBusy
    <3> QED BY <2>4, <3>1, <3>2, <3>3, <3>4 DEF Session
  <2>5. InSession => InSession'
    BY <2>4 DEF InSession
  <2> QED BY <2>1, <2>2, <2>3, <2>5
<1> QED BY <1>1, <1>2

\* At the start connect() has just been called.
LEMMA StageInit == SystemInit => StageInv
<1> SUFFICES ASSUME SystemInit PROVE LinkInv /\ Unaccepted /\ Opened
  BY DEF StageInv
<1>1. LinkInv /\ Unaccepted
  BY DEF SystemInit, Init, LinkInv, Unaccepted, NoClient
<1>2. Unused
  BY DEF SystemInit, Init, Unused
<1>3. Dialing
  BY DEF SystemInit, Init, Dialing, NoClient, MonitorBusy
<1> QED BY <1>1, <1>2, <1>3 DEF Opened

\* Two ends that keep up are always opening the connection or in a session, as
\* long as fewer replies were dropped than the monitor tolerates misses.
THEOREM StagesCorrect ==
  ASSUME Prompt
  PROVE  SystemSpec => []StageInv
<1>1. BaseInv /\ StageInv /\ [SystemNext]_systemVars => StageInv'
  BY StageStep
<1> QED BY <1>1, StageInit, SystemBase, PTL DEF SystemSpec

\* Fewer dropped replies than max_missed_heartbeats never make check_timeout
\* fail the feed nor make the simulator reap the client: each of a monitor's
\* misses takes a dropped reply, and the simulator counts the PINGs.
THEOREM LossToleratedCorrect ==
  ASSUME Prompt
  PROVE  SystemSpec => []LossTolerated
<1>1. StageInv => LossTolerated
  BY DEF StageInv, LossTolerated, LinkInv
<1> QED BY <1>1, StagesCorrect, PTL

\* While no reply is dropped, check_timeout of neither end finds the other
\* silent, although PINGs and PONGs are in flight or buffered whenever it
\* judges, and although a PONG may be thrown away for its round-trip time.
THEOREM NoFalseAlarmCorrect ==
  ASSUME Prompt
  PROVE  SystemSpec => []NoFalseAlarm
<1>1. BaseInv /\ StageInv => NoFalseAlarm
  <2> SUFFICES ASSUME BaseInv, StageInv, drops = 0
               PROVE  state \notin {"kDegraded", "kFailed"} /\ client.state # "kFailed"
    BY DEF NoFalseAlarm
  <2>1. LinkInv /\ (Opened \/ InSession)
    BY LimitAssumption DEF StageInv
  <2>2. state # "kFailed" /\ client.state # "kFailed"
    BY <2>1 DEF LinkInv
  <2>3. state # "kDegraded"
    <3>1. CASE Opened
      BY <3>1 DEF Opened, Dialing, Greeting, Acking
    <3>2. CASE InSession
      <4>1. consecutive_missed <= 0
        BY <3>2 DEF InSession, Session
      <4>2. state = "kDegraded" => consecutive_missed \in 1 .. MaxMissedHeartbeats - 1
        BY DEF BaseInv, DetectionInv, MissesMatchState
      <4> QED BY <4>1, <4>2, LimitAssumption
    <3> QED BY <2>1, <3>1, <3>2
  <2> QED BY <2>2, <2>3
<1> QED BY <1>1, StagesCorrect, SystemBase, PTL
=============================================================================
