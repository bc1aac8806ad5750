--------------------------- MODULE HeartbeatSystem ---------------------------
(***************************************************************************)
(* Both ends of one heartbeat session, from connect to the failure of one  *)
(* of them if it comes to that: the monitor's Connection, whose free peer  *)
(* is replaced by FeedSimulator's reactor with one responder.              *)
(*                                                                         *)
(* The two reactors are separate processes.  Each handles a tick at most   *)
(* TickGap after the last (and not twice at one time) and a batch within   *)
(* BatchGap; epoll_wait returns at once, with everything that is ready.    *)
(* The socket loses nothing; the simulator may drop replies                *)
(* (FaultConfig::drop_probability).  The two processes do not share a      *)
(* Config: only the monitor's timeout can be configured.                   *)
(***************************************************************************)
EXTENDS Connection

CONSTANTS
  SimTimeout,        \* heartbeat_timeout of the simulator's own Config
  BatchGap,          \* a reactor is through with a batch this long after its wait
  MaxDrops           \* bound: replies dropped on one connection

ASSUME SystemAssumption == SimTimeout \in Nat /\ BatchGap \in Nat /\ MaxDrops \in Nat

VARIABLES
  client,            \* the responder; state "none" until accept4() returns it
  sim_batch, sim_batch_now, sim_tick_now,    \* the simulator's reactor
  reading,           \* messages of the current on_readable not handled yet
  drops              \* history: replies dropped on this connection

responder == <<client, sim_batch, sim_batch_now, sim_tick_now, reading, drops>>
systemVars == <<vars, responder>>

NoClient == [state |-> "none", state_entered |-> 0, last_liveness |-> 0]

SystemInit ==
  /\ Init
  /\ client = NoClient
  /\ sim_batch = {} /\ sim_batch_now = 0 /\ sim_tick_now = 0
  /\ reading = {} /\ drops = 0

-----------------------------------------------------------------------------
(* The monitor                                                             *)

\* The simulator is inside no handler.
SimIdle == reading = {}

SimReady ==
  {e \in {"accept", "EPOLLIN"} :
     \/ e = "accept" /\ client.state = "none"
     \/ e = "EPOLLIN" /\ client.state \in {"kHandshaking", "kHealthy"} /\ delivered # {}}

\* Time passes for both, but past neither's next tick nor the end of its batch,
\* and not while epoll_wait has something to return.
SystemAdvance ==
  /\ now - sim_tick_now < TickGap
  /\ IF pc = "loop" /\ batch = {} THEN ReadyEvents = {} ELSE now - batch_now < BatchGap
  /\ IF SimIdle /\ sim_batch = {} THEN SimReady = {} ELSE now - sim_batch_now < BatchGap
  /\ Advance
  /\ UNCHANGED responder

\* The timerfd has expired since the last tick (at the horizon, always).
Tickable(last) == now > last \/ now = MaxTime

SystemEpollWait ==
  /\ EpollWait
  /\ ReadyEvents \subseteq batch'
  /\ "timer" \in batch' => Tickable(tick_now)
  /\ UNCHANGED responder

MonitorStep ==
  /\ \/ Events \/ Messages
     \/ TickPing \/ TickNoPing \/ CheckOpening \/ CheckLive \/ CheckSilent
  /\ UNCHANGED responder

-----------------------------------------------------------------------------
(* FeedSimulator::run, with one client                                     *)

SimEpollWait ==
  /\ SimIdle /\ sim_batch = {}
  /\ sim_batch' \in {SimReady, SimReady \cup {"timer"}} \ {{}}
  /\ "timer" \in sim_batch' => Tickable(sim_tick_now)
  /\ sim_batch_now' = now
  /\ UNCHANGED <<vars, client, sim_tick_now, reading, drops>>

\* accept_new_connections: a responder starts in kHandshaking, at the time its
\* constructor reads.
SimAccept ==
  /\ SimIdle /\ "accept" \in sim_batch
  /\ sim_batch' = sim_batch \ {"accept"}
  /\ client' = [state |-> "kHandshaking", state_entered |-> now, last_liveness |-> 0]
  /\ UNCHANGED <<vars, sim_batch_now, sim_tick_now, reading, drops>>

\* on_readable: the recv loop.
SimOnReadable ==
  /\ SimIdle /\ "EPOLLIN" \in sim_batch
  /\ sim_batch' = sim_batch \ {"EPOLLIN"}
  /\ reading' = delivered
  /\ delivered' = {}
  /\ UNCHANGED <<now, config, reactor, slot, state, state_entered, reason, next_sequence,
                 liveness, acks, buffers, link, inbox, peer_acked, peer_alive_ns,
                 client, sim_batch_now, sim_tick_now, drops>>

\* drain_read_buffer takes the messages in the order they were sent.
Oldest(m) ==
  /\ m \in reading
  /\ \A k \in reading : m.type = "kConnectHello" \/ (k.type = "kPing" /\ m.sequence <= k.sequence)

Handled(m) ==
  /\ Oldest(m)
  /\ reading' = reading \ {m}
  /\ UNCHANGED <<now, config, reactor, slot, state, state_entered, reason, next_sequence,
                 liveness, acks, buffers, link, delivered, peer_acked,
                 sim_batch, sim_batch_now, sim_tick_now>>

Reply(msg) ==
  /\ inbox' = Append(inbox, msg)
  /\ peer_alive_ns' = now

\* handle_connect_hello
SimConnectHello ==
  /\ \E m \in reading :
       /\ m.type = "kConnectHello" /\ client.state = "kHandshaking"
       /\ Handled(m)
  /\ Reply(Msg("kConnectAck", 0, sim_batch_now))
  /\ client' = [state |-> "kHealthy", state_entered |-> sim_batch_now,
                last_liveness |-> sim_batch_now]
  /\ UNCHANGED drops

BugOnlyAnsweredCounts(dropped) ==
  IF dropped THEN client ELSE [client EXCEPT !.last_liveness = sim_batch_now]

\* A PING is proof of life, whatever happens to its reply.
SimPinged(dropped) == [client EXCEPT !.last_liveness = sim_batch_now]

\* handle_ping, with on_ping_intercept dropping the reply or not
SimPing ==
  /\ \E m \in reading :
       /\ m.type = "kPing" /\ client.state = "kHealthy"
       /\ Handled(m)
       /\ \E dropped \in BOOLEAN :
            /\ client' = SimPinged(dropped)
            /\ IF dropped
               THEN /\ drops < MaxDrops
                    /\ drops' = drops + 1
                    /\ UNCHANGED <<inbox, peer_alive_ns>>
               ELSE /\ Reply(Msg("kPong", m.sequence, m.timestamp_ns))
                    /\ UNCHANGED drops

BugJudgedByEntry == now - client.state_entered >= SimTimeout

\* check_timeout of a responder: a single strike
SimTimedOut ==
  \/ client.state = "kHandshaking" /\ now - client.state_entered >= SimTimeout
  \/ client.state = "kHealthy" /\ now - client.last_liveness >= SimTimeout

\* on_timer_tick: the clock is read again and a silent client is removed, which
\* closes its socket.
SimTick ==
  /\ SimIdle /\ "timer" \in sim_batch
  /\ sim_tick_now' = now
  /\ IF SimTimedOut
     THEN /\ client' = [client EXCEPT !.state = "kFailed"]
          /\ link' = "eof"
          /\ sim_batch' = {}
     ELSE /\ sim_batch' = sim_batch \ {"timer"}
          /\ UNCHANGED <<client, link>>
  /\ UNCHANGED <<now, config, reactor, slot, state, state_entered, reason, next_sequence,
                 liveness, acks, buffers, inbox, delivered, peer_acked, peer_alive_ns,
                 sim_batch_now, reading, drops>>

-----------------------------------------------------------------------------
SystemNext ==
  \/ SystemAdvance \/ SystemEpollWait \/ MonitorStep
  \/ SimEpollWait \/ SimAccept \/ SimOnReadable \/ SimConnectHello \/ SimPing \/ SimTick

SystemSpec == SystemInit /\ [][SystemNext]_systemVars

-----------------------------------------------------------------------------
(* Properties                                                              *)

\* While no reply is dropped, neither end finds the other silent: the monitor
\* never shows the feed as degraded or failed and the simulator never reaps the
\* client, although a PING or PONG may be in the socket, or later in the same
\* batch, whenever a tick judges, and although a PONG read in the batch of its
\* own PING is thrown away for its negative round-trip time.
NoFalseAlarm ==
  drops = 0 => state \notin {"kDegraded", "kFailed"} /\ client.state # "kFailed"

\* Fewer dropped replies than max_missed_heartbeats never fail the feed, nor
\* does the simulator give up a client whose PINGs it read but did not answer.
LossTolerated ==
  drops < MaxMissedHeartbeats => state # "kFailed" /\ client.state # "kFailed"
=============================================================================
