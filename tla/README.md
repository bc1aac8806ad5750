# Vigil in TLA+

Vigil is a single-threaded `epoll` reactor (`FeedMonitor`) that keeps one TCP
connection per market-data feed, exchanges heartbeats over it (`Connection`),
declares a feed degraded and then failed when the heartbeats stop, and
reconnects with exponential backoff. A second program (`FeedSimulator`) plays
the feeds and injects faults. This directory holds TLA+ models of both programs,
the TLC runs that check them, and TLAPS proofs of their safety properties.
Source paths below are relative to the repository root.

## Inventory

| Part | State | Operations | Where |
|---|---|---|---|
| `Connection`, initiator | `state_`, `state_entered_ns_`, `next_sequence_`, `consecutive_missed_`, `last_liveness_ns_`, ring of acked sequences, read and write buffers | `on_writable`, `on_readable` and the message handlers, `on_hangup_or_error`, `send_ping`, `check_timeout`, `reset_liveness_baseline`, `rebind` | `src/connection.cpp` |
| `Connection`, responder | the same object | `handle_connect_hello`, `handle_ping`, `send_pong`, ping interceptor, single-strike `check_timeout` | `src/connection.cpp` |
| `FeedMonitor` slots | `slots_`, `index_of_fd_`, `index_of_feed_id_`, the epoll set, per slot `reconnect_attempts`, `reconnect_ready_at_ns`, `give_up`, `next_ping_due_ns` | `add_feed`, `remove_feed`, `force_disconnect`, `force_reconnect`, `on_connection_failed`, `schedule_reconnect`, `initiate_connect` | `src/feed_monitor.cpp` |
| `FeedMonitor` reactor | `event_batch_`, `stop_requested_`, `wake_fd_`, `timer_fd_` | `run`, `stop`, `handle_connection_event`, `on_timer_tick` | `src/feed_monitor.cpp` |
| Command input | `command_fd_`, `command_line_buffer_` | `on_command_fd_readable`, `handle_command_line` | `src/feed_monitor.cpp`, `src/main.cpp` |
| `FeedSimulator` | client list, deferred PONGs, fault settings | accept, client events, ping interceptor, tick, kill-random, commands | `src/feed_simulator.cpp` |
| Configuration | `Config`, and while it is built the position among options and lines and the pending feed | `apply_cli_overrides`, `parse_config_file`, `validate_and_add_feed`; `set-interval`, `set-timeout` later | `src/config.cpp`, `src/main.cpp` |
| Codec, statistics, display | none, or counters | `encode_heartbeat`, `decode_heartbeat`, `record_*`, `render` | `src/heartbeat.cpp`, `src/stats.cpp`, `src/cli_display.cpp` |

**Interaction.** The reactor owns everything and calls into `Connection` with a
`now_ns`; a handler reports failure only through `state()` or the return value
of `check_timeout`, and the caller then calls `on_connection_failed`, which
unregisters the descriptor, raises the alert and schedules the reconnect. The
descriptor stays open until `rebind` replaces it. Commands run as callbacks in
the middle of a batch of events. Only `stop()` may come from another thread or
a signal handler.

**What is hard.**

- One batch mixes two clocks: the batch's `now_ns`, and the newer one that the
  tick and the commands read. Windows are set from one and judged by the other.
- An event of a batch can close, open or renumber what later events of the same
  batch refer to (descriptors by number, slots by position).
- PONGs come late, twice, out of order, or from a peer that is gone.
- The rule changes at run time (`set-timeout`) while misses are being counted.
- A connection can fail inside a handler that does not report it (`send_ping`).
- The object is reused across connections, sequence numbers included.
- Edge-triggered descriptors report once: a loop that stops early loses the rest.
- A stop can come from a signal handler before, while or after `run()` runs.
- A message is cut anywhere by short writes and short reads, on either side.
- Each end judges the other's silence by what it has read so far, while the
  answer may be in the socket or later in the same batch.
- The options are read twice, and a file and flags write the same fields.

**What makes it right.** A dead peer is noticed in bounded time and a live one
is not failed early; no state of an old connection affects the new one; every
event and command reaches the slot it is about; every failure is alerted once
and retried within its budget.

## Modules

| Module | Models | Notes |
|---|---|---|
| `Connection` | one initiator connection and the part of the reactor that drives it | the peer, the socket and the clock are the environment |
| `FeedLifecycle` | what the monitor promises of the state it shows for one feed | abstract; `Connection` implements it |
| `MCConnection` | message sets for the runs of `Connection` | |
| `ConnectionProofs` | types and failure detection of `Connection`, its refinement of `FeedLifecycle` and its ring of acked sequences, proved | |
| `PeerProofs` | what it concludes about a dead and about an honest peer, proved | |
| `FeedMonitor` | slots, indexes, epoll set and reconnects of several feeds | what a connection does in an event is reduced to its outcome |
| `FeedMonitorProofs` | theorems about `FeedMonitor` | |
| `MCFeedMonitor` | instances of `FeedMonitor` | |
| `FeedSimulator` | the mock exchange with its clients, each a responder `Connection` | the clients are the environment |
| `FeedSimulatorProofs` | theorems about `FeedSimulator` | |
| `MCFeedSimulator` | instances of `FeedSimulator` | |
| `CommandLoop` | `main`, `run`, `stop` and the command input of a reactor | the effect of a command other than quit is in `Connection` and `FeedMonitor` |
| `CommandLoopProofs` | theorems about `CommandLoop` | |
| `MCCommandLoop` | inputs for the runs of `CommandLoop` | |
| `HeartbeatSystem` | `Connection` and one simulator client, each with its reactor | extends `Connection`, whose free peer it replaces |
| `SystemProofs` | the timing condition under which the two ends never find each other silent, proved | |
| `MCHeartbeatSystem` | instance of `HeartbeatSystem` | |
| `Channel` | what the byte layer promises the message handlers | abstract; `Wire` implements it |
| `Wire` | one direction of a connection byte by byte: both buffers, the socket, EPOLLOUT | the same code serves both roles |
| `WireProofs` | theorems about `Wire` | |
| `MCWire` | instance of `Wire` | |
| `Config` | options, file and run-time commands up to the configuration in use | |
| `ConfigProofs` | theorems about `Config` | |
| `MCConfig` | lines and options for the run of `Config` | |

### Connection

The variables carry the names of the code's fields without the trailing
underscore. `now` is the clock of `now_monotonic_ns` (CLOCK_BOOTTIME, in spite of
its name; the timerfd runs on CLOCK_MONOTONIC, and across a suspend the distance
of two ticks is outside `TickGap`), `batch_now` the `now_ns` that `run()`
reads after `epoll_wait`, `tick_now` the one `on_timer_tick` reads. `batch` holds
the events not yet dispatched; any order of dispatch is possible, except that
one event's EPOLLOUT comes before its EPOLLIN as in `handle_connection_event`.

The reactor is one thread, so a handler interleaves only with the environment:
the clock, and the peer filling the socket. A handler is split (`pc`) where that
can matter: `on_timer_tick` into `send_ping` and `check_timeout`, `on_readable`
into the recv loop and one step per message, `on_command_fd_readable` into one
step per line, as many as the buffer holds (`pc = "command"`).

| Action | Code |
|---|---|
| `EpollWait` | `epoll_wait` and the reading of `now_ns` in `run()` |
| `OnHangup`, `OnConnected`, `OnWritable`, `OnReadable`, `OnReadableFailed` | `handle_connection_event` with the `Connection` method it calls, `on_connection_failed` included |
| `HandleConnectAck`, `HandlePong`, `HandleDisconnect`, `HandleViolation`, `DrainDone` | `drain_read_buffer`, one message per step, and the end of `on_readable` |
| `TickPing`, `TickNoPing`, `TickFailed`, `Rebind` | the first half of `on_timer_tick` for this slot: `send_ping`, nothing, a reconnect that is not due or fails, `initiate_connect` |
| `CheckOpening`, `CheckLive`, `CheckSilent` | `check_timeout` in each group of states |
| `SetHeartbeatTimeout`, `SetHeartbeatInterval`, `ForceDisconnect`, `ForceReconnect` | the commands |
| `Advance`, `Peer...` | clock, peer and network |

Abstractions. A unit of data is one 28-byte message: buffers are sequences of
messages and a short write ends between two messages; that the bytes below
behave like such a sequence is what `Wire` shows. `decode_heartbeat` failing is
the message type `corrupt`. Epoll is modelled level-triggered: every set of ready
events may be reported at any wait, which includes what edge triggering
reports. The backoff is left to `FeedMonitor`: here a scheduled reconnect
happens at some later tick, or is never scheduled (budget spent). The code calls
`handle_protocol_violation` for a buffer over its cap as well; in the model the two
caps have reasons of their own, because an honest peer can reach them, so that
`HonestPeerNeverViolates` speaks of messages only.

`baseline`, `inherited`, `rebased_ns`, `peer_alive_ns`, `ack_log` and `reason`
are history: when and with how many misses the current window started, when
the last `set-timeout` and the peer's last message were, the PONGs remembered
on this connection, and what the failure message said. No guard reads them,
except the bound `MaxAcks`.

`FeedLifecycle` is the promise without sockets, clocks and batches: connect,
acknowledge, count misses one at a time, degrade, fail exactly at the limit,
forgive all misses at once, come back only through a new connection.
`Connection` implements it with `misses <- consecutive_missed`
(`ImplementsLifecycle`). What a step of `Connection` may do to the shown state is
scattered over a dozen handlers; the refinement says that nothing else happens,
in particular that no handler skips a state, revives a failed connection or
shows a miss count of the wrong connection.

### HeartbeatSystem

The monitor's `Connection` with its real peer: the simulator's reactor and one
responder, in a process of its own with its own batch and tick clocks (`sim_...`).
`delivered` and `inbox` of `Connection` are the two directions of the socket.
Time passes only as far as both reactors keep up: a tick at most `TickGap` after
the last, a batch finished within `BatchGap`, `epoll_wait` returning at once.
Each process has a configuration of its own: `SimTimeout` is the simulator's
`heartbeat_timeout`, which no option sets (`main_simulator.cpp:129`, always
3000 ms), so an interval near 3 s makes the simulator reap a healthy monitor
whatever the monitor's own timeout is.
These bounds are what "healthy" means in `NoFalseAlarm`; without them any
timeout can be exceeded by a stalled process. The simulator may drop replies, at
most `MaxDrops` of them. Commands, closes and reconnects are left to the runs of
the two components.

### Wire

The sender queues messages of `MessageSize` bytes (`queue_write`), the socket
takes what fits (`flush_write_buffer`), EPOLLOUT and `sync_epoll_interest` bring
the rest; the receiver reads `RecvSize` bytes at a time into `read_accum` and
drains whole messages. A byte is the number of its message and its place in it,
and bytes decode when they are one unaltered message from its start, which is
what magic, version, type and CRC32 are for. Epoll is edge-triggered here: an
edge is reported once, and EPOLL_CTL_MOD looks at the socket anew. `SenderCloses`
drops what is under way or not, `Garble` alters a byte, `Rebind` is a new socket
on the same object. `sent`, `received` and `garbled` are history.

`Channel` is the abstract FIFO of whole messages: losses only at the end, a new
connection starts empty. The mapping reads the queue off the history, so
`ImplementsChannel` says that what the handlers see is, at each step, a prefix of
what was sent on this connection.

### Config

`apply_cli_overrides` as it goes over `argv`: `ScanOption` and `OpenFile` in the
first pass, `ReadLine` and `EndOfFile` inside `parse_config_file`, `ApplyOption`
in the second pass, then `Start` (`main`: help, usage or run), and
`SetByCommand` while it runs. All eleven fields have their real defaults. A text
is the integer it denotes or something that is no integer; 2^32 and 2^16 are
scaled to `IntRange` and `PortRange`, and the `static_cast<int>` after the range
check is `AsInt`. The properties compare the outcome with declarative
definitions (`Chosen`, `Firsts` of `Defined`) over the whole file and all options.
`Chosen` is the value as it was written, with no narrowing: `Precedence` says that
a field that can hold the value has exactly that value. A count too large for an
int is outside it: what the code does with one is among the findings.
Trimming, `key=value` splitting, `id:name:host:port` splitting and getopt's own
rules are left out: a line or option arrives split, or as "other".

### FeedMonitor

`slots`, `index_of_fd` and `index_of_feed_id` are the vector and the two maps.
Descriptors are numbers and `socket()` returns the lowest free one, so numbers
are recycled as in the real process, within one batch too. Time is reduced to
whether a slot's backoff is over. `on_timer_tick` takes one step per slot.
`alerts`, `tries` and `forced` of a slot are history: alerts raised for the
current connection, attempts made since the budget was renewed, and whether an
operator renewed it. `reconnect_attempts` saturates at `AttemptCap`.

The actions follow the functions: `EventProgress`/`EventFailure`
(`handle_connection_event`), `TickQuiet`/`TickTimeout`/`TickPingFails`/
`ConnectFails`/`Reconnect` (one slot of `on_timer_tick`), `AddFeed`,
`RemoveFeed`, `ForceDisconnect`, `ForceReconnect` inside a command callback.

### FeedSimulator

`clients` is `clients_`: descriptor to responder. A session is one TCP
connection a client makes, once; its socket is `link` and `inbox`, and
`received` is what the client got. `accept4()` returns the lowest free number,
so that numbers are recycled, within one batch too. `batch`, `events`, `current`
and `reading` are the events not yet dispatched, the one in hand and what
`recv` returned for it; `todo` counts the replies the tick has still to visit.

| Action | Code |
|---|---|
| `AcceptStart`, `AcceptClient`, `AcceptAborted`, `AcceptEnd` | `accept_new_connections`, one `accept4()` per step |
| `SkipEvent`, `OnHangup`, `OnReadable`, `FinishEvent` | `handle_client_event`; `FinishEvent` is EPOLLOUT, then removal or `sync_epoll_interest` |
| `HandleConnectHello`, `HandlePingDropped`, `HandlePingDeferred`, `HandlePingAnswered`, `HandleFailure`, `DrainDone` | `drain_read_buffer`, the responder's handlers and `on_ping_intercept` |
| `TickReap`, `ReplyNotDue`, `ReplyDue` | `on_timer_tick`: reaping, then one deferred reply per step |
| `KillRandomConnection`, `SetFaultConfig` | the commands |

The random draws of `on_ping_intercept` are choices: a reply is dropped or not
while the drop rate is positive, and a delay is any member of `Delays`. The
timestamp a PONG echoes travels with its sequence number and is left out. The
listening socket is edge-triggered (the default); for clients any readiness may
be reported at any wait, which includes what edge triggering reports.

### CommandLoop

The thread runs through `main` (`boot`, `ready`, `set`) into the loop of `run`
(`test`, `wait`, `dispatch`, and `read`, `split` inside
`on_command_fd_readable`). The outside `stop()` takes two steps, the store and
the write to the eventfd. Input is a sequence of pieces, each a stretch of bytes
of one line, the last one with the newline; buffer cap and read size count
pieces. `pollable = FALSE` is a stdin redirected from a regular file, which
`epoll_ctl` refuses with EPERM. A `read()` that fails with another error than
EAGAIN or EINTR is left out. `FeedSimulator` has the same code with other log
texts.

## Runs

All runs but `config` check for deadlock: `epoll_wait` can always return the
timer. `config` ends when the program exits or has nothing more to set.

| Run | Cfg | Checks | Instance |
|---|---|---|---|
| `conn_timing` | `MCConnectionTiming` | `TypeOK`, `SilenceBounded`, `DeadPeerDetected`, `MissesMatchState`, `FailureIsEarned`, `ImplementsLifecycle` | timeout 2, two misses, tick gap 1, clock to 9, garbage from the peer |
| `conn_session` | `MCConnectionSession` | `HonestPeerNeverViolates`, `AckMemoryExact`, `AckedOncePerWindow` | all commands, close, reset, short writes, duplicated PONGs, ring of 2 |
| `system` | `MCHeartbeatSystem` | `NoFalseAlarm`, `LossTolerated` | interval 2, timeouts 5 and 8 at the monitor, 4 at the simulator, two misses, tick and batch gap 1, one dropped reply, clock to 24 |
| `wire` | `MCWire` | `TypeOK`, `NeverDesynced`, `ImplementsChannel`, `AllDelivered` | messages of 5 bytes, socket of 6, reads of 3, caps 14 and 12, seven messages; fairness |
| `monitor_commands` | `MCMonitorCommands` | `TypeOK`, `FeedIndexExact`, `LiveSlotReachable`, `ReportedSlotDetached`, `RetryBookkeeping`, `RetryBudget`, `OneAlertPerFailure` | two feeds, three descriptors, budget 1, all commands, failing `socket()` and `epoll_ctl()` |
| `monitor_retry` | `MCMonitorRetry` | `LiveSlotReachable`, `ReportedFailureRetried` | as above with failing pings, without add and remove; fairness |
| `monitor_silent` | `MCMonitorSilent` | `EveryFailureRetried` (violated) | unlimited retries, failing pings; fairness |
| `sim_replies` | `MCSimulatorReplies` | `TypeOK`, `DeferredReplyFindsAsker`, `RepliesExact`, `UnsentBytesArmed` | two sessions in turn on one descriptor, two delays, two PINGs, short writes, closes, kill |
| `sim_reap` | `MCSimulatorReap` | `SilentClientReaped`, `BacklogNoticed` | two sessions, two descriptors, timeout 2, clock to 4, resets, failing `epoll_ctl()`, dropped replies |
| `command_loop` | `MCCommandLoop` | `TypeOK`, `InputConserved`, `LinesIntact`, `InputNoticed`, `InputRuns`, `StopReturns` | three lines, one in two pieces, the last a quit without newline, cap of 3, outside stop; fairness |
| `config` | `MCConfig` | `TypeOK`, `Precedence`, `FeedsExact` | up to two options of nine and five lines of seven, feeds with an id and a port, `IntRange` 1024 |
| `command_lost` | `MCCommandLost` | `StopHonoured` (violated) | no input, outside stop; fairness |

**Bounds.** `MaxTime` leaves room for a handshake, the misses that fail the
connection and a reconnect (a failure takes two timeouts of 2 and a tick).
`MaxInbox` and `MaxAcks` bound the receive queue and the PONGs of one
connection; the ring of 2 wraps after the third. Caps of 2 messages for the
buffers are reached by pings the peer does not read. Two feeds suffice for
swap-and-pop to move a slot; three descriptors give one spare, so that a
reconnecting slot frees a number another slot takes. One descriptor and two
sessions are the smallest instance in which a simulator client inherits a
number; two delays let jitter reorder replies. In `command_loop` the cap is
below the length of the input, so that both runs that hit it and runs that do
not are covered.

`system`: with these gaps the monitor raises false alarms with a timeout of 4 and
none with 5, the simulator, which hears the PINGs themselves, with 3 and none with
4: 5 and 4 are on the boundary of this instance. 8 is the shortest timeout that
`Prompt` (see the proofs) allows for either. The clock reaches the two timeouts
a failure takes: with three dropped replies the feed does fail. In `wire` the
size of a message shares no divisor with the socket's and a read's, so that cuts
fall at every place of a message; both caps are reached. In `config`, 1024 is 0
as an int, which the check of `max_missed_heartbeats` refuses, and the first feed
id out of range; 1023 is -1 as an int, which `max_reconnect_attempts` accepts as
unlimited; five lines hold two sections, one of them incomplete. Name and host go
through the same code as id and port and are left out of the instance.

`set-timeout` between two different timeouts multiplies the states and is in no
run: `MissesCorrect`, `SilenceCorrect` and `FailuresEarned` below prove the three
properties it endangers for any set of timeouts.

**Why `monitor_commands` has no failing pings.** After an unreported failure
(below) an operator's `reconnect` leaves a stale entry in `index_of_fd_`, and an
event of the old descriptor in the same batch then reports the new connection's
failure twice. The properties of that run are those of a monitor in which every
failure is reported; `monitor_retry` and `monitor_silent` are about the other
case. There, a removal may also leave an entry of `index_of_fd_` that is past the
end of `slots_`, and the code accesses it all the same; the model does not follow
it.

**Fairness** (`FairSpec`). The reactor thread keeps running and handles a batch
to its end; a callback handles finitely many lines; backoff delays are finite.
The timer is strongly fair: the timerfd is readable again every tick and epoll
rotates its ready list, so it cannot be left out of the batches for ever.
Nothing is assumed of the peer or of the operator. In `CommandLoop` the thread
keeps running, a `stop()` once begun is finished, and epoll does not pass over
the command descriptor for ever. In `Wire` both reactors keep running and epoll
reports the edges it has; nothing is assumed of closes or of new messages.

Each property of a passing run comes with a wrong version of one definition
(named `Bug...`, just before it) under which TLC finds it violated.

## Findings

1. `monitor_silent`: `send_ping` may fail the connection in the tick;
   `check_timeout` then returns false, so neither alert nor reconnect follows.
   A `send()` error usually comes with EPOLLHUP or EPOLLERR, whose event reports
   the failure later; the write cap (a peer that does not read) comes with
   nothing, and the feed stays failed until an operator acts.
2. `command_lost`: `run()` clears `stop_requested_` when it starts, so a signal
   between the installation of the handlers and `run()` is forgotten.

The models also show, without a run of their own:

- The three int fields of the configuration are narrowed after their range check.
  4294967296 for `max_missed_heartbeats` passes "must be >= 1" and is stored as 0,
  which fails a feed at its first miss; `config.h:46-47` says that "invalid values
  are logged to stderr and skipped" and `config_test.cpp:138` that they "are
  rejected, not silently accepted". TLC finds a refused value in use on the
  instance of `config`; `RejectionCorrect` proves that there is no other way to get
  one in from a file or a flag. The feed id is checked against the same wrap-around
  (`config.cpp:161-165`). In the same way 4294967295 for `max_reconnect_attempts`
  becomes -1, unlimited: an accepted value, but not the one written.
  `epoll_max_events` is clamped where it is used.
- After 1, an operator's `reconnect` leaves the old descriptor in `index_of_fd_`
  beside the new one, against the comment at `feed_monitor.h:73-75`. If the new
  connection fails in a batch that still holds an event of the old descriptor,
  its failure is alerted twice and pays for two attempts, while
  `connection.h:86-89` asks for exactly one alert. TLC violates
  `OneAlertPerFailure` in this way, in 17 states, when "send" is among the faults.
- The simulator's lookup that is meant to skip a "stale event for an fd already
  removed earlier in this same batch" (`feed_simulator.cpp:173`) goes by
  descriptor number. A client is killed or reaped, its number is accepted again
  in the same batch, and the old client's hangup ends the new client.
- As in 1, the simulator's tick does not look at the state after a deferred
  `send_pong`. A client failed there by the write cap stays in `clients_`, and
  `check_timeout` passes over it from then on, although the tick is there to reap
  "any client that's gone silent" (`feed_simulator.cpp:246-248`).
- A burst of complete short command lines over the cap is discarded, with the
  message that one line had no newline: lines are split after the read loop.
- The tick stamps a PING with a clock read after the batch's `now_ns`; if the
  peer answers before the batch reaches the connection's own event,
  `handle_pong` computes a negative RTT from a correct peer and drops the proof
  of life. Its comment blames "clock skew, a buggy peer, or a forged message".
  The next PONG repairs it, and the detection properties hold.
- Also after 1, removing another feed moves the failed slot and, because it is
  kFailed, does not repoint its entry in `index_of_fd_`, which then names a slot
  that is gone: `remove_slot_at` relies on the entry having been erased.
  `main.cpp` has no command that removes feeds.
- As in the simulator, `FeedMonitor::run` can dispatch the event of a removed
  feed to a feed added in the same callback. `main.cpp` has no command that
  removes or adds feeds, so this needs another user of the class.
- `epoll_ctl` refuses a regular file with EPERM and `set_command_input` does not
  look, so commands redirected from a file never run (`pollable = FALSE`).
- `set-interval` and `set-timeout` take zero and negative values, which files and
  flags refuse; with a timeout of zero every tick is a miss.
- A file's feed wins over a `--feed` with the same id, the opposite of the
  precedence of the other settings.
- `feed_simulator.h:17-18` says that the responder's `check_timeout` is a no-op
  and that there is no periodic scan, while `on_timer_tick` scans and reaps.
- `handle_connect_hello` sets kHealthy even when sending the CONNECT_ACK has just
  failed the connection.
- After EMFILE the edge-triggered listening socket is silent until the next
  client arrives; `BacklogNoticed` is stated and checked with enough descriptors.

## Proofs

Eight modules hold theorems. Each states its results for every value of the
constants that satisfies the `ASSUME`s of the module it is about; where a
theorem needs more, its statement says so. A safety property follows from an
inductive invariant, checked by TLC on the runs' instances before it was
proved, by one lemma per action or group of actions.

### Connection: failure detection (`ConnectionProofs`)

- `TypeCorrect`: `Spec => []TypeOK`, with the strengthening that the read buffer
  of a connection that is up is empty outside `drain_read_buffer`. Without it the
  recv loop could not be shown to take a proper prefix of the queue.
- `DetectionCorrect`: `Spec => []DetectionInv`, the inductive invariant below.
- `MissesCorrect`, `SilenceCorrect`, `FailuresEarned`: the properties
  `MissesMatchState`, `SilenceBounded` and `FailureIsEarned` of the runs.

`DetectionInv` has four parts. `ClockInv` relates the three clocks: the batch's
`now_ns` is at most `TickGap` behind what the tick reads, which needs the fact
that a tick still in the batch finds the previous one not later than
`batch_now`. `WindowInv` says where the sliding window of `check_timeout` is: one
timeout after its baseline for every miss counted since. `LagInv` says that a
tick leaves the window less than a timeout behind, so that one miss per tick is
enough; it is here that `TickGap < heartbeat_timeout` is used. `MissesMatchState`
bounds the misses by the limit. `SilenceBounded` adds the three distances
(clock to tick, tick to window, window to baseline); `FailureIsEarned` needs
only the window, and that no other failure carries the reason of a heartbeat
timeout. Steps that touch none of this are collected in `Untimed`.

Assumptions: `TimingAssumption` (timeouts longer than the distance of two
ticks; positive intervals), `LimitAssumption` (positive limits),
`ForgedAssumption` (a forged message is a message). The first is true of the
defaults (3000 ms and 50 ms), but `set-timeout` does not enforce it, and a
reactor that stalls for longer than a timeout is outside it.

### Connection: the state shown and the ring (`ConnectionProofs`)

- `LifecycleImplemented`: `Spec => ImplementsLifecycle`. Each action is a step of
  `FeedLifecycle` or changes neither the state nor the misses shown; types are
  the only invariant it needs.
- `AckMemoryCorrect`, `AckedOnceCorrect`: the ring. `RingInv` says which PONG of
  the log each cell in use holds (`LogIndex`, which turns over at the cursor),
  and that the ring is filling or full; from it the set of cells is the set of
  the last `AckedWindow` PONGs.

### Connection: the peer (`PeerProofs`)

- `DeadPeerCorrect`: `DeadPeerDetected`. `RequestInv` and `ReplyInv` follow a
  message there and back: what the connection asks is no younger than now, so an
  answer under way is no older than its request and no younger than the peer's
  last sign of life. `OpeningInv` bounds the handshake, `EvidenceInv` then bounds
  the baseline by the peer's last message, one timeout and one tick, and
  `SilenceBounded` does the rest.
- `HonestPeerCorrect`: `HonestPeerNeverViolates`. `HonestInv` orders what an honest
  peer has under way: the CONNECT_ACK first, PONGs only once the connection is
  live, DISCONNECT only when the peer has closed.

The first proof attempt failed for a reason: `DeadPeerDetected` used to assume
only that PONGs are genuine. A peer that sends its CONNECT_ACK before it is asked
is believed up to one timeout longer. Its premise is now `EvidenceAnswers`:
neither PONGs nor CONNECT_ACKs are forged.

### The two ends together (`SystemProofs`)

- `SystemBase`: `SystemSpec => []BaseInv`: types, `DetectionInv` and the distance of
  each reactor from the start of its batch, whatever the timing. The steps of
  the monitor are steps of `Connection`, so its lemmas are used as they stand; the
  simulator touches only the socket.
- `NoFalseAlarmCorrect`, `LossToleratedCorrect`: the two properties of the run
  `system`, under `Prompt`.

`Prompt` is the answer to "how long must the timeouts be": the monitor's and the
simulator's each at least `heartbeat_interval + TickGap + 5 * BatchGap`. Two
PINGs are less than an interval and a tick apart (`Period`); a PING waits for a
batch of the simulator and is handled at its end, its PONG waits for a batch of
the monitor and is handled at its end; and the clock by which the last PONG
counted may be one batch older than the PING it answered. With the defaults (1000
ms, 3000 ms, a tick every 50 ms) a batch may take 390 ms. `Prompt` also asks that
`send()` takes a message whole, and that the read buffer holds the PONGs of four
batches; 64 KiB hold 2340 of them.

Five batches are needed in general: with interval 1, tick gap 2 and batch gap 1
the condition is a timeout of 8, and TLC finds `NoFalseAlarm` violated with 7.
For other proportions it is not necessary (interval 2 and tick gap 1 hold with 5,
as the run shows), since ticks and batches cannot then fall as badly.

The inductive invariant is `StageInv`: as long as fewer replies were dropped than
the monitor tolerates misses, the connection is intact (`LinkInv`) and in one of
four stages. `Dialing`, `Greeting` and `Acking` place the one message under way and
bound its age in batches, so that neither end gives up the handshake. In a
`Session` there are two sequences that no variable holds: `sent`, the times of all
PINGs, and `answered`, the numbers of all PINGs replied to. The invariant claims
that such sequences exist; each step extends one of them or none.

- `Sched`: PINGs d apart are at most d periods and at least d intervals apart.
- `Answers`: the replies are in order, and at most `drops` numbers are missing.
- `Pings` and `Pongs`: what is in either socket or buffer is exactly the part of
  the two sequences not handled yet, in order, and its first message is not
  older than the batches it has waited for (`SimWaits`, `MonitorWaits`).
- `Evidence`: the baseline of the silence window is at most one batch behind the
  PING last answered. A PONG of the batch of its own PING, thrown away for its
  negative round-trip time, still fits: the baseline is then `batch_now` already.
  The cells of the ring hold smaller numbers, so that no PONG is taken for a
  duplicate.

From these, `SilenceBound` says that the monitor's silence is at most five batches
and `drops + 1` periods, which is less than `drops + 1` timeouts; together with
`WindowInv` the misses never exceed `drops` (`MissesBounded`). `ClientHeard` is the
same for the simulator, whose single strike counts PINGs and so is not touched by
dropped replies, and `NoReadOverflow` keeps the read buffer below its cap. TLC
checked `StageInv`, with `sent` and `answered` as history variables, before it was
proved.

### Wire (`WireProofs`)

- `WireTypeCorrect`, `NeverDesyncedCorrect`, and `ChannelImplemented`:
  `Spec => ImplementsChannel`.

`StreamInv` is the idea: read buffer, socket and write buffer, laid end to end,
continue the stream of bytes at the place the handlers have reached (`Consumed`),
and reach its end as long as the sender has not closed. Every cut of a short
write or read moves a border inside that sequence. `CapInv` says that only an end
that has failed is over its cap, so that no live buffer loses bytes. `OrderInv`
is `StreamInv` up to the receiver's verdict. The refinement reads the queue of
`Channel` off the history; its invariants say that a drained message is the head
of it.

### FeedMonitor (`FeedMonitorProofs`)

- With every fault the model has: `MonitorTypeCorrect`, `FeedIndexCorrect`,
  `LiveSlotCorrect`, `ReportedSlotCorrect`, `RetryBudgetCorrect`.
- For monitors in which no `send()` of a ping fails (`"send" \notin Faults`):
  `OneAlertCorrect`, `RetryBookkeepingCorrect`.

`MonitorInv` adds to the types and to the two indexes that the slots' descriptors
are distinct (`FdsDistinct`: a failed slot keeps its descriptor open until
`rebind`, so its number is not handed out again), that a slot that is up has no
alert, and what a scheduled attempt costs (`Paid`). `ReportInv` adds that every
entry of `index_of_fd_` is that of a live slot (`MappedLive`), which makes a
second report impossible. The hypothesis is needed: with failing pings and an
operator's `reconnect` TLC violates both in traces of 17 states, for the reason
given under "Why `monitor_commands` has no failing pings".

### CommandLoop (`CommandLoopProofs`)

- `CommandTypeCorrect`, `InputConservedCorrect`, `LinesIntactCorrect`,
  `InputNoticedCorrect`.

`WatchInv` and `LateInv` place the edge: what arrives between the last `read()` and
the end of the split is owed a report. `LineInv` says of each line handled that
its newline is its last piece, or that it was the end of the input. The lemmas
about `FlattenSeq` (its type, and that it distributes over `Append`) are proved by
a least counterexample (`LeastNat`), since induction theorems with an operator
parameter are out of the provers' reach.

### FeedSimulator (`FeedSimulatorProofs`)

- `SimulatorTypeCorrect`, `DeferredReplyCorrect`, `UnsentBytesCorrect`,
  `SilentClientCorrect`.
- `RepliesCorrect`: what a client is sent, for any number of sessions, PINGs,
  delays and faults.
- `BacklogCorrect`, if there are at least as many descriptors as sessions
  (`EnoughFds`): after EMFILE the edge is gone, see the findings.

`SimInv`: a session waits in the backlog once or belongs to one client
(`SocketInv`), only the client being handled has bytes pending without EPOLLOUT
(`ArmedInv`), and between two ticks every client's last sign is less than a
timeout old (`SignInv`, `TimeInv`). `remove_client` is a filter of the deferred
replies; `Purged` and `KeptOf` say that it keeps the replies of other
descriptors, in order. That a free descriptor exists for what waits is the
pigeonhole principle on the clients' peers.

`RepliesExact` needs a second invariant, `RepliesInv`, on top of `SimInv`. For each
session it follows a PING through the four places it can be in: the socket, the
buffer being read, the deferred replies, the stream of what was sent and is
queued. `Exact` says that a PING is in one of them at most and once at most, and
that all of them are numbers the client has used. The lemmas `ExactHello` to
`ExactReply` are about sequences only, one for each way a message moves; the
step lemmas show that each action is one of them for one session (or for all
those removed) and leaves the others alone. `AckInv` ties the CONNECT_ACK to the
state: a handshaking client has been sent nothing, a healthy one something.
`DeferredOnce` is why a reply taken off the front is not still behind it, and
`FreshInv` why a session just accepted starts with an empty stream.

### Config (`ConfigProofs`)

- `ConfigTypeCorrect`, `PrecedenceCorrect`, `FeedsCorrect`, for every file, command
  line and sequence of commands.
- `RejectionCorrect`: `Spec => [](CountsFit => InvalidRejected)`, that narrowing
  is the only way around the checks: while the counts chosen fit an int, a running
  monitor has no value its checks refuse, but for what an operator set.

`StageInv` says what comes when: a file is read in the first pass, the commands
come after the second. `ValueInv` is precedence cut off at the current position:
in the first pass a field has the file's value, in the second that of the last
flag before `at`, if there is one. `ValueInv` is about the value as stored;
`KeptAsWritten` says that a value that fits is stored as written, which turns it
into `Precedence`, and `ChosenAccepted` that the value chosen was accepted by its
check, which under `CountsFit` gives `InvalidRejected`.

`FeedInv` is the same for the feeds: the pending feed is what the last section
has defined so far, the list holds the first valid definitions of the sections
that are over and of the options gone over. `AddExact` is the heart of it: a
definition behind all others is the first of its id exactly if no feed of the
list has that id, and its rank is then the new length. The proof needs
`IntRange > 2 * 256`, that the default of `epoll_max_events` fits an int;
`ConfigAssumption` did not say so at first.

### Only model-checked

- Liveness (`ReportedFailureRetried`, `EveryFailureRetried`, `InputRuns`,
  `StopReturns`, `StopHonoured`, `AllDelivered`): it rests on fairness and
  ENABLED, which the provers do not handle.

## Not modelled

- Byte order and the arithmetic of CRC32: pure functions of 28 bytes.
- Splitting of text: trimming, `key=value`, `id:name:host:port`, getopt.
- The simulator's own options, each of which sets one variable once.
- Statistics: counters and a floating-point EWMA that no decision reads.
- The display: output only.
- The values of the backoff delay (a bounded doubling with random jitter in
  floating point); that it ends is all the other parts rely on.
- `unique_fd.h`, `epoll_utils.h`, `time_utils.h`: wrappers of system calls, which
  appear where they are used.
- Benchmarks, fuzzers and the demo drive the parts above and keep no state of the
  system.

## Plan

Done: `Connection`, `FeedMonitor`, `FeedSimulator`, `CommandLoop`, their
composition for one feed, both refinements, the byte layer and the
configuration, with proofs of every safety property the runs check. What is left
is liveness, which stays with TLC, and the composition for several feeds.
