----------------------------- MODULE FeedMonitor -----------------------------
(***************************************************************************)
(* FeedMonitor's slots and indexes: slots_, index_of_fd_,                  *)
(* index_of_feed_id_, the epoll set, the reconnect bookkeeping of each     *)
(* slot, and the reactor that dispatches one epoll batch at a time.        *)
(*                                                                         *)
(* What a Connection does inside an event or a tick (module Connection) is *)
(* abstracted to its outcome: it stays up, or it ends kFailed.  Time is    *)
(* abstracted to whether a slot's backoff is over.  File descriptors are   *)
(* numbers and socket() returns the lowest free one, so a closed number    *)
(* comes back.                                                             *)
(***************************************************************************)
EXTENDS Integers, Sequences, Functions

CONSTANTS
  InitialFeeds,          \* the feeds main() adds before run(), in order
  Feeds,                 \* every feed_id that may be added
  Fds,                   \* descriptors the process may open: 1 .. n
  MaxReconnectAttempts,  \* config max_reconnect_attempts, -1 = unlimited
  AttemptCap,            \* bound: reconnect_attempts saturates here
  Commands,              \* operations the command callback may perform
  Faults                 \* faults a run exercises

ASSUME FeedsAssumption ==
  /\ InitialFeeds \in Seq(Feeds)
  /\ \A i, j \in 1 .. Len(InitialFeeds) : InitialFeeds[i] = InitialFeeds[j] => i = j

ASSUME FdsAssumption == Fds \subseteq Nat /\ 1 .. Len(InitialFeeds) \subseteq Fds

ASSUME RetryAssumption ==
  /\ MaxReconnectAttempts \in Nat \cup {-1}
  /\ AttemptCap \in Nat /\ MaxReconnectAttempts <= AttemptCap

\* "opening" stands for kConnecting and kHandshaking, "live" for kHealthy and
\* kDegraded.
ConnStates == {"opening", "live", "failed"}

\* reconnect_ready_at_ns: none is -1, waiting is in the future, due is past.
Slot == [feed_id : Feeds, fd : Fds, conn : ConnStates,
         reconnect_attempts : 0 .. AttemptCap, ready : {"none", "waiting", "due"},
         give_up : BOOLEAN,
         alerts : Nat, tries : Nat, forced : BOOLEAN]   \* history

VARIABLES
  slots, index_of_fd, index_of_feed_id,
  epoll,                 \* descriptors registered with epoll
  pc,                    \* "loop", "tick" or "command"
  cursor,                \* the slot on_timer_tick is at
  batch,                 \* "timer" and "command", if still to be dispatched
  events                 \* descriptors whose events are still to be dispatched

vars == <<slots, index_of_fd, index_of_feed_id, epoll, pc, cursor, batch, events>>
indexes == <<index_of_fd, index_of_feed_id, epoll>>
reactor == <<pc, cursor, batch, events>>

-----------------------------------------------------------------------------
OpenFds == {slots[i].fd : i \in DOMAIN slots}
FreeFds == Fds \ OpenFds
LowestFree == CHOOSE f \in FreeFds : \A g \in FreeFds : f <= g

NewSlot(feed, fd) ==
  [feed_id |-> feed, fd |-> fd, conn |-> "opening", reconnect_attempts |-> 0,
   ready |-> "none", give_up |-> FALSE, alerts |-> 0, tries |-> 0, forced |-> FALSE]

\* Definitions named Bug... are wrong on purpose, each a slip one could make in
\* the definition that follows it; nothing uses them but the sensitivity runs.

BugEmplace(map, key, value) ==
  IF key \in DOMAIN map THEN map
  ELSE [k \in DOMAIN map \cup {key} |-> IF k = key THEN value ELSE map[k]]

\* map[key] = value, and map.erase(key)
Put(map, key, value) ==
  [k \in DOMAIN map \cup {key} |-> IF k = key THEN value ELSE map[k]]

Erase(map, key) == Restrict(map, DOMAIN map \ {key})

\* EPOLL_CTL_ADD can fail, which the code only logs.
EpollAdd(set, fd) ==
  {set \cup {fd}} \cup (IF "epoll_ctl" \in Faults THEN {set} ELSE {})

BugBudgetOffByOne(s) ==
  IF MaxReconnectAttempts >= 0 /\ s.reconnect_attempts > MaxReconnectAttempts
  THEN [s EXCEPT !.give_up = TRUE]
  ELSE [s EXCEPT !.ready = "waiting",
                 !.reconnect_attempts = IF @ < AttemptCap THEN @ + 1 ELSE @]

BugNotScheduled(s) ==
  IF MaxReconnectAttempts >= 0 /\ s.reconnect_attempts >= MaxReconnectAttempts
  THEN [s EXCEPT !.give_up = TRUE]
  ELSE [s EXCEPT !.reconnect_attempts = IF @ < AttemptCap THEN @ + 1 ELSE @]

\* schedule_reconnect
ScheduleReconnect(s) ==
  IF MaxReconnectAttempts >= 0 /\ s.reconnect_attempts >= MaxReconnectAttempts
  THEN [s EXCEPT !.give_up = TRUE]
  ELSE [s EXCEPT !.ready = "waiting",
                 !.reconnect_attempts = IF @ < AttemptCap THEN @ + 1 ELSE @]

BugStillMapped(i) ==
  /\ epoll' = epoll \ {slots[i].fd}
  /\ slots' = [slots EXCEPT ![i] =
                 ScheduleReconnect([@ EXCEPT !.conn = "failed", !.alerts = slots[i].alerts + 1])]
  /\ UNCHANGED <<index_of_fd, index_of_feed_id>>

\* on_connection_failed: out of epoll and index_of_fd_, one alert, schedule.
OnConnectionFailed(i) ==
  /\ epoll' = epoll \ {slots[i].fd}
  /\ index_of_fd' = Erase(index_of_fd, slots[i].fd)
  /\ slots' = [slots EXCEPT ![i] =
                 ScheduleReconnect([@ EXCEPT !.conn = "failed", !.alerts = slots[i].alerts + 1])]
  /\ UNCHANGED index_of_feed_id

-----------------------------------------------------------------------------
Init ==
  /\ slots = [i \in 1 .. Len(InitialFeeds) |-> NewSlot(InitialFeeds[i], i)]
  /\ index_of_fd = [f \in 1 .. Len(InitialFeeds) |-> f]
  /\ index_of_feed_id =
       [f \in Range(InitialFeeds) |-> CHOOSE i \in DOMAIN InitialFeeds : InitialFeeds[i] = f]
  /\ epoll = 1 .. Len(InitialFeeds)
  /\ pc = "loop" /\ cursor = 0 /\ batch = {} /\ events = {}

\* A slot's backoff delay passes.
BackoffExpires(i) ==
  /\ i \in DOMAIN slots /\ slots[i].ready = "waiting"
  /\ slots' = [slots EXCEPT ![i].ready = "due"]
  /\ UNCHANGED <<indexes, reactor>>

\* epoll_wait returns some of what is ready, in any order.
EpollWait ==
  /\ pc = "loop" /\ batch = {} /\ events = {}
  /\ events' \in SUBSET epoll
  /\ batch' \in SUBSET ({"timer"} \cup (IF Commands = {} THEN {} ELSE {"command"}))
  /\ batch' # {} \/ events' # {}
  /\ UNCHANGED <<slots, indexes, pc, cursor>>

EpollWaitTimer == EpollWait /\ "timer" \in batch'

-----------------------------------------------------------------------------
(* Connection events                                                       *)

\* No entry in index_of_fd_: the event is skipped.
SkipEvent(fd) ==
  /\ pc = "loop" /\ fd \in events
  /\ fd \notin DOMAIN index_of_fd
  /\ events' = events \ {fd}
  /\ UNCHANGED <<slots, indexes, pc, cursor, batch>>

\* handle_connection_event on whatever slot index_of_fd_ names.  The event may
\* be older than the descriptor: numbers come back within a batch.  An index
\* past the end (an access out of bounds) is not followed.
EventHandled(fd) ==
  /\ pc = "loop" /\ fd \in events
  /\ fd \in DOMAIN index_of_fd /\ index_of_fd[fd] \in DOMAIN slots
  /\ events' = events \ {fd}
  /\ UNCHANGED <<pc, cursor, batch>>

\* The connection is still up afterwards.
EventProgress(fd) ==
  /\ EventHandled(fd)
  /\ LET i == index_of_fd[fd] IN
       /\ slots[i].conn # "failed"
       /\ \E c \in {slots[i].conn, "live"} : slots' = [slots EXCEPT ![i].conn = c]
  /\ UNCHANGED indexes

\* It failed in this event, or already in an earlier tick.
EventFailure(fd) ==
  /\ EventHandled(fd)
  /\ OnConnectionFailed(index_of_fd[fd])

-----------------------------------------------------------------------------
(* on_timer_tick, one step per slot                                        *)

TickStart ==
  /\ pc = "loop" /\ "timer" \in batch
  /\ batch' = batch \ {"timer"}
  /\ IF slots = <<>>
     THEN UNCHANGED <<pc, cursor>>
     ELSE pc' = "tick" /\ cursor' = 1
  /\ UNCHANGED <<slots, indexes, events>>

BugOneSlotTooFar ==
  /\ pc = "tick"
  /\ IF cursor > Len(slots)
     THEN pc' = "loop" /\ cursor' = 0
     ELSE pc' = "tick" /\ cursor' = cursor + 1
  /\ UNCHANGED batch

\* The loop over slots_ goes on to the next slot, or ends.
TickNext ==
  /\ pc = "tick"
  /\ IF cursor = Len(slots)
     THEN pc' = "loop" /\ cursor' = 0
     ELSE pc' = "tick" /\ cursor' = cursor + 1
  /\ UNCHANGED batch

ReconnectDue(s) == s.conn = "failed" /\ ~s.give_up /\ s.ready = "due"

\* Nothing happens to the slot, or its ping goes out.
TickQuiet ==
  /\ TickNext
  /\ ~ReconnectDue(slots[cursor])
  /\ UNCHANGED <<slots, indexes, events>>

\* check_timeout returns true.
TickTimeout ==
  /\ TickNext
  /\ slots[cursor].conn # "failed"
  /\ OnConnectionFailed(cursor)
  /\ UNCHANGED events

\* send_ping fails the connection (send error or write_pending_ over its cap);
\* check_timeout then returns false, so on_connection_failed is not called.
TickPingFails ==
  /\ TickNext
  /\ "send" \in Faults /\ slots[cursor].conn = "live"
  /\ slots' = [slots EXCEPT ![cursor].conn = "failed"]
  /\ UNCHANGED <<indexes, events>>

CountTry(s) == IF MaxReconnectAttempts >= 0 THEN s.tries + 1 ELSE 0

\* initiate_connect: socket() fails, schedule_reconnect decides again.
ConnectFails ==
  /\ TickNext
  /\ ReconnectDue(slots[cursor])
  /\ FreeFds = {} \/ "socket" \in Faults
  /\ slots' = [slots EXCEPT ![cursor] =
                 ScheduleReconnect([@ EXCEPT !.ready = "none", !.tries = CountTry(slots[cursor])])]
  /\ UNCHANGED <<indexes, events>>

\* initiate_connect and rebind: the new descriptor is opened before the old one
\* is closed.
Reconnect ==
  /\ TickNext
  /\ ReconnectDue(slots[cursor])
  /\ FreeFds # {}
  /\ slots' = [slots EXCEPT ![cursor] =
                 [@ EXCEPT !.ready = "none", !.conn = "opening", !.fd = LowestFree,
                           !.alerts = 0, !.tries = CountTry(slots[cursor])]]
  /\ index_of_fd' = Put(index_of_fd, LowestFree, cursor)
  /\ epoll' \in EpollAdd(epoll \ {slots[cursor].fd}, LowestFree)
  /\ UNCHANGED <<index_of_feed_id, events>>

-----------------------------------------------------------------------------
(* on_command_fd_readable: the callback runs once per line                 *)

CommandStart ==
  /\ pc = "loop" /\ "command" \in batch
  /\ batch' = batch \ {"command"}
  /\ pc' = "command"
  /\ UNCHANGED <<slots, indexes, cursor, events>>

CommandEnd ==
  /\ pc = "command"
  /\ pc' = "loop"
  /\ UNCHANGED <<slots, indexes, cursor, batch, events>>

InCommand(c, f) == pc = "command" /\ c \in Commands /\ f \in Feeds

\* force_disconnect of a feed that is not kFailed; otherwise it does nothing.
ForceDisconnect(f) ==
  /\ InCommand("disconnect", f)
  /\ f \in DOMAIN index_of_feed_id
  /\ slots[index_of_feed_id[f]].conn # "failed"
  /\ OnConnectionFailed(index_of_feed_id[f])
  /\ UNCHANGED reactor

BugStillGivenUp(s) ==
  [s EXCEPT !.reconnect_attempts = 0, !.ready = "due", !.tries = 0, !.forced = TRUE]

\* The operator's reconnect renews the retry budget.
FreshBudget(s) ==
  [s EXCEPT !.give_up = FALSE, !.reconnect_attempts = 0, !.ready = "due",
            !.tries = 0, !.forced = TRUE]

\* force_reconnect of a kFailed feed; otherwise it does nothing.
ForceReconnect(f) ==
  /\ InCommand("reconnect", f)
  /\ f \in DOMAIN index_of_feed_id
  /\ slots[index_of_feed_id[f]].conn = "failed"
  /\ slots' = [slots EXCEPT ![index_of_feed_id[f]] = FreshBudget(@)]
  /\ UNCHANGED <<indexes, reactor>>

AddFeed(f) ==
  /\ InCommand("add", f)
  /\ f \notin DOMAIN index_of_feed_id
  /\ FreeFds # {}
  /\ slots' = Append(slots, NewSlot(f, LowestFree))
  /\ index_of_fd' = Put(index_of_fd, LowestFree, Len(slots) + 1)
  /\ index_of_feed_id' = Put(index_of_feed_id, f, Len(slots) + 1)
  /\ epoll' \in EpollAdd(epoll, LowestFree)
  /\ UNCHANGED reactor

BugFdNotRepointed(map, index) == map

BugRepointAlways(map, index) == Put(map, slots[Len(slots)].fd, index)

\* The moved slot's descriptor is repointed unless the slot is kFailed.
RepointFd(map, index) ==
  IF slots[Len(slots)].conn # "failed" THEN Put(map, slots[Len(slots)].fd, index) ELSE map

BugFeedNotRepointed(map, index) == map

\* The moved slot's feed_id is repointed.
RepointFeed(map, index) == Put(map, slots[Len(slots)].feed_id, index)

\* remove_slot_at: swap with the last slot and pop.
RemoveFeed(f) ==
  /\ InCommand("remove", f)
  /\ f \in DOMAIN index_of_feed_id
  /\ LET index == index_of_feed_id[f]
         last == Len(slots)
         fds == Erase(index_of_fd, slots[index].fd)
         ids == Erase(index_of_feed_id, f)
     IN /\ epoll' = epoll \ {slots[index].fd}
        /\ slots' = SubSeq([slots EXCEPT ![index] = slots[last]], 1, last - 1)
        /\ IF index = last
           THEN index_of_fd' = fds /\ index_of_feed_id' = ids
           ELSE /\ index_of_fd' = RepointFd(fds, index)
                /\ index_of_feed_id' = RepointFeed(ids, index)
  /\ UNCHANGED reactor

-----------------------------------------------------------------------------
Dispatch ==
  \/ \E fd \in events : SkipEvent(fd) \/ EventProgress(fd) \/ EventFailure(fd)
  \/ TickStart \/ CommandStart

TickSlot == TickQuiet \/ TickTimeout \/ TickPingFails \/ ConnectFails \/ Reconnect

Callback ==
  \E f \in Feeds : ForceDisconnect(f) \/ ForceReconnect(f) \/ AddFeed(f) \/ RemoveFeed(f)

Next ==
  \/ \E i \in DOMAIN slots : BackoffExpires(i)
  \/ EpollWait \/ Dispatch \/ TickSlot \/ Callback \/ CommandEnd

Spec == Init /\ [][Next]_vars

\* The reactor keeps running, a callback handles finitely many lines, the
\* backoff is finite, and epoll, which serves ready descriptors in turn, does
\* not starve the level-triggered timerfd.
Fairness ==
  /\ WF_vars(Dispatch) /\ WF_vars(TickSlot) /\ WF_vars(CommandEnd)
  /\ SF_vars(EpollWaitTimer)
  /\ \A f \in Feeds : WF_vars(\E i \in DOMAIN slots : slots[i].feed_id = f /\ BackoffExpires(i))

FairSpec == Spec /\ Fairness

-----------------------------------------------------------------------------
(* Properties                                                              *)

\* Every variable keeps its type.
TypeOK ==
  /\ slots \in Seq(Slot)
  /\ DOMAIN index_of_fd \subseteq Fds /\ Range(index_of_fd) \subseteq Nat \ {0}
  /\ DOMAIN index_of_feed_id \subseteq Feeds /\ Range(index_of_feed_id) \subseteq Nat \ {0}
  /\ epoll \subseteq Fds
  /\ pc \in {"loop", "tick", "command"} /\ cursor \in 0 .. Len(slots)
  /\ batch \subseteq {"timer", "command"}
  /\ events \subseteq Fds

\* A connection that is up is found by its descriptor, whatever order of
\* failures, swap-and-pop removals and reconnects on recycled descriptor
\* numbers led here: its events reach its own slot.
LiveSlotReachable ==
  \A i \in DOMAIN slots :
    slots[i].conn # "failed"
      => slots[i].fd \in DOMAIN index_of_fd /\ index_of_fd[slots[i].fd] = i

\* index_of_feed_id_ names exactly the feeds that have a slot, each at the
\* place swap-and-pop left it, so a command hits the feed it names.
FeedIndexExact ==
  /\ DOMAIN index_of_feed_id = {slots[i].feed_id : i \in DOMAIN slots}
  /\ \A f \in DOMAIN index_of_feed_id :
       /\ index_of_feed_id[f] \in DOMAIN slots
       /\ slots[index_of_feed_id[f]].feed_id = f

\* Once a failure was reported, the dead descriptor stays out of epoll and out
\* of index_of_fd_ until rebind closes it, even when remove_slot_at moves its
\* slot in the meantime.
ReportedSlotDetached ==
  \A i \in DOMAIN slots :
    slots[i].conn = "failed" /\ slots[i].alerts > 0
      => slots[i].fd \notin epoll /\ slots[i].fd \notin DOMAIN index_of_fd

\* The retry fields fit the connection: nothing is scheduled and nothing given
\* up while it is up; after a reported failure exactly one of the two holds, so
\* a feed is neither forgotten nor retried after giving up.
RetryBookkeeping ==
  \A i \in DOMAIN slots :
    /\ slots[i].conn # "failed" => slots[i].ready = "none" /\ ~slots[i].give_up
    /\ slots[i].conn = "failed" /\ slots[i].alerts > 0
         => slots[i].give_up = (slots[i].ready = "none")

\* A feed is reconnected at most max_reconnect_attempts times on its own, and
\* once more after an operator's "reconnect", which also renews the budget.
RetryBudget ==
  MaxReconnectAttempts >= 0 =>
    \A i \in DOMAIN slots :
      slots[i].tries <= MaxReconnectAttempts + (IF slots[i].forced THEN 1 ELSE 0)

\* One connection that fails raises one alert, not one per event or tick
\* (check_timeout's contract, connection.h:86-89), whichever of the event, the
\* tick and the command sees the failure.
OneAlertPerFailure == \A i \in DOMAIN slots : slots[i].alerts <= 1

Has(f, P(_)) == \E i \in DOMAIN slots : slots[i].feed_id = f /\ P(slots[i])

Failed(s) == s.conn = "failed" /\ ~s.give_up
FailedReported(s) == Failed(s) /\ s.alerts > 0

\* A feed whose failure was reported and that has not given up is reconnected
\* in the end (or gives up, or is removed), whatever other feeds and commands do.
ReportedFailureRetried ==
  \A f \in Feeds : Has(f, FailedReported) ~> ~Has(f, FailedReported)

\* README.md promises the same for every failure: "automatic detect -> degrade
\* -> fail -> reconnect with zero operator intervention".
EveryFailureRetried == \A f \in Feeds : Has(f, Failed) ~> ~Has(f, Failed)
=============================================================================
