-------------------------- MODULE FeedMonitorProofs --------------------------
(***************************************************************************)
(* Proofs about FeedMonitor, for any feeds, descriptors, retry budget,     *)
(* commands and faults: its two indexes stay exact through swap-and-pop,   *)
(* and the retry bookkeeping stays within its budget.                      *)
(***************************************************************************)
EXTENDS FeedMonitor, TLAPS, SequenceTheorems, WellFoundedInduction

-----------------------------------------------------------------------------
(* The inductive invariant                                                 *)

\* on_timer_tick is at a slot that exists: no command runs inside a tick.
CursorInv == IF pc = "tick" THEN cursor \in 1 .. Len(slots) ELSE cursor = 0

\* index_of_feed_id_ and the slots name each other.
FeedInv ==
  /\ FeedIndexExact
  /\ \A i \in DOMAIN slots : index_of_feed_id[slots[i].feed_id] = i

\* No two slots share a descriptor, failed ones included.
FdsDistinct == \A i, j \in DOMAIN slots : slots[i].fd = slots[j].fd => i = j

\* No alert is raised for a connection that is up.
LiveUnreported == \A i \in DOMAIN slots : slots[i].conn # "failed" => slots[i].alerts = 0

\* The two indexes, and what they say of live and of reported slots.
IndexInv ==
  FeedInv /\ FdsDistinct /\ LiveSlotReachable /\ ReportedSlotDetached /\ LiveUnreported

\* A try is paid for before it is made: by schedule_reconnect, which counts it,
\* or by the operator.
Paid(s) ==
  /\ s.reconnect_attempts <= MaxReconnectAttempts
  /\ s.tries + (IF s.ready = "none" THEN 0 ELSE 1)
       <= s.reconnect_attempts + (IF s.forced THEN 1 ELSE 0)

BudgetInv == MaxReconnectAttempts >= 0 => \A i \in DOMAIN slots : Paid(slots[i])

\* The retry fields fit the connection, and a failure was reported once.
Booked(s) ==
  IF s.conn = "failed"
  THEN s.alerts = 1 /\ s.give_up = (s.ready = "none")
  ELSE s.alerts = 0 /\ s.ready = "none" /\ ~s.give_up

\* index_of_fd_ holds live connections only, each at its own descriptor.
MappedLive ==
  \A fd \in DOMAIN index_of_fd :
    /\ index_of_fd[fd] \in DOMAIN slots
    /\ slots[index_of_fd[fd]].fd = fd /\ slots[index_of_fd[fd]].conn # "failed"

\* Where no ping fails in silence, no connection is failed twice.
ReportInv == MappedLive /\ \A i \in DOMAIN slots : Booked(slots[i])

-----------------------------------------------------------------------------
(* The model's operators                                                   *)

\* There is a lowest free descriptor whenever one is free.
LEMMA LowestFreeFd == FreeFds # {} => LowestFree \in Fds /\ LowestFree \notin OpenFds
<1> SUFFICES ASSUME FreeFds # {} PROVE LowestFree \in FreeFds
  BY DEF FreeFds
<1>1. FreeFds \subseteq Nat
  BY FdsAssumption DEF FreeFds
<1>2. PICK f \in FreeFds : \A g \in FreeFds : ~(<<g, f>> \in OpToRel(<, Nat))
  BY <1>1, WFMin, NatLessThanWellFounded
<1>3. \A g \in FreeFds : f <= g
  <2> SUFFICES ASSUME NEW g \in FreeFds, ~(f <= g) PROVE FALSE
    OBVIOUS
  <2>1. f \in Nat /\ g \in Nat
    BY <1>1
  <2>2. g < f
    BY <2>1
  <2>3. <<g, f>> \in OpToRel(<, Nat)
    BY <2>1, <2>2 DEF OpToRel
  <2> QED BY <1>2, <2>3
<1> QED BY <1>3 DEF LowestFree

\* What map.erase(key) leaves behind.
LEMMA EraseValue ==
  ASSUME NEW map, NEW key
  PROVE  /\ DOMAIN Erase(map, key) = DOMAIN map \ {key}
         /\ \A k \in DOMAIN map : k # key => Erase(map, key)[k] = map[k]
  BY DEF Erase, Restrict

\* The range of a map, by its entries.
LEMMA RangeValues ==
  ASSUME NEW map, NEW S
  PROVE  Range(map) \subseteq S <=> \A k \in DOMAIN map : map[k] \in S
  BY DEF Range

\* schedule_reconnect gives up, or schedules one more counted try.
LEMMA ScheduleSlot ==
  ASSUME NEW s \in Slot, NEW r, r = ScheduleReconnect(s)
  PROVE  /\ r \in Slot /\ r.fd = s.fd /\ r.feed_id = s.feed_id /\ r.conn = s.conn
         /\ r.alerts = s.alerts /\ r.tries = s.tries /\ r.forced = s.forced
         /\ \/ /\ r.give_up = TRUE /\ r.ready = s.ready
               /\ r.reconnect_attempts = s.reconnect_attempts
            \/ /\ r.give_up = s.give_up /\ r.ready = "waiting"
               /\ MaxReconnectAttempts >= 0
                    => /\ s.reconnect_attempts < MaxReconnectAttempts
                       /\ r.reconnect_attempts = s.reconnect_attempts + 1
<1>0. AttemptCap \in Nat /\ MaxReconnectAttempts \in Int /\ MaxReconnectAttempts <= AttemptCap
  BY RetryAssumption
<1>1. s.reconnect_attempts \in Int /\ s.reconnect_attempts \in 0 .. AttemptCap
  BY <1>0 DEF Slot
<1> DEFINE n == IF s.reconnect_attempts < AttemptCap THEN s.reconnect_attempts + 1 ELSE s.reconnect_attempts
<1>2. n \in 0 .. AttemptCap
  BY <1>0, <1>1
<1>3. CASE MaxReconnectAttempts >= 0 /\ s.reconnect_attempts >= MaxReconnectAttempts
  <2>1. r = [s EXCEPT !.give_up = TRUE]
    BY <1>3 DEF ScheduleReconnect
  <2> QED BY <2>1 DEF Slot
<1>4. CASE ~(MaxReconnectAttempts >= 0 /\ s.reconnect_attempts >= MaxReconnectAttempts)
  <2>1. r = [s EXCEPT !.ready = "waiting", !.reconnect_attempts = n]
    BY <1>4 DEF ScheduleReconnect
  <2>2. MaxReconnectAttempts >= 0
          => s.reconnect_attempts < MaxReconnectAttempts /\ n = s.reconnect_attempts + 1
    BY <1>0, <1>1, <1>4
  <2> HIDE DEF n
  <2> QED BY <1>2, <2>1, <2>2 DEF Slot
<1> QED BY <1>3, <1>4

-----------------------------------------------------------------------------
(* Types                                                                   *)

\* TypeOK's parts, the indexes entry by entry.
TypeIndex ==
  /\ DOMAIN index_of_fd \subseteq Fds
  /\ \A f \in DOMAIN index_of_fd : index_of_fd[f] \in Nat \ {0}
  /\ DOMAIN index_of_feed_id \subseteq Feeds
  /\ \A f \in DOMAIN index_of_feed_id : index_of_feed_id[f] \in Nat \ {0}
  /\ epoll \subseteq Fds

TypeReactor ==
  /\ pc \in {"loop", "tick", "command"}
  /\ batch \subseteq {"timer", "command"} /\ events \subseteq Fds

\* TypeOK is its parts; the cursor's type is part of CursorInv.
LEMMA TypeParts ==
  /\ TypeOK => slots \in Seq(Slot) /\ TypeIndex /\ TypeReactor
  /\ slots \in Seq(Slot) /\ TypeIndex /\ TypeReactor /\ CursorInv => TypeOK
<1>1. TypeIndex <=> /\ DOMAIN index_of_fd \subseteq Fds /\ Range(index_of_fd) \subseteq Nat \ {0}
                    /\ DOMAIN index_of_feed_id \subseteq Feeds
                    /\ Range(index_of_feed_id) \subseteq Nat \ {0}
                    /\ epoll \subseteq Fds
  BY RangeValues DEF TypeIndex
<1>2. slots \in Seq(Slot) /\ CursorInv => cursor \in 0 .. Len(slots)
  <2>1. slots \in Seq(Slot) => Len(slots) \in Nat
    BY LenProperties
  <2> QED BY <2>1 DEF CursorInv
<1> QED BY <1>1, <1>2 DEF TypeOK, TypeReactor

\* The invariant of every run, faults included.
MonitorInv == slots \in Seq(Slot) /\ TypeIndex /\ TypeReactor /\ CursorInv /\ IndexInv /\ BudgetInv

-----------------------------------------------------------------------------
(* Changing one slot                                                       *)

\* The slots after one of them was replaced.
LEMMA UpdateSlot ==
  ASSUME slots \in Seq(Slot), NEW i \in DOMAIN slots, NEW s \in Slot,
         slots' = [slots EXCEPT ![i] = s]
  PROVE  /\ slots' \in Seq(Slot) /\ Len(slots') = Len(slots)
         /\ DOMAIN slots' = DOMAIN slots /\ DOMAIN slots = 1 .. Len(slots)
         /\ slots'[i] = s
         /\ \A j \in DOMAIN slots : j # i => slots'[j] = slots[j]
<1>1. DOMAIN slots = 1 .. Len(slots)
  BY LenProperties
<1>2. slots' \in Seq(Slot) /\ Len(slots') = Len(slots)
  BY <1>1, ExceptSeq
<1> QED BY <1>1, <1>2

\* What a step that replaces one slot owes the invariant, when the indexes and
\* the slot's name and descriptor stay.
LEMMA UpdateKeeps ==
  ASSUME MonitorInv, NEW i \in DOMAIN slots, NEW s \in Slot,
         slots' = [slots EXCEPT ![i] = s], UNCHANGED indexes,
         s.fd = slots[i].fd, s.feed_id = slots[i].feed_id,
         s.conn # "failed" => slots[i].conn # "failed" /\ s.alerts = 0,
         s.conn = "failed" /\ s.alerts > 0 => slots[i].conn = "failed" /\ slots[i].alerts > 0,
         MaxReconnectAttempts >= 0 /\ Paid(slots[i]) => Paid(s),
         TypeReactor', CursorInv'
  PROVE  MonitorInv'
<1>1. /\ slots' \in Seq(Slot) /\ DOMAIN slots' = DOMAIN slots /\ slots'[i] = s
      /\ \A j \in DOMAIN slots : j # i => slots'[j] = slots[j]
  BY UpdateSlot DEF MonitorInv
<1>2. \A j \in DOMAIN slots : slots'[j].fd = slots[j].fd /\ slots'[j].feed_id = slots[j].feed_id
  BY <1>1
<1>3. UNCHANGED <<index_of_fd, index_of_feed_id, epoll>>
  BY DEF indexes
<1>4. FeedInv'
  <2>1. {slots'[j].feed_id : j \in DOMAIN slots'} = {slots[j].feed_id : j \in DOMAIN slots}
    BY <1>1, <1>2
  <2> QED BY <1>1, <1>2, <1>3, <2>1 DEF MonitorInv, IndexInv, FeedInv, FeedIndexExact
<1>5. FdsDistinct'
  BY <1>1, <1>2 DEF MonitorInv, IndexInv, FdsDistinct
<1>6. LiveSlotReachable'
  BY <1>1, <1>2, <1>3 DEF MonitorInv, IndexInv, LiveSlotReachable
<1>7. ReportedSlotDetached'
  BY <1>1, <1>2, <1>3 DEF MonitorInv, IndexInv, ReportedSlotDetached
<1>8. LiveUnreported'
  BY <1>1 DEF MonitorInv, IndexInv, LiveUnreported
<1>9. BudgetInv'
  BY <1>1 DEF MonitorInv, BudgetInv
<1> QED BY <1>1, <1>3, <1>4, <1>5, <1>6, <1>7, <1>8, <1>9 DEF MonitorInv, IndexInv, TypeIndex

-----------------------------------------------------------------------------
(* on_connection_failed                                                    *)

\* The slot on_connection_failed leaves.
FailedSlot(s) == ScheduleReconnect([s EXCEPT !.conn = "failed", !.alerts = s.alerts + 1])

\* A failure is reported and paid for: scheduled, or given up.
LEMMA FailedSlotFields ==
  ASSUME NEW s \in Slot, NEW r, r = FailedSlot(s)
  PROVE  /\ r \in Slot /\ r.fd = s.fd /\ r.feed_id = s.feed_id /\ r.conn = "failed"
         /\ r.alerts = s.alerts + 1 /\ r.alerts > 0
         /\ MaxReconnectAttempts >= 0 /\ Paid(s) => Paid(r)
         /\ \/ r.give_up = TRUE /\ r.ready = s.ready
            \/ r.give_up = s.give_up /\ r.ready = "waiting"
<1>0. MaxReconnectAttempts \in Int /\ AttemptCap \in Nat
  BY RetryAssumption
<1>a. s.alerts + 1 \in Nat /\ s.alerts + 1 > 0
  BY DEF Slot
<1> DEFINE n == s.alerts + 1
           b == [s EXCEPT !.conn = "failed", !.alerts = n]
<1> HIDE DEF n
<1>1. /\ b \in Slot /\ b.fd = s.fd /\ b.feed_id = s.feed_id /\ b.conn = "failed"
      /\ b.alerts = n /\ b.tries = s.tries /\ b.forced = s.forced
      /\ b.give_up = s.give_up /\ b.ready = s.ready /\ b.reconnect_attempts = s.reconnect_attempts
  <2>1. n \in Nat
    BY <1>a DEF n
  <2> QED BY <2>1 DEF Slot, ConnStates
<1>2. s.tries \in Nat /\ s.reconnect_attempts \in Nat /\ s.forced \in BOOLEAN
  BY <1>0 DEF Slot
<1>3. r = ScheduleReconnect(b)
  BY DEF FailedSlot, n
<1> HIDE DEF b
<1>4. /\ r \in Slot /\ r.fd = b.fd /\ r.feed_id = b.feed_id /\ r.conn = b.conn
      /\ r.alerts = b.alerts /\ r.tries = b.tries /\ r.forced = b.forced
  BY <1>1, <1>3, ScheduleSlot
<1>5. \/ /\ r.give_up = TRUE /\ r.ready = b.ready
         /\ r.reconnect_attempts = b.reconnect_attempts
      \/ /\ r.give_up = b.give_up /\ r.ready = "waiting"
         /\ MaxReconnectAttempts >= 0
              => /\ b.reconnect_attempts < MaxReconnectAttempts
                 /\ r.reconnect_attempts = b.reconnect_attempts + 1
  BY <1>1, <1>3, ScheduleSlot
<1>6. ASSUME MaxReconnectAttempts >= 0, Paid(s) PROVE Paid(r)
  <2>1. CASE r.ready = b.ready /\ r.reconnect_attempts = b.reconnect_attempts
    BY <1>1, <1>4, <1>6, <2>1 DEF Paid
  <2>2. CASE /\ r.ready = "waiting" /\ b.reconnect_attempts < MaxReconnectAttempts
             /\ r.reconnect_attempts = b.reconnect_attempts + 1
    <3>1. /\ r.ready # "none" /\ r.tries = s.tries /\ r.forced = s.forced
          /\ r.reconnect_attempts = s.reconnect_attempts + 1
          /\ s.reconnect_attempts < MaxReconnectAttempts
      BY <1>1, <1>4, <2>2
    <3>2. s.tries <= s.reconnect_attempts + (IF s.forced THEN 1 ELSE 0)
      BY <1>2, <1>6 DEF Paid
    <3>3. r.reconnect_attempts <= MaxReconnectAttempts
      BY <1>0, <1>2, <3>1
    <3>4. r.tries + 1 <= r.reconnect_attempts + (IF r.forced THEN 1 ELSE 0)
      BY <1>2, <3>1, <3>2
    <3> QED BY <3>1, <3>3, <3>4 DEF Paid
  <2> QED BY <1>5, <1>6, <2>1, <2>2
<1>7. r.alerts = s.alerts + 1 /\ r.alerts > 0
  BY <1>a, <1>1, <1>4 DEF n
<1> QED BY <1>1, <1>4, <1>5, <1>6, <1>7

\* Slots that keep their names keep index_of_feed_id_ exact.
LEMMA SameFeeds ==
  ASSUME FeedInv, DOMAIN slots' = DOMAIN slots, UNCHANGED index_of_feed_id,
         \A j \in DOMAIN slots : slots'[j].feed_id = slots[j].feed_id
  PROVE  FeedInv'
<1>1. {slots'[j].feed_id : j \in DOMAIN slots'} = {slots[j].feed_id : j \in DOMAIN slots}
  OBVIOUS
<1> QED BY <1>1 DEF FeedInv, FeedIndexExact

\* on_connection_failed on any slot keeps the invariant.
LEMMA FailKeeps ==
  ASSUME MonitorInv, NEW i \in DOMAIN slots, OnConnectionFailed(i), TypeReactor', CursorInv'
  PROVE  MonitorInv'
<1> DEFINE s == FailedSlot(slots[i])
<1>1. /\ slots' = [slots EXCEPT ![i] = s] /\ epoll' = epoll \ {slots[i].fd}
      /\ index_of_fd' = Erase(index_of_fd, slots[i].fd) /\ UNCHANGED index_of_feed_id
  BY DEF OnConnectionFailed, FailedSlot
<1>2. slots \in Seq(Slot) /\ slots[i] \in Slot
  BY LenProperties, ElementOfSeq DEF MonitorInv
<1>3. /\ s \in Slot /\ s.fd = slots[i].fd /\ s.feed_id = slots[i].feed_id /\ s.conn = "failed"
      /\ MaxReconnectAttempts >= 0 /\ Paid(slots[i]) => Paid(s)
  BY <1>2, FailedSlotFields
<1> HIDE DEF s
<1>4. /\ slots' \in Seq(Slot) /\ DOMAIN slots' = DOMAIN slots /\ slots'[i] = s
      /\ \A j \in DOMAIN slots : j # i => slots'[j] = slots[j]
  BY <1>1, <1>2, <1>3, UpdateSlot
<1>5. \A j \in DOMAIN slots : slots'[j].fd = slots[j].fd /\ slots'[j].feed_id = slots[j].feed_id
  BY <1>3, <1>4
<1>6. /\ DOMAIN index_of_fd' = DOMAIN index_of_fd \ {slots[i].fd}
      /\ \A k \in DOMAIN index_of_fd : k # slots[i].fd => index_of_fd'[k] = index_of_fd[k]
  BY <1>1, EraseValue
<1>7. FeedInv'
  BY <1>1, <1>4, <1>5, SameFeeds DEF MonitorInv, IndexInv
<1>8. FdsDistinct'
  BY <1>4, <1>5 DEF MonitorInv, IndexInv, FdsDistinct
<1>9. LiveSlotReachable'
  <2> SUFFICES ASSUME NEW j \in DOMAIN slots', slots'[j].conn # "failed"
               PROVE  slots'[j].fd \in DOMAIN index_of_fd' /\ index_of_fd'[slots'[j].fd] = j
    BY DEF LiveSlotReachable
  <2>1. j # i /\ slots'[j] = slots[j] /\ j \in DOMAIN slots
    BY <1>3, <1>4
  <2>2. slots[j].fd # slots[i].fd
    BY <2>1 DEF MonitorInv, IndexInv, FdsDistinct
  <2>3. slots[j].fd \in DOMAIN index_of_fd /\ index_of_fd[slots[j].fd] = j
    BY <2>1 DEF MonitorInv, IndexInv, LiveSlotReachable
  <2> QED BY <1>6, <2>1, <2>2, <2>3
<1>10. ReportedSlotDetached'
  <2> SUFFICES ASSUME NEW j \in DOMAIN slots', slots'[j].conn = "failed", slots'[j].alerts > 0
               PROVE  slots'[j].fd \notin epoll' /\ slots'[j].fd \notin DOMAIN index_of_fd'
    BY DEF ReportedSlotDetached
  <2>1. CASE j = i
    BY <1>1, <1>3, <1>4, <1>6, <2>1
  <2>2. CASE j # i
    <3>1. slots'[j] = slots[j] /\ j \in DOMAIN slots
      BY <1>4, <2>2
    <3>2. slots[j].fd \notin epoll /\ slots[j].fd \notin DOMAIN index_of_fd
      BY <3>1 DEF MonitorInv, IndexInv, ReportedSlotDetached
    <3> QED BY <1>1, <1>6, <3>1, <3>2
  <2> QED BY <2>1, <2>2
<1>11. LiveUnreported'
  BY <1>3, <1>4 DEF MonitorInv, IndexInv, LiveUnreported
<1>12. BudgetInv'
  BY <1>3, <1>4 DEF MonitorInv, BudgetInv
<1>13. TypeIndex'
  BY <1>1, <1>6 DEF MonitorInv, TypeIndex
<1> QED BY <1>4, <1>7, <1>8, <1>9, <1>10, <1>11, <1>12, <1>13 DEF MonitorInv, IndexInv

-----------------------------------------------------------------------------
(* Opening a descriptor                                                    *)

\* A free descriptor belongs to no slot.
LEMMA FreshFd ==
  ASSUME FreeFds # {}
  PROVE  LowestFree \in Fds /\ \A j \in DOMAIN slots : slots[j].fd # LowestFree
  BY LowestFreeFd DEF OpenFds

\* on_timer_tick goes on to the next slot or ends; its slot exists.
LEMMA TickMoves ==
  ASSUME MonitorInv, TickNext, UNCHANGED events
  PROVE  /\ cursor \in DOMAIN slots /\ DOMAIN slots = 1 .. Len(slots)
         /\ TypeReactor' /\ (Len(slots') = Len(slots) => CursorInv')
<1>1. DOMAIN slots = 1 .. Len(slots) /\ Len(slots) \in Nat
  BY LenProperties DEF MonitorInv
<1>2. pc = "tick" /\ cursor \in 1 .. Len(slots)
  BY DEF MonitorInv, CursorInv, TickNext
<1>3. TypeReactor'
  BY DEF TickNext, MonitorInv, TypeReactor
<1>4. ASSUME Len(slots') = Len(slots) PROVE CursorInv'
  <2>1. CASE cursor = Len(slots)
    BY <2>1 DEF TickNext, CursorInv
  <2>2. CASE cursor # Len(slots)
    <3>1. pc' = "tick" /\ cursor' = cursor + 1
      BY <2>2 DEF TickNext
    <3>2. cursor + 1 \in 1 .. Len(slots)
      <4> DEFINE n == Len(slots)
      <4>1. n \in Nat /\ cursor \in 1 .. n /\ cursor # n
        BY <1>1, <1>2, <2>2
      <4> HIDE DEF n
      <4>2. cursor + 1 \in 1 .. n
        BY <4>1
      <4> QED BY <4>2 DEF n
    <3> QED BY <1>4, <3>1, <3>2 DEF CursorInv
  <2> QED BY <2>1, <2>2
<1> QED BY <1>1, <1>2, <1>3, <1>4

\* initiate_connect and rebind keep the invariant.
LEMMA ReconnectKeeps == MonitorInv /\ Reconnect => MonitorInv'
<1> SUFFICES ASSUME MonitorInv, Reconnect PROVE MonitorInv'
  OBVIOUS
<1> DEFINE i == cursor
           fd == LowestFree
           n == CountTry(slots[i])
           s == [slots[i] EXCEPT !.ready = "none", !.conn = "opening", !.fd = fd,
                                 !.alerts = 0, !.tries = n]
<1>0. MaxReconnectAttempts \in Int /\ AttemptCap \in Nat
  BY RetryAssumption
<1>1. /\ TickNext /\ ReconnectDue(slots[i]) /\ FreeFds # {} /\ UNCHANGED <<index_of_feed_id, events>>
      /\ slots' = [slots EXCEPT ![i] = s] /\ index_of_fd' = Put(index_of_fd, fd, i)
      /\ epoll' \in EpollAdd(epoll \ {slots[i].fd}, fd)
  BY DEF Reconnect
<1>2. i \in DOMAIN slots /\ DOMAIN slots = 1 .. Len(slots)
  BY <1>1, TickMoves
<1>3. fd \in Fds /\ \A j \in DOMAIN slots : slots[j].fd # fd
  BY <1>1, FreshFd
<1>4. slots \in Seq(Slot) /\ slots[i] \in Slot
  BY <1>2, ElementOfSeq DEF MonitorInv
<1>5. slots[i].tries \in Nat /\ slots[i].ready = "due" /\ slots[i].reconnect_attempts \in Nat
  BY <1>0, <1>1, <1>4 DEF Slot, ReconnectDue
<1>6. n \in Nat /\ (MaxReconnectAttempts >= 0 => n = slots[i].tries + 1)
  BY <1>0, <1>5 DEF CountTry
<1> HIDE DEF n, fd
<1>7. /\ s \in Slot /\ s.fd = fd /\ s.feed_id = slots[i].feed_id /\ s.conn = "opening" /\ s.alerts = 0
      /\ s.tries = n /\ s.ready = "none" /\ s.forced = slots[i].forced
      /\ s.reconnect_attempts = slots[i].reconnect_attempts
  BY <1>3, <1>4, <1>6 DEF Slot, ConnStates
<1> HIDE DEF s
<1>8. /\ slots' \in Seq(Slot) /\ Len(slots') = Len(slots) /\ DOMAIN slots' = DOMAIN slots
      /\ slots'[i] = s /\ \A j \in DOMAIN slots : j # i => slots'[j] = slots[j]
  BY <1>1, <1>2, <1>4, <1>7, UpdateSlot
<1>9. TypeReactor' /\ CursorInv'
  BY <1>1, <1>8, TickMoves
<1>10. /\ DOMAIN index_of_fd' = DOMAIN index_of_fd \cup {fd} /\ index_of_fd'[fd] = i
       /\ \A k \in DOMAIN index_of_fd : k # fd => index_of_fd'[k] = index_of_fd[k]
  <2>1. index_of_fd' = Put(index_of_fd, fd, i)
    BY <1>1
  <2> QED BY <2>1 DEF Put
<1>11. epoll' \subseteq epoll \cup {fd}
  BY <1>1 DEF EpollAdd
<1>12. FeedInv'
  <2>1. \A j \in DOMAIN slots : slots'[j].feed_id = slots[j].feed_id
    BY <1>7, <1>8
  <2> QED BY <1>1, <1>8, <2>1, SameFeeds DEF MonitorInv, IndexInv
<1>13. FdsDistinct'
  BY <1>3, <1>7, <1>8 DEF MonitorInv, IndexInv, FdsDistinct
<1>14. LiveSlotReachable'
  <2> SUFFICES ASSUME NEW j \in DOMAIN slots', slots'[j].conn # "failed"
               PROVE  slots'[j].fd \in DOMAIN index_of_fd' /\ index_of_fd'[slots'[j].fd] = j
    BY DEF LiveSlotReachable
  <2>1. CASE j = i
    BY <1>7, <1>8, <1>10, <2>1
  <2>2. CASE j # i
    <3>1. slots'[j] = slots[j] /\ j \in DOMAIN slots
      BY <1>8, <2>2
    <3>2. slots[j].fd \in DOMAIN index_of_fd /\ index_of_fd[slots[j].fd] = j
      BY <3>1 DEF MonitorInv, IndexInv, LiveSlotReachable
    <3> QED BY <1>3, <1>10, <3>1, <3>2
  <2> QED BY <2>1, <2>2
<1>15. ReportedSlotDetached'
  <2> SUFFICES ASSUME NEW j \in DOMAIN slots', slots'[j].conn = "failed", slots'[j].alerts > 0
               PROVE  slots'[j].fd \notin epoll' /\ slots'[j].fd \notin DOMAIN index_of_fd'
    BY DEF ReportedSlotDetached
  <2>1. j # i /\ slots'[j] = slots[j] /\ j \in DOMAIN slots
    BY <1>7, <1>8
  <2>2. slots[j].fd \notin epoll /\ slots[j].fd \notin DOMAIN index_of_fd
    BY <2>1 DEF MonitorInv, IndexInv, ReportedSlotDetached
  <2> QED BY <1>3, <1>10, <1>11, <2>1, <2>2
<1>16. LiveUnreported'
  BY <1>7, <1>8 DEF MonitorInv, IndexInv, LiveUnreported
<1>17. BudgetInv'
  <2> SUFFICES ASSUME MaxReconnectAttempts >= 0, NEW j \in DOMAIN slots' PROVE Paid(slots'[j])
    BY DEF BudgetInv
  <2>1. CASE j = i
    <3>1. Paid(slots[i])
      BY <1>2 DEF MonitorInv, BudgetInv
    <3>2. /\ s.reconnect_attempts <= MaxReconnectAttempts
          /\ s.tries <= s.reconnect_attempts + (IF s.forced THEN 1 ELSE 0)
      BY <1>5, <1>6, <1>7, <3>1 DEF Paid
    <3>3. s.tries + 0 = s.tries
      BY <1>6, <1>7
    <3> QED BY <1>7, <1>8, <2>1, <3>2, <3>3 DEF Paid
  <2>2. CASE j # i
    BY <1>8, <2>2 DEF MonitorInv, BudgetInv
  <2> QED BY <2>1, <2>2
<1>18. TypeIndex'
  <2>1. i \in Nat \ {0}
    BY <1>2
  <2> HIDE DEF i
  <2>2. \A f \in DOMAIN index_of_fd' : index_of_fd'[f] \in Nat \ {0}
    BY <1>10, <2>1 DEF MonitorInv, TypeIndex
  <2> QED BY <1>1, <1>3, <1>10, <1>11, <2>2 DEF MonitorInv, TypeIndex
<1> QED
  BY <1>8, <1>9, <1>12, <1>13, <1>14, <1>15, <1>16, <1>17, <1>18 DEF MonitorInv, IndexInv

\* add_feed keeps the invariant.
LEMMA AddKeeps ==
  ASSUME MonitorInv, NEW f \in Feeds, AddFeed(f)
  PROVE  MonitorInv'
<1> DEFINE fd == LowestFree
           last == Len(slots) + 1
           s == NewSlot(f, fd)
<1>0. MaxReconnectAttempts \in Int /\ AttemptCap \in Nat
  BY RetryAssumption
<1>1. /\ pc = "command" /\ f \notin DOMAIN index_of_feed_id /\ FreeFds # {}
      /\ slots' = Append(slots, s) /\ index_of_fd' = Put(index_of_fd, fd, last)
      /\ index_of_feed_id' = Put(index_of_feed_id, f, last)
      /\ epoll' \in EpollAdd(epoll, fd) /\ UNCHANGED <<pc, cursor, batch, events>>
  BY DEF AddFeed, InCommand, reactor
<1>2. slots \in Seq(Slot) /\ DOMAIN slots = 1 .. Len(slots) /\ Len(slots) \in Nat
  BY LenProperties DEF MonitorInv
<1>3. fd \in Fds /\ \A j \in DOMAIN slots : slots[j].fd # fd
  BY <1>1, FreshFd
<1> HIDE DEF fd
<1>4. /\ s \in Slot /\ s.fd = fd /\ s.feed_id = f /\ s.conn = "opening" /\ s.alerts = 0
      /\ s.tries = 0 /\ s.ready = "none" /\ s.forced = FALSE /\ s.reconnect_attempts = 0
  <2>1. 0 \in 0 .. AttemptCap /\ 0 \in Nat
    BY <1>0
  <2> QED BY <1>3, <2>1 DEF NewSlot, Slot, ConnStates
<1> HIDE DEF s
<1>5. slots' \in Seq(Slot) /\ Len(slots') = last
  BY <1>1, <1>2, <1>4, AppendProperties
<1>6. slots'[last] = s /\ \A j \in DOMAIN slots : slots'[j] = slots[j]
  BY <1>1, <1>2, <1>4, AppendProperties
<1>7. DOMAIN slots' = 1 .. last
  BY <1>5, LenProperties
<1>8. /\ last \in Nat \ {0} /\ last \notin DOMAIN slots /\ DOMAIN slots' = DOMAIN slots \cup {last}
  BY <1>2, <1>7
<1> HIDE DEF last
<1>9. /\ DOMAIN index_of_fd' = DOMAIN index_of_fd \cup {fd} /\ index_of_fd'[fd] = last
      /\ \A k \in DOMAIN index_of_fd : k # fd => index_of_fd'[k] = index_of_fd[k]
  <2>1. index_of_fd' = Put(index_of_fd, fd, last)
    BY <1>1
  <2> QED BY <2>1 DEF Put
<1>10. /\ DOMAIN index_of_feed_id' = DOMAIN index_of_feed_id \cup {f} /\ index_of_feed_id'[f] = last
       /\ \A k \in DOMAIN index_of_feed_id : k # f => index_of_feed_id'[k] = index_of_feed_id[k]
  <2>1. index_of_feed_id' = Put(index_of_feed_id, f, last)
    BY <1>1
  <2> QED BY <2>1 DEF Put
<1>11. epoll' \subseteq epoll \cup {fd}
  BY <1>1 DEF EpollAdd
<1>12. FeedInv'
  <2>1. DOMAIN index_of_feed_id = {slots[j].feed_id : j \in DOMAIN slots}
    BY DEF MonitorInv, IndexInv, FeedInv, FeedIndexExact
  <2>2. {slots'[j].feed_id : j \in DOMAIN slots'} = {slots[j].feed_id : j \in DOMAIN slots} \cup {f}
    BY <1>4, <1>6, <1>8
  <2>3. ASSUME NEW j \in DOMAIN slots' PROVE index_of_feed_id'[slots'[j].feed_id] = j
    <3>1. CASE j = last
      BY <1>4, <1>6, <1>10, <3>1
    <3>2. CASE j # last
      <4>1. j \in DOMAIN slots /\ slots'[j] = slots[j]
        BY <1>6, <1>8, <3>2
      <4>2. slots[j].feed_id \in DOMAIN index_of_feed_id /\ slots[j].feed_id # f
        BY <1>1, <2>1, <4>1
      <4> QED BY <1>10, <4>1, <4>2 DEF MonitorInv, IndexInv, FeedInv
    <3> QED BY <3>1, <3>2
  <2>4. DOMAIN index_of_feed_id' = {slots'[j].feed_id : j \in DOMAIN slots'}
    BY <1>10, <2>1, <2>2
  <2> QED BY <2>3, <2>4 DEF FeedInv, FeedIndexExact
<1>13. FdsDistinct'
  BY <1>3, <1>4, <1>6, <1>8 DEF MonitorInv, IndexInv, FdsDistinct
<1>14. LiveSlotReachable'
  <2> SUFFICES ASSUME NEW j \in DOMAIN slots', slots'[j].conn # "failed"
               PROVE  slots'[j].fd \in DOMAIN index_of_fd' /\ index_of_fd'[slots'[j].fd] = j
    BY DEF LiveSlotReachable
  <2>1. CASE j = last
    BY <1>4, <1>6, <1>9, <2>1
  <2>2. CASE j # last
    <3>1. slots'[j] = slots[j] /\ j \in DOMAIN slots
      BY <1>6, <1>8, <2>2
    <3>2. slots[j].fd \in DOMAIN index_of_fd /\ index_of_fd[slots[j].fd] = j
      BY <3>1 DEF MonitorInv, IndexInv, LiveSlotReachable
    <3> QED BY <1>3, <1>9, <3>1, <3>2
  <2> QED BY <2>1, <2>2
<1>15. ReportedSlotDetached'
  <2> SUFFICES ASSUME NEW j \in DOMAIN slots', slots'[j].conn = "failed", slots'[j].alerts > 0
               PROVE  slots'[j].fd \notin epoll' /\ slots'[j].fd \notin DOMAIN index_of_fd'
    BY DEF ReportedSlotDetached
  <2>1. slots'[j] = slots[j] /\ j \in DOMAIN slots
    BY <1>4, <1>6, <1>8
  <2>2. slots[j].fd \notin epoll /\ slots[j].fd \notin DOMAIN index_of_fd
    BY <2>1 DEF MonitorInv, IndexInv, ReportedSlotDetached
  <2> QED BY <1>3, <1>9, <1>11, <2>1, <2>2
<1>16. LiveUnreported'
  BY <1>4, <1>6, <1>8 DEF MonitorInv, IndexInv, LiveUnreported
<1>17. BudgetInv'
  <2> SUFFICES ASSUME MaxReconnectAttempts >= 0, NEW j \in DOMAIN slots' PROVE Paid(slots'[j])
    BY DEF BudgetInv
  <2>1. Paid(s)
    BY <1>4 DEF Paid
  <2>2. CASE j = last
    BY <1>6, <2>1, <2>2
  <2>3. CASE j # last
    BY <1>6, <1>8, <2>3 DEF MonitorInv, BudgetInv
  <2> QED BY <2>2, <2>3
<1>18. TypeIndex'
  <2>1. /\ \A k \in DOMAIN index_of_fd' : index_of_fd'[k] \in Nat \ {0}
        /\ \A k \in DOMAIN index_of_feed_id' : index_of_feed_id'[k] \in Nat \ {0}
    BY <1>8, <1>9, <1>10 DEF MonitorInv, TypeIndex
  <2> QED BY <1>3, <1>9, <1>10, <1>11, <2>1 DEF MonitorInv, TypeIndex
<1>19. TypeReactor' /\ CursorInv'
  BY <1>1 DEF MonitorInv, TypeReactor, CursorInv
<1> QED
  BY <1>5, <1>12, <1>13, <1>14, <1>15, <1>16, <1>17, <1>18, <1>19 DEF MonitorInv, IndexInv

-----------------------------------------------------------------------------
(* Swap-and-pop                                                            *)

\* remove_slot_at moves the last slot to the place of the removed one: the place
\* a slot came from.
Source(index, j) == IF j = index THEN Len(slots) ELSE j

\* What remove_slot_at leaves: every slot but the removed one, each once.
LEMMA RemovedSlots ==
  ASSUME slots \in Seq(Slot), NEW index \in DOMAIN slots,
         slots' = SubSeq([slots EXCEPT ![index] = slots[Len(slots)]], 1, Len(slots) - 1)
  PROVE  /\ slots' \in Seq(Slot) /\ DOMAIN slots' = 1 .. Len(slots) - 1
         /\ DOMAIN slots' = DOMAIN slots \ {Len(slots)} /\ Len(slots) \in DOMAIN slots
         /\ \A j \in DOMAIN slots' :
              /\ Source(index, j) \in DOMAIN slots /\ Source(index, j) # index
              /\ slots'[j] = slots[Source(index, j)]
<1> DEFINE n == Len(slots)
           t == [slots EXCEPT ![index] = slots[n]]
<1>1. DOMAIN slots = 1 .. n /\ n \in Nat
  BY LenProperties
<1>2. n \in 1 .. n /\ n - 1 \in Nat
  BY <1>1
<1>3. slots[n] \in Slot /\ index \in 1 .. n
  BY <1>1, <1>2, ElementOfSeq
<1>4. /\ t \in Seq(Slot) /\ Len(t) = n
      /\ \A j \in 1 .. n : t[j] = IF j = index THEN slots[n] ELSE slots[j]
  BY <1>3, ExceptSeq
<1>5. \A j \in 1 .. n - 1 : t[j] \in Slot
  <2> SUFFICES ASSUME NEW j \in 1 .. n - 1 PROVE t[j] \in Slot
    OBVIOUS
  <2>1. j \in 1 .. Len(t)
    BY <1>1, <1>4
  <2> QED BY <1>4, <2>1, ElementOfSeq
<1> HIDE DEF t
<1>6. slots' = SubSeq(t, 1, n - 1)
  BY DEF t
<1>7. /\ slots' \in Seq(Slot)
      /\ Len(slots') = IF 1 <= n - 1 THEN n - 1 - 1 + 1 ELSE 0
      /\ \A j \in 1 .. n - 1 - 1 + 1 : slots'[j] = t[1 + j - 1]
  BY <1>2, <1>5, <1>6, SubSeqProperties
<1> HIDE DEF n
<1>8. Len(slots') = n - 1
  BY <1>2, <1>7
<1>9. DOMAIN slots' = 1 .. n - 1
  BY <1>7, <1>8, LenProperties
<1>10. 1 .. n - 1 = (1 .. n) \ {n}
  BY <1>1
<1>11. ASSUME NEW j \in 1 .. n - 1
       PROVE  /\ Source(index, j) \in DOMAIN slots /\ Source(index, j) # index
              /\ slots'[j] = slots[Source(index, j)]
  <2>1. j \in 1 .. n - 1 - 1 + 1 /\ 1 + j - 1 = j /\ j \in 1 .. n /\ j # n
    BY <1>1
  <2>2. slots'[j] = IF j = index THEN slots[n] ELSE slots[j]
    BY <1>4, <1>7, <2>1
  <2> QED BY <1>1, <1>2, <2>1, <2>2 DEF Source, n
<1> QED BY <1>1, <1>2, <1>7, <1>9, <1>10, <1>11 DEF n

\* The indexes after the slot at index was removed and the last one took its
\* place.
FeedsMoved(index) ==
  LET last == Len(slots)
      f == slots[index].feed_id IN
  /\ DOMAIN index_of_feed_id' = (DOMAIN index_of_feed_id \ {f})
       \cup (IF index = last THEN {} ELSE {slots[last].feed_id})
  /\ \A g \in DOMAIN index_of_feed_id' :
       index_of_feed_id'[g] = IF index # last /\ g = slots[last].feed_id
                              THEN index ELSE index_of_feed_id[g]

FdsMoved(index) ==
  LET last == Len(slots) IN
  /\ DOMAIN index_of_fd' = (DOMAIN index_of_fd \ {slots[index].fd})
       \cup (IF index # last /\ slots[last].conn # "failed" THEN {slots[last].fd} ELSE {})
  /\ \A g \in DOMAIN index_of_fd' :
       index_of_fd'[g] = IF index # last /\ slots[last].conn # "failed" /\ g = slots[last].fd
                         THEN index ELSE index_of_fd[g]

\* remove_feed finds the slot by the feed, and moves both indexes.
LEMMA RemovedIndexes ==
  ASSUME MonitorInv, NEW f \in Feeds, RemoveFeed(f), NEW index, index = index_of_feed_id[f]
  PROVE  /\ index \in DOMAIN slots /\ slots[index].feed_id = f
         /\ slots' = SubSeq([slots EXCEPT ![index] = slots[Len(slots)]], 1, Len(slots) - 1)
         /\ epoll' = epoll \ {slots[index].fd}
         /\ FeedsMoved(index) /\ FdsMoved(index)
<1> DEFINE last == Len(slots)
           fds == Erase(index_of_fd, slots[index].fd)
           ids == Erase(index_of_feed_id, f)
<1>1. index \in DOMAIN slots /\ slots[index].feed_id = f
  BY DEF RemoveFeed, MonitorInv, IndexInv, FeedInv, FeedIndexExact
<1>2. /\ epoll' = epoll \ {slots[index].fd}
      /\ slots' = SubSeq([slots EXCEPT ![index] = slots[last]], 1, last - 1)
      /\ IF index = last
         THEN index_of_fd' = fds /\ index_of_feed_id' = ids
         ELSE index_of_fd' = RepointFd(fds, index) /\ index_of_feed_id' = RepointFeed(ids, index)
  BY DEF RemoveFeed
<1>3. /\ DOMAIN fds = DOMAIN index_of_fd \ {slots[index].fd}
      /\ \A k \in DOMAIN fds : fds[k] = index_of_fd[k]
      /\ DOMAIN ids = DOMAIN index_of_feed_id \ {f}
      /\ \A k \in DOMAIN ids : ids[k] = index_of_feed_id[k]
  BY DEF Erase, Restrict
<1> HIDE DEF fds, ids, last
<1>4. /\ DOMAIN index_of_feed_id' = DOMAIN ids \cup (IF index = last THEN {} ELSE {slots[last].feed_id})
      /\ \A g \in DOMAIN index_of_feed_id' :
           index_of_feed_id'[g] = IF index # last /\ g = slots[last].feed_id THEN index ELSE ids[g]
  <2>1. CASE index = last
    BY <1>2, <2>1
  <2>2. CASE index # last
    <3>1. index_of_feed_id' = Put(ids, slots[last].feed_id, index)
      BY <1>2, <2>2 DEF RepointFeed, last
    <3> QED BY <2>2, <3>1 DEF Put
  <2> QED BY <2>1, <2>2
<1>5. /\ DOMAIN index_of_fd' = DOMAIN fds
           \cup (IF index # last /\ slots[last].conn # "failed" THEN {slots[last].fd} ELSE {})
      /\ \A g \in DOMAIN index_of_fd' :
           index_of_fd'[g] = IF index # last /\ slots[last].conn # "failed" /\ g = slots[last].fd
                             THEN index ELSE fds[g]
  <2>1. CASE index = last \/ slots[last].conn = "failed"
    <3>1. index_of_fd' = fds
      BY <1>2, <2>1 DEF RepointFd, last
    <3> QED BY <2>1, <3>1
  <2>2. CASE ~(index = last \/ slots[last].conn = "failed")
    <3>1. index_of_fd' = Put(fds, slots[last].fd, index)
      BY <1>2, <2>2 DEF RepointFd, last
    <3> QED BY <2>2, <3>1 DEF Put
  <2> QED BY <2>1, <2>2
<1>6. FeedsMoved(index)
  BY <1>1, <1>3, <1>4 DEF FeedsMoved, last
<1>7. FdsMoved(index)
  BY <1>3, <1>5 DEF FdsMoved, last
<1> QED BY <1>1, <1>2, <1>6, <1>7 DEF last

\* remove_slot_at keeps the invariant: both indexes follow the moved slot.
LEMMA RemoveKeeps ==
  ASSUME MonitorInv, NEW f \in Feeds, RemoveFeed(f)
  PROVE  MonitorInv'
<1> DEFINE index == index_of_feed_id[f]
           last == Len(slots)
<1>0. FeedsMoved(index) /\ FdsMoved(index)
  BY RemovedIndexes
<1>1. /\ index \in DOMAIN slots /\ slots[index].feed_id = f
      /\ slots' = SubSeq([slots EXCEPT ![index] = slots[last]], 1, last - 1)
      /\ epoll' = epoll \ {slots[index].fd}
  BY RemovedIndexes
<1>2. /\ DOMAIN index_of_feed_id' = (DOMAIN index_of_feed_id \ {f})
           \cup (IF index = last THEN {} ELSE {slots[last].feed_id})
      /\ \A g \in DOMAIN index_of_feed_id' :
           index_of_feed_id'[g] = IF index # last /\ g = slots[last].feed_id
                                  THEN index ELSE index_of_feed_id[g]
  BY <1>0, <1>1 DEF FeedsMoved
<1>3. /\ DOMAIN index_of_fd' = (DOMAIN index_of_fd \ {slots[index].fd})
           \cup (IF index # last /\ slots[last].conn # "failed" THEN {slots[last].fd} ELSE {})
      /\ \A g \in DOMAIN index_of_fd' :
           index_of_fd'[g] = IF index # last /\ slots[last].conn # "failed" /\ g = slots[last].fd
                             THEN index ELSE index_of_fd[g]
  BY <1>0 DEF FdsMoved
<1>4. pc = "command" /\ UNCHANGED <<pc, cursor, batch, events>>
  BY DEF RemoveFeed, InCommand, reactor
<1> HIDE DEF index, last
<1>5. /\ slots' \in Seq(Slot) /\ DOMAIN slots' = DOMAIN slots \ {last} /\ last \in DOMAIN slots
      /\ DOMAIN slots = 1 .. last
      /\ \A j \in DOMAIN slots' :
           /\ Source(index, j) \in DOMAIN slots /\ Source(index, j) # index
           /\ slots'[j] = slots[Source(index, j)]
  <2>1. slots \in Seq(Slot)
    BY DEF MonitorInv
  <2>2. DOMAIN slots = 1 .. last
    BY <2>1, LenProperties DEF last
  <2> QED BY <1>1, <2>1, <2>2, RemovedSlots DEF last
<1>6. \A i, j \in DOMAIN slots : slots[i].feed_id = slots[j].feed_id => i = j
  BY DEF MonitorInv, IndexInv, FeedInv
<1>7. \A i, j \in DOMAIN slots : slots[i].fd = slots[j].fd => i = j
  BY DEF MonitorInv, IndexInv, FdsDistinct
<1>8. \A j \in DOMAIN slots' : IF j = index THEN Source(index, j) = last ELSE Source(index, j) = j
  BY DEF Source, last
<1>9. FeedInv'
  <2>1. /\ DOMAIN index_of_feed_id = {slots[j].feed_id : j \in DOMAIN slots}
        /\ \A j \in DOMAIN slots : index_of_feed_id[slots[j].feed_id] = j
    BY DEF MonitorInv, IndexInv, FeedInv, FeedIndexExact
  <2>2. ASSUME NEW j \in DOMAIN slots'
        PROVE  /\ slots'[j].feed_id \in DOMAIN index_of_feed_id'
               /\ index_of_feed_id'[slots'[j].feed_id] = j
    <3>1. CASE j = index
      <4>1. slots'[j] = slots[last] /\ index # last
        BY <1>5, <1>8, <3>1
      <4> QED BY <1>2, <3>1, <4>1
    <3>2. CASE j # index
      <4>1. slots'[j] = slots[j] /\ j \in DOMAIN slots /\ j # last
        BY <1>5, <1>8, <3>2
      <4>2. slots[j].feed_id # f /\ slots[j].feed_id # slots[last].feed_id
        BY <1>1, <1>5, <1>6, <3>2, <4>1
      <4> QED BY <1>2, <2>1, <4>1, <4>2
    <3> QED BY <3>1, <3>2
  <2>3. ASSUME NEW g \in DOMAIN index_of_feed_id'
        PROVE  \E j \in DOMAIN slots' : slots'[j].feed_id = g
    <3>1. CASE index # last /\ g = slots[last].feed_id
      <4>1. index \in DOMAIN slots' /\ slots'[index] = slots[last]
        BY <1>1, <1>5, <1>8, <3>1
      <4> QED BY <3>1, <4>1
    <3>2. CASE ~(index # last /\ g = slots[last].feed_id)
      <4>1. g \in DOMAIN index_of_feed_id /\ g # f
        BY <1>2, <3>2
      <4>2. PICK i \in DOMAIN slots : slots[i].feed_id = g
        BY <2>1, <4>1
      <4>3. i # index /\ i # last
        BY <1>1, <3>2, <4>1, <4>2
      <4>4. i \in DOMAIN slots' /\ slots'[i] = slots[i]
        BY <1>5, <1>8, <4>3
      <4> QED BY <4>2, <4>4
    <3> QED BY <3>1, <3>2
  <2>4. DOMAIN index_of_feed_id' = {slots'[j].feed_id : j \in DOMAIN slots'}
    BY <2>2, <2>3
  <2> QED BY <2>2, <2>4 DEF FeedInv, FeedIndexExact
<1>10. FdsDistinct'
  BY <1>5, <1>7, <1>8 DEF FdsDistinct
<1>11. LiveSlotReachable'
  <2> SUFFICES ASSUME NEW j \in DOMAIN slots', slots'[j].conn # "failed"
               PROVE  slots'[j].fd \in DOMAIN index_of_fd' /\ index_of_fd'[slots'[j].fd] = j
    BY DEF LiveSlotReachable
  <2>1. CASE j = index
    <3>1. slots'[j] = slots[last] /\ index # last
      BY <1>5, <1>8, <2>1
    <3> QED BY <1>3, <2>1, <3>1
  <2>2. CASE j # index
    <3>1. slots'[j] = slots[j] /\ j \in DOMAIN slots /\ j # last
      BY <1>5, <1>8, <2>2
    <3>2. slots[j].fd # slots[index].fd /\ slots[j].fd # slots[last].fd
      BY <1>1, <1>5, <1>7, <2>2, <3>1
    <3>3. slots[j].fd \in DOMAIN index_of_fd /\ index_of_fd[slots[j].fd] = j
      BY <3>1 DEF MonitorInv, IndexInv, LiveSlotReachable
    <3> QED BY <1>3, <3>1, <3>2, <3>3
  <2> QED BY <2>1, <2>2
<1>12. ReportedSlotDetached'
  <2> SUFFICES ASSUME NEW j \in DOMAIN slots', slots'[j].conn = "failed", slots'[j].alerts > 0
               PROVE  slots'[j].fd \notin epoll' /\ slots'[j].fd \notin DOMAIN index_of_fd'
    BY DEF ReportedSlotDetached
  <2> DEFINE k == Source(index, j)
  <2>1. k \in DOMAIN slots /\ slots'[j] = slots[k]
    BY <1>5
  <2> HIDE DEF k
  <2>2. slots[k].fd \notin epoll /\ slots[k].fd \notin DOMAIN index_of_fd
    BY <2>1 DEF MonitorInv, IndexInv, ReportedSlotDetached
  <2>3. slots[last].conn # "failed" => slots[k].fd # slots[last].fd
    BY <1>5, <1>7, <2>1
  <2> QED BY <1>1, <1>3, <2>1, <2>2, <2>3
<1>13. LiveUnreported'
  BY <1>5 DEF MonitorInv, IndexInv, LiveUnreported
<1>14. BudgetInv'
  BY <1>5 DEF MonitorInv, BudgetInv
<1>15. TypeIndex'
  <2>1. index \in Nat \ {0}
    BY <1>1, <1>5
  <2>2. slots[last] \in Slot
    BY <1>5, ElementOfSeq DEF MonitorInv, last
  <2>3. slots[last].fd \in Fds /\ slots[last].feed_id \in Feeds
    BY <2>2 DEF Slot
  <2>4. /\ \A k \in DOMAIN index_of_fd' : index_of_fd'[k] \in Nat \ {0}
        /\ \A k \in DOMAIN index_of_feed_id' : index_of_feed_id'[k] \in Nat \ {0}
    BY <1>2, <1>3, <2>1 DEF MonitorInv, TypeIndex
  <2> QED BY <1>1, <1>2, <1>3, <2>3, <2>4 DEF MonitorInv, TypeIndex
<1>16. TypeReactor' /\ CursorInv'
  BY <1>4 DEF MonitorInv, TypeReactor, CursorInv
<1> QED
  BY <1>5, <1>9, <1>10, <1>11, <1>12, <1>13, <1>14, <1>15, <1>16 DEF MonitorInv, IndexInv

-----------------------------------------------------------------------------
(* Every step                                                              *)

\* A failed initiate_connect books the try and schedules again.
LEMMA ConnectFailsKeeps == MonitorInv /\ ConnectFails => MonitorInv'
<1> SUFFICES ASSUME MonitorInv, ConnectFails PROVE MonitorInv'
  OBVIOUS
<1> DEFINE i == cursor
           n == CountTry(slots[i])
           b == [slots[i] EXCEPT !.ready = "none", !.tries = n]
           s == ScheduleReconnect(b)
<1>0. MaxReconnectAttempts \in Int /\ AttemptCap \in Nat
  BY RetryAssumption
<1>1. /\ TickNext /\ ReconnectDue(slots[i]) /\ UNCHANGED indexes /\ UNCHANGED events
      /\ slots' = [slots EXCEPT ![i] = s]
  BY DEF ConnectFails
<1>2. i \in DOMAIN slots /\ DOMAIN slots = 1 .. Len(slots)
  BY <1>1, TickMoves
<1>3. slots \in Seq(Slot) /\ slots[i] \in Slot
  BY <1>2, ElementOfSeq DEF MonitorInv
<1>4. /\ slots[i].tries \in Nat /\ slots[i].reconnect_attempts \in Nat /\ slots[i].forced \in BOOLEAN
      /\ slots[i].ready = "due" /\ slots[i].conn = "failed"
  BY <1>0, <1>1, <1>3 DEF Slot, ReconnectDue
<1>5. n \in Nat /\ (MaxReconnectAttempts >= 0 => n = slots[i].tries + 1)
  BY <1>0, <1>4 DEF CountTry
<1> HIDE DEF n
<1>6. /\ b \in Slot /\ b.fd = slots[i].fd /\ b.feed_id = slots[i].feed_id /\ b.conn = slots[i].conn
      /\ b.alerts = slots[i].alerts /\ b.tries = n /\ b.ready = "none" /\ b.forced = slots[i].forced
      /\ b.reconnect_attempts = slots[i].reconnect_attempts
  BY <1>3, <1>5 DEF Slot
<1> HIDE DEF b
<1>7. /\ s \in Slot /\ s.fd = b.fd /\ s.feed_id = b.feed_id /\ s.conn = b.conn
      /\ s.alerts = b.alerts /\ s.tries = b.tries /\ s.forced = b.forced
      /\ \/ /\ s.ready = b.ready /\ s.reconnect_attempts = b.reconnect_attempts
         \/ /\ s.ready = "waiting"
            /\ MaxReconnectAttempts >= 0
                 => /\ b.reconnect_attempts < MaxReconnectAttempts
                    /\ s.reconnect_attempts = b.reconnect_attempts + 1
  BY <1>6, ScheduleSlot
<1> HIDE DEF s
<1>8. ASSUME MaxReconnectAttempts >= 0, Paid(slots[i]) PROVE Paid(s)
  <2> DEFINE t == slots[i].tries
             a == slots[i].reconnect_attempts
             o == IF slots[i].forced THEN 1 ELSE 0
  <2>1. t \in Nat /\ a \in Nat /\ o \in Nat /\ a <= MaxReconnectAttempts /\ t + 1 <= a + o
    BY <1>4, <1>8 DEF Paid
  <2>2. s.tries = t + 1 /\ (IF s.forced THEN 1 ELSE 0) = o
    BY <1>5, <1>6, <1>7, <1>8
  <2> HIDE DEF t, a, o
  <2>3. CASE s.ready = "none" /\ s.reconnect_attempts = a
    <3>1. s.tries + 0 <= s.reconnect_attempts + o
      BY <2>1, <2>2, <2>3
    <3> QED BY <2>1, <2>2, <2>3, <3>1 DEF Paid
  <2>4. CASE s.ready = "waiting" /\ a < MaxReconnectAttempts /\ s.reconnect_attempts = a + 1
    <3>1. s.tries + 1 <= s.reconnect_attempts + o /\ s.reconnect_attempts <= MaxReconnectAttempts
      BY <1>0, <2>1, <2>2, <2>4
    <3> QED BY <2>2, <2>4, <3>1 DEF Paid
  <2> QED BY <1>6, <1>7, <1>8, <2>3, <2>4 DEF a
<1>9. TypeReactor' /\ CursorInv'
  <2>1. Len(slots') = Len(slots)
    BY <1>1, <1>2, <1>3, <1>7, UpdateSlot
  <2> QED BY <1>1, <2>1, TickMoves
<1> QED BY <1>1, <1>2, <1>4, <1>6, <1>7, <1>8, <1>9, UpdateKeeps

\* A step that leaves the slots and the indexes alone keeps the invariant.
LEMMA SameSlots ==
  ASSUME MonitorInv, UNCHANGED <<slots, indexes>>, TypeReactor', CursorInv'
  PROVE  MonitorInv'
  BY DEF MonitorInv, indexes, IndexInv, FeedInv, FeedIndexExact, FdsDistinct, LiveSlotReachable,
         ReportedSlotDetached, LiveUnreported, BudgetInv, TypeIndex

\* Every step keeps the invariant, whatever faults it exercises.
LEMMA MonitorStep == MonitorInv /\ [Next]_vars => MonitorInv'
<1> SUFFICES ASSUME MonitorInv, [Next]_vars PROVE MonitorInv'
  OBVIOUS
<1>1. slots \in Seq(Slot) /\ DOMAIN slots = 1 .. Len(slots) /\ \A j \in DOMAIN slots : slots[j] \in Slot
  BY LenProperties, ElementOfSeq DEF MonitorInv
<1>2. ASSUME UNCHANGED reactor, Len(slots') = Len(slots) PROVE TypeReactor' /\ CursorInv'
  BY <1>2 DEF reactor, MonitorInv, TypeReactor, CursorInv
<1>3. ASSUME NEW i \in DOMAIN slots, BackoffExpires(i) PROVE MonitorInv'
  <2> DEFINE s == [slots[i] EXCEPT !.ready = "due"]
  <2>1. slots' = [slots EXCEPT ![i] = s] /\ slots[i].ready = "waiting" /\ UNCHANGED <<indexes, reactor>>
    BY <1>3 DEF BackoffExpires
  <2>2. /\ s \in Slot /\ s.fd = slots[i].fd /\ s.feed_id = slots[i].feed_id /\ s.conn = slots[i].conn
        /\ s.alerts = slots[i].alerts /\ s.tries = slots[i].tries /\ s.forced = slots[i].forced
        /\ s.reconnect_attempts = slots[i].reconnect_attempts /\ s.ready = "due"
    BY <1>1 DEF Slot
  <2> HIDE DEF s
  <2>3. MaxReconnectAttempts >= 0 /\ Paid(slots[i]) => Paid(s)
    BY <2>1, <2>2 DEF Paid
  <2>4. s.conn # "failed" => s.alerts = 0
    BY <2>2 DEF MonitorInv, IndexInv, LiveUnreported
  <2>5. TypeReactor' /\ CursorInv'
    BY <1>1, <1>2, <2>1, <2>2, UpdateSlot
  <2> QED BY <2>1, <2>2, <2>3, <2>4, <2>5, UpdateKeeps
<1>4. CASE EpollWait
  <2>1. UNCHANGED <<slots, indexes, pc, cursor>>
    BY <1>4 DEF EpollWait
  <2>2. TypeReactor'
    BY <1>4 DEF EpollWait, MonitorInv, TypeReactor, TypeIndex
  <2>3. CursorInv'
    BY <2>1 DEF MonitorInv, CursorInv
  <2> QED BY <2>1, <2>2, <2>3, SameSlots
<1>5. ASSUME NEW fd \in events, SkipEvent(fd) PROVE MonitorInv'
  <2>1. UNCHANGED <<slots, indexes, pc, cursor, batch>> /\ events' \subseteq events
    BY <1>5 DEF SkipEvent
  <2>2. TypeReactor' /\ CursorInv'
    BY <2>1 DEF MonitorInv, TypeReactor, CursorInv
  <2> QED BY <2>1, <2>2, SameSlots
<1>6. ASSUME NEW fd \in events, EventHandled(fd), Len(slots') = Len(slots)
      PROVE  TypeReactor' /\ CursorInv'
  <2>1. UNCHANGED <<pc, cursor, batch>> /\ events' \subseteq events
    BY <1>6 DEF EventHandled
  <2> QED BY <1>6, <2>1 DEF MonitorInv, TypeReactor, CursorInv
<1>7. ASSUME NEW fd \in events, EventProgress(fd) PROVE MonitorInv'
  <2> DEFINE i == index_of_fd[fd]
  <2>1. EventHandled(fd) /\ i \in DOMAIN slots /\ slots[i].conn # "failed" /\ UNCHANGED indexes
    BY <1>7 DEF EventProgress, EventHandled
  <2>2. PICK c \in {slots[i].conn, "live"} : slots' = [slots EXCEPT ![i].conn = c]
    BY <1>7 DEF EventProgress
  <2> DEFINE s == [slots[i] EXCEPT !.conn = c]
  <2>3. slots[i] \in Slot /\ c \in ConnStates
    BY <1>1, <2>1 DEF Slot, ConnStates
  <2>4. /\ s \in Slot /\ s.fd = slots[i].fd /\ s.feed_id = slots[i].feed_id /\ s.conn = c
        /\ s.alerts = slots[i].alerts /\ s.tries = slots[i].tries /\ s.forced = slots[i].forced
        /\ s.reconnect_attempts = slots[i].reconnect_attempts /\ s.ready = slots[i].ready
    BY <2>3 DEF Slot
  <2>5. slots' = [slots EXCEPT ![i] = s]
    BY <2>2
  <2> HIDE DEF s, i
  <2>6. c # "failed"
    BY <2>1
  <2>7. MaxReconnectAttempts >= 0 /\ Paid(slots[i]) => Paid(s)
    BY <2>4 DEF Paid
  <2>8. s.alerts = 0
    BY <2>1, <2>4 DEF MonitorInv, IndexInv, LiveUnreported
  <2>9. TypeReactor' /\ CursorInv'
    BY <1>1, <1>6, <2>1, <2>4, <2>5, UpdateSlot
  <2> QED BY <2>1, <2>4, <2>5, <2>6, <2>7, <2>8, <2>9, UpdateKeeps
<1>8. ASSUME NEW i \in DOMAIN slots, OnConnectionFailed(i) PROVE Len(slots') = Len(slots)
  BY <1>1, <1>8 DEF OnConnectionFailed
<1>9. ASSUME NEW fd \in events, EventFailure(fd) PROVE MonitorInv'
  <2>1. EventHandled(fd) /\ index_of_fd[fd] \in DOMAIN slots /\ OnConnectionFailed(index_of_fd[fd])
    BY <1>9 DEF EventFailure, EventHandled
  <2>2. TypeReactor' /\ CursorInv'
    BY <1>6, <1>8, <2>1
  <2> QED BY <2>1, <2>2, FailKeeps
<1>10. CASE TickStart
  <2>1. UNCHANGED <<slots, indexes>>
    BY <1>10 DEF TickStart
  <2>2. TypeReactor'
    BY <1>10 DEF TickStart, MonitorInv, TypeReactor
  <2>3. CursorInv'
    <3>1. CASE slots = <<>>
      BY <1>10, <3>1 DEF TickStart, MonitorInv, CursorInv
    <3>2. CASE slots # <<>>
      <4>1. Len(slots) \in Nat \ {0}
        BY <1>1, <3>2, EmptySeq
      <4>2. 1 \in 1 .. Len(slots)
        BY <4>1
      <4> QED BY <1>10, <3>2, <4>2 DEF TickStart, CursorInv
    <3> QED BY <3>1, <3>2
  <2> QED BY <2>1, <2>2, <2>3, SameSlots
<1>11. CASE CommandStart \/ CommandEnd
  <2>1. UNCHANGED <<slots, indexes>>
    BY <1>11 DEF CommandStart, CommandEnd
  <2>2. TypeReactor'
    BY <1>11 DEF CommandStart, CommandEnd, MonitorInv, TypeReactor
  <2>3. CursorInv'
    BY <1>11 DEF CommandStart, CommandEnd, MonitorInv, CursorInv
  <2> QED BY <2>1, <2>2, <2>3, SameSlots
<1>12. CASE TickQuiet
  <2>1. TickNext /\ UNCHANGED <<slots, indexes>> /\ UNCHANGED events
    BY <1>12 DEF TickQuiet
  <2>2. TypeReactor' /\ CursorInv'
    BY <2>1, TickMoves
  <2> QED BY <2>1, <2>2, SameSlots
<1>13. CASE TickTimeout
  <2>1. TickNext /\ OnConnectionFailed(cursor) /\ UNCHANGED events
    BY <1>13 DEF TickTimeout
  <2>2. cursor \in DOMAIN slots
    BY <2>1, TickMoves
  <2>3. TypeReactor' /\ CursorInv'
    BY <1>8, <2>1, <2>2, TickMoves
  <2> QED BY <2>1, <2>2, <2>3, FailKeeps
<1>14. CASE TickPingFails
  <2> DEFINE i == cursor
             s == [slots[i] EXCEPT !.conn = "failed"]
  <2>1. /\ TickNext /\ UNCHANGED indexes /\ UNCHANGED events
        /\ slots[i].conn = "live" /\ slots' = [slots EXCEPT ![i] = s]
    BY <1>14 DEF TickPingFails
  <2>2. i \in DOMAIN slots
    BY <2>1, TickMoves
  <2>3. slots[i] \in Slot
    BY <1>1, <2>2
  <2>4. /\ s \in Slot /\ s.fd = slots[i].fd /\ s.feed_id = slots[i].feed_id /\ s.conn = "failed"
        /\ s.alerts = slots[i].alerts /\ s.tries = slots[i].tries /\ s.forced = slots[i].forced
        /\ s.reconnect_attempts = slots[i].reconnect_attempts /\ s.ready = slots[i].ready
    BY <2>3 DEF Slot, ConnStates
  <2> HIDE DEF s
  <2>5. MaxReconnectAttempts >= 0 /\ Paid(slots[i]) => Paid(s)
    BY <2>4 DEF Paid
  <2>6. s.alerts = 0
    BY <2>1, <2>2, <2>4 DEF MonitorInv, IndexInv, LiveUnreported
  <2>7. TypeReactor' /\ CursorInv'
    BY <1>1, <2>1, <2>2, <2>4, UpdateSlot, TickMoves
  <2>8. ~(s.alerts > 0)
    BY <2>6
  <2>9. s.conn # "failed" => slots[i].conn # "failed" /\ s.alerts = 0
    BY <2>4
  <2>10. s.conn = "failed" /\ s.alerts > 0 => slots[i].conn = "failed" /\ slots[i].alerts > 0
    BY <2>8
  <2> QED BY <2>1, <2>2, <2>4, <2>5, <2>7, <2>9, <2>10, UpdateKeeps
<1>15. ASSUME NEW f \in Feeds, ForceDisconnect(f) PROVE MonitorInv'
  <2>1. OnConnectionFailed(index_of_feed_id[f]) /\ UNCHANGED reactor /\ f \in DOMAIN index_of_feed_id
    BY <1>15 DEF ForceDisconnect
  <2>2. index_of_feed_id[f] \in DOMAIN slots
    BY <2>1 DEF MonitorInv, IndexInv, FeedInv, FeedIndexExact
  <2>3. TypeReactor' /\ CursorInv'
    BY <1>2, <1>8, <2>1, <2>2
  <2> QED BY <2>1, <2>2, <2>3, FailKeeps
<1>16. ASSUME NEW f \in Feeds, ForceReconnect(f) PROVE MonitorInv'
  <2> DEFINE i == index_of_feed_id[f]
             s == FreshBudget(slots[i])
  <2>1. /\ f \in DOMAIN index_of_feed_id /\ slots[i].conn = "failed"
        /\ slots' = [slots EXCEPT ![i] = s] /\ UNCHANGED indexes /\ UNCHANGED reactor
    BY <1>16 DEF ForceReconnect
  <2>2. i \in DOMAIN slots
    BY <2>1 DEF MonitorInv, IndexInv, FeedInv, FeedIndexExact
  <2>3. slots[i] \in Slot /\ 0 \in 0 .. AttemptCap
    BY <1>1, <2>2, RetryAssumption
  <2>4. /\ s \in Slot /\ s.fd = slots[i].fd /\ s.feed_id = slots[i].feed_id /\ s.conn = slots[i].conn
        /\ s.alerts = slots[i].alerts /\ s.tries = 0 /\ s.forced = TRUE
        /\ s.reconnect_attempts = 0 /\ s.ready = "due"
    BY <2>3 DEF Slot, FreshBudget
  <2> HIDE DEF s, i
  <2>5. MaxReconnectAttempts >= 0 => Paid(s)
    BY <2>4 DEF Paid
  <2>6. TypeReactor' /\ CursorInv'
    BY <1>1, <1>2, <2>1, <2>2, <2>4, UpdateSlot
  <2> QED BY <2>1, <2>2, <2>4, <2>5, <2>6, UpdateKeeps
<1>17. CASE UNCHANGED vars
  <2>1. UNCHANGED <<slots, indexes>> /\ UNCHANGED reactor
    BY <1>17 DEF vars, indexes, reactor
  <2>2. TypeReactor' /\ CursorInv'
    BY <1>2, <2>1
  <2> QED BY <2>1, <2>2, SameSlots
<1>18. CASE Dispatch
  BY <1>5, <1>7, <1>9, <1>10, <1>11, <1>18 DEF Dispatch
<1>19. CASE TickSlot
  BY <1>12, <1>13, <1>14, <1>19, ConnectFailsKeeps, ReconnectKeeps DEF TickSlot
<1>20. CASE Callback
  BY <1>15, <1>16, <1>20, AddKeeps, RemoveKeeps DEF Callback
<1> QED
  BY <1>3, <1>4, <1>11, <1>17, <1>18, <1>19, <1>20 DEF Next

\* main() adds the initial feeds, one slot each.
LEMMA MonitorInit == Init => MonitorInv
<1> SUFFICES ASSUME Init PROVE MonitorInv
  OBVIOUS
<1> DEFINE n == Len(InitialFeeds)
<1>0. MaxReconnectAttempts \in Int /\ AttemptCap \in Nat /\ 0 \in 0 .. AttemptCap /\ 0 \in Nat
  BY RetryAssumption
<1>1. n \in Nat /\ DOMAIN InitialFeeds = 1 .. n /\ \A i \in 1 .. n : InitialFeeds[i] \in Feeds
  BY FeedsAssumption, LenProperties, ElementOfSeq
<1>2. 1 .. n \subseteq Fds /\ \A i, j \in 1 .. n : InitialFeeds[i] = InitialFeeds[j] => i = j
  BY FeedsAssumption, FdsAssumption
<1>3. Range(InitialFeeds) = {InitialFeeds[i] : i \in 1 .. n}
  BY <1>1 DEF Range
<1> HIDE DEF n
<1>4. \A i \in 1 .. n : LET s == NewSlot(InitialFeeds[i], i) IN
        /\ s \in Slot /\ s.fd = i /\ s.feed_id = InitialFeeds[i] /\ s.conn = "opening" /\ s.alerts = 0
        /\ s.tries = 0 /\ s.ready = "none" /\ s.forced = FALSE /\ s.reconnect_attempts = 0
  <2> SUFFICES ASSUME NEW i \in 1 .. n PROVE
        /\ NewSlot(InitialFeeds[i], i) \in Slot
        /\ NewSlot(InitialFeeds[i], i).fd = i /\ NewSlot(InitialFeeds[i], i).feed_id = InitialFeeds[i]
        /\ NewSlot(InitialFeeds[i], i).conn = "opening" /\ NewSlot(InitialFeeds[i], i).alerts = 0
        /\ NewSlot(InitialFeeds[i], i).tries = 0 /\ NewSlot(InitialFeeds[i], i).ready = "none"
        /\ NewSlot(InitialFeeds[i], i).forced = FALSE
        /\ NewSlot(InitialFeeds[i], i).reconnect_attempts = 0
    OBVIOUS
  <2>1. InitialFeeds[i] \in Feeds /\ i \in Fds
    BY <1>1, <1>2
  <2> QED BY <1>0, <2>1 DEF NewSlot, Slot, ConnStates
<1>5. DOMAIN slots = 1 .. n /\ \A i \in 1 .. n : slots[i] = NewSlot(InitialFeeds[i], i)
  BY DEF Init, n
<1>6. slots \in Seq(Slot)
  <2>1. slots \in [1 .. n -> Slot]
    BY <1>4 DEF Init, n
  <2> QED BY <1>1, <2>1, SeqDef
<1>7. /\ DOMAIN index_of_fd = 1 .. n /\ \A i \in 1 .. n : index_of_fd[i] = i
      /\ epoll = 1 .. n /\ DOMAIN index_of_feed_id = Range(InitialFeeds)
  BY DEF Init, n
<1>8. \A i \in 1 .. n : index_of_feed_id[InitialFeeds[i]] = i
  <2> SUFFICES ASSUME NEW i \in 1 .. n PROVE index_of_feed_id[InitialFeeds[i]] = i
    OBVIOUS
  <2>1. InitialFeeds[i] \in Range(InitialFeeds)
    BY <1>3
  <2>2. index_of_feed_id[InitialFeeds[i]]
          = CHOOSE j \in DOMAIN InitialFeeds : InitialFeeds[j] = InitialFeeds[i]
    BY <2>1 DEF Init
  <2> QED BY <1>1, <1>2, <2>2
<1>9. FeedInv
  <2>1. {slots[j].feed_id : j \in DOMAIN slots} = {InitialFeeds[j] : j \in 1 .. n}
    BY <1>4, <1>5
  <2>2. \A j \in DOMAIN slots : index_of_feed_id[slots[j].feed_id] = j
    BY <1>4, <1>5, <1>8
  <2>3. DOMAIN index_of_feed_id = {slots[j].feed_id : j \in DOMAIN slots}
    BY <1>3, <1>7, <2>1
  <2>4. ASSUME NEW f \in DOMAIN index_of_feed_id
        PROVE  index_of_feed_id[f] \in DOMAIN slots /\ slots[index_of_feed_id[f]].feed_id = f
    <3>1. PICK j \in DOMAIN slots : slots[j].feed_id = f
      BY <2>3
    <3> QED BY <2>2, <3>1
  <2> QED BY <2>2, <2>3, <2>4 DEF FeedInv, FeedIndexExact
<1>10. FdsDistinct /\ LiveSlotReachable /\ ReportedSlotDetached /\ LiveUnreported
  BY <1>4, <1>5, <1>7 DEF FdsDistinct, LiveSlotReachable, ReportedSlotDetached, LiveUnreported
<1>11. BudgetInv
  <2>1. ASSUME MaxReconnectAttempts >= 0, NEW s, s.tries = 0, s.ready = "none", s.forced = FALSE,
               s.reconnect_attempts = 0
        PROVE  Paid(s)
    BY <2>1 DEF Paid
  <2> SUFFICES ASSUME MaxReconnectAttempts >= 0, NEW i \in 1 .. n PROVE Paid(slots[i])
    BY <1>5 DEF BudgetInv
  <2>2. /\ slots[i].tries = 0 /\ slots[i].ready = "none" /\ slots[i].forced = FALSE
        /\ slots[i].reconnect_attempts = 0
    BY <1>4, <1>5
  <2> QED BY <2>1, <2>2
<1>12. TypeIndex
  <2>1. \A i \in 1 .. n : i \in Nat \ {0}
    OBVIOUS
  <2> QED BY <1>1, <1>2, <1>3, <1>7, <1>8, <2>1 DEF TypeIndex
<1>13. TypeReactor /\ CursorInv
  BY DEF Init, TypeReactor, CursorInv
<1> QED BY <1>6, <1>9, <1>10, <1>11, <1>12, <1>13 DEF MonitorInv, IndexInv

-----------------------------------------------------------------------------
(* Theorems for every run, faults included                                 *)

\* The slots, the indexes and the retry budget, after any sequence of events,
\* ticks and commands.
THEOREM MonitorCorrect == Spec => []MonitorInv
  BY MonitorInit, MonitorStep, PTL DEF Spec

\* Every variable keeps its type.
THEOREM MonitorTypeCorrect == Spec => []TypeOK
<1>1. MonitorInv => TypeOK
  BY TypeParts DEF MonitorInv
<1> QED BY <1>1, MonitorCorrect, PTL

\* index_of_feed_id_ names exactly the feeds that have a slot, each at the place
\* swap-and-pop left it.
THEOREM FeedIndexCorrect == Spec => []FeedIndexExact
<1>1. MonitorInv => FeedIndexExact
  BY DEF MonitorInv, IndexInv, FeedInv
<1> QED BY <1>1, MonitorCorrect, PTL

\* A connection that is up is found by its descriptor, also after silent
\* failures, removals and reconnects on recycled descriptor numbers.
THEOREM LiveSlotCorrect == Spec => []LiveSlotReachable
<1>1. MonitorInv => LiveSlotReachable
  BY DEF MonitorInv, IndexInv
<1> QED BY <1>1, MonitorCorrect, PTL

\* A descriptor whose failure was reported stays out of epoll and index_of_fd_
\* until rebind closes it.
THEOREM ReportedSlotCorrect == Spec => []ReportedSlotDetached
<1>1. MonitorInv => ReportedSlotDetached
  BY DEF MonitorInv, IndexInv
<1> QED BY <1>1, MonitorCorrect, PTL

\* A feed is reconnected at most max_reconnect_attempts times on its own, and
\* once more after an operator's "reconnect".
THEOREM RetryBudgetCorrect == Spec => []RetryBudget
<1>1. MonitorInv => RetryBudget
  <2> SUFFICES ASSUME MonitorInv, MaxReconnectAttempts >= 0, NEW i \in DOMAIN slots
               PROVE  slots[i].tries <= MaxReconnectAttempts + (IF slots[i].forced THEN 1 ELSE 0)
    BY DEF RetryBudget
  <2>1. slots[i] \in Slot /\ Paid(slots[i])
    BY LenProperties, ElementOfSeq DEF MonitorInv, BudgetInv
  <2>2. /\ slots[i].tries \in Nat /\ slots[i].reconnect_attempts \in Int
        /\ MaxReconnectAttempts \in Int
    BY <2>1, RetryAssumption DEF Slot
  <2> QED BY <2>1, <2>2 DEF Paid
<1> QED BY <1>1, MonitorCorrect, PTL

-----------------------------------------------------------------------------
(* One report per failure, where no ping fails in silence                  *)

\* A change of one slot that does not touch the indexes.
LEMMA UpdateReports ==
  ASSUME MonitorInv, ReportInv, NEW i \in DOMAIN slots, NEW s \in Slot,
         slots' = [slots EXCEPT ![i] = s], UNCHANGED indexes,
         s.fd = slots[i].fd, slots[i].conn # "failed" => s.conn # "failed", Booked(s)
  PROVE  ReportInv'
<1>1. /\ DOMAIN slots' = DOMAIN slots /\ slots'[i] = s
      /\ \A j \in DOMAIN slots : j # i => slots'[j] = slots[j]
  BY UpdateSlot DEF MonitorInv
<1>2. UNCHANGED index_of_fd
  BY DEF indexes
<1>3. MappedLive'
  BY <1>1, <1>2 DEF ReportInv, MappedLive
<1>4. \A j \in DOMAIN slots' : Booked(slots'[j])
  BY <1>1 DEF ReportInv
<1> QED BY <1>3, <1>4 DEF ReportInv

\* on_connection_failed on a connection that was up reports it for the first time.
LEMMA FailReports ==
  ASSUME MonitorInv, ReportInv, NEW i \in DOMAIN slots, slots[i].conn # "failed",
         OnConnectionFailed(i)
  PROVE  ReportInv'
<1> DEFINE s == FailedSlot(slots[i])
<1>1. /\ slots' = [slots EXCEPT ![i] = s] /\ index_of_fd' = Erase(index_of_fd, slots[i].fd)
  BY DEF OnConnectionFailed, FailedSlot
<1>2. slots \in Seq(Slot) /\ slots[i] \in Slot
  BY LenProperties, ElementOfSeq DEF MonitorInv
<1>3. /\ s \in Slot /\ s.fd = slots[i].fd /\ s.conn = "failed" /\ s.alerts = slots[i].alerts + 1
      /\ \/ s.give_up = TRUE /\ s.ready = slots[i].ready
         \/ s.give_up = slots[i].give_up /\ s.ready = "waiting"
  BY <1>2, FailedSlotFields
<1> HIDE DEF s
<1>4. slots[i].alerts = 0 /\ slots[i].ready = "none" /\ slots[i].give_up = FALSE
  BY <1>2 DEF ReportInv, Booked, Slot
<1>5. Booked(s)
  <2>1. s.alerts = 1
    BY <1>3, <1>4
  <2>2. s.give_up = (s.ready = "none")
    <3>1. CASE s.give_up = TRUE /\ s.ready = "none"
      BY <3>1
    <3>2. CASE s.give_up = FALSE /\ s.ready = "waiting"
      <4>1. (s.ready = "none") = FALSE
        BY <3>2
      <4> QED BY <3>2, <4>1
    <3> QED BY <1>3, <1>4, <3>1, <3>2
  <2> QED BY <1>3, <2>1, <2>2 DEF Booked
<1>6. /\ DOMAIN slots' = DOMAIN slots /\ slots'[i] = s
      /\ \A j \in DOMAIN slots : j # i => slots'[j] = slots[j]
  BY <1>1, <1>2, <1>3, UpdateSlot
<1>7. /\ DOMAIN index_of_fd' = DOMAIN index_of_fd \ {slots[i].fd}
      /\ \A k \in DOMAIN index_of_fd : k # slots[i].fd => index_of_fd'[k] = index_of_fd[k]
  BY <1>1, EraseValue
<1>8. MappedLive'
  BY <1>6, <1>7 DEF ReportInv, MappedLive
<1>9. \A j \in DOMAIN slots' : Booked(slots'[j])
  BY <1>5, <1>6 DEF ReportInv
<1> QED BY <1>8, <1>9 DEF ReportInv

\* A reconnect starts a connection nothing was reported of.
LEMMA ReconnectReports == MonitorInv /\ ReportInv /\ Reconnect => ReportInv'
<1> SUFFICES ASSUME MonitorInv, ReportInv, Reconnect PROVE ReportInv'
  OBVIOUS
<1> DEFINE i == cursor
           fd == LowestFree
           n == CountTry(slots[i])
           s == [slots[i] EXCEPT !.ready = "none", !.conn = "opening", !.fd = fd,
                                 !.alerts = 0, !.tries = n]
<1>1. /\ TickNext /\ UNCHANGED events /\ ReconnectDue(slots[i]) /\ FreeFds # {}
      /\ slots' = [slots EXCEPT ![i] = s] /\ index_of_fd' = Put(index_of_fd, fd, i)
  BY DEF Reconnect
<1>2. i \in DOMAIN slots /\ DOMAIN slots = 1 .. Len(slots)
  BY <1>1, TickMoves
<1>3. fd \in Fds /\ \A j \in DOMAIN slots : slots[j].fd # fd
  BY <1>1, FreshFd
<1>4. slots \in Seq(Slot) /\ slots[i] \in Slot
  BY <1>2, ElementOfSeq DEF MonitorInv
<1>5. n \in Nat
  <2>1. slots[i].tries \in Nat
    BY <1>4 DEF Slot
  <2> QED BY <2>1 DEF CountTry
<1>6. slots[i].conn = "failed" /\ slots[i].give_up = FALSE
  BY <1>1, <1>4 DEF ReconnectDue, Slot
<1> HIDE DEF n, fd
<1>7. /\ s \in Slot /\ s.fd = fd /\ s.conn = "opening" /\ s.alerts = 0 /\ s.ready = "none"
      /\ s.give_up = slots[i].give_up
  BY <1>3, <1>4, <1>5 DEF Slot, ConnStates
<1> HIDE DEF s
<1>8. /\ DOMAIN slots' = DOMAIN slots /\ slots'[i] = s
      /\ \A j \in DOMAIN slots : j # i => slots'[j] = slots[j]
  BY <1>1, <1>2, <1>4, <1>7, UpdateSlot
<1>9. Booked(s)
  BY <1>6, <1>7 DEF Booked
<1>10. /\ DOMAIN index_of_fd' = DOMAIN index_of_fd \cup {fd} /\ index_of_fd'[fd] = i
       /\ \A k \in DOMAIN index_of_fd : k # fd => index_of_fd'[k] = index_of_fd[k]
  <2>1. index_of_fd' = Put(index_of_fd, fd, i)
    BY <1>1
  <2> QED BY <2>1 DEF Put
<1>11. MappedLive'
  <2> SUFFICES ASSUME NEW k \in DOMAIN index_of_fd'
               PROVE  /\ index_of_fd'[k] \in DOMAIN slots'
                      /\ slots'[index_of_fd'[k]].fd = k /\ slots'[index_of_fd'[k]].conn # "failed"
    BY DEF MappedLive
  <2>1. CASE k = fd
    BY <1>2, <1>7, <1>8, <1>10, <2>1
  <2>2. CASE k # fd
    <3>1. k \in DOMAIN index_of_fd /\ index_of_fd'[k] = index_of_fd[k]
      BY <1>10, <2>2
    <3>2. /\ index_of_fd[k] \in DOMAIN slots /\ slots[index_of_fd[k]].fd = k
          /\ slots[index_of_fd[k]].conn # "failed"
      BY <3>1 DEF ReportInv, MappedLive
    <3>3. index_of_fd[k] # i
      BY <1>6, <3>2
    <3> QED BY <1>8, <3>1, <3>2, <3>3
  <2> QED BY <2>1, <2>2
<1>12. \A j \in DOMAIN slots' : Booked(slots'[j])
  BY <1>8, <1>9 DEF ReportInv
<1> QED BY <1>11, <1>12 DEF ReportInv

\* So does a feed just added.
LEMMA AddReports ==
  ASSUME MonitorInv, ReportInv, NEW f \in Feeds, AddFeed(f)
  PROVE  ReportInv'
<1> DEFINE fd == LowestFree
           last == Len(slots) + 1
           s == NewSlot(f, fd)
<1>1. FreeFds # {} /\ slots' = Append(slots, s) /\ index_of_fd' = Put(index_of_fd, fd, last)
  BY DEF AddFeed
<1>2. slots \in Seq(Slot) /\ DOMAIN slots = 1 .. Len(slots) /\ Len(slots) \in Nat
  BY LenProperties DEF MonitorInv
<1>3. fd \in Fds
  BY <1>1, FreshFd
<1> HIDE DEF fd
<1>4. /\ s \in Slot /\ s.fd = fd /\ s.conn = "opening" /\ s.alerts = 0 /\ s.ready = "none"
      /\ s.give_up = FALSE
  <2>1. 0 \in 0 .. AttemptCap /\ 0 \in Nat
    BY RetryAssumption
  <2> QED BY <1>3, <2>1 DEF NewSlot, Slot, ConnStates
<1> HIDE DEF s
<1>5. slots' \in Seq(Slot) /\ Len(slots') = last
  BY <1>1, <1>2, <1>4, AppendProperties
<1>6. slots'[last] = s /\ \A j \in DOMAIN slots : slots'[j] = slots[j]
  BY <1>1, <1>2, <1>4, AppendProperties
<1>7. DOMAIN slots' = 1 .. last
  BY <1>5, LenProperties
<1>8. last \notin DOMAIN slots /\ DOMAIN slots' = DOMAIN slots \cup {last}
  BY <1>2, <1>7
<1> HIDE DEF last
<1>9. /\ DOMAIN index_of_fd' = DOMAIN index_of_fd \cup {fd} /\ index_of_fd'[fd] = last
      /\ \A k \in DOMAIN index_of_fd : k # fd => index_of_fd'[k] = index_of_fd[k]
  <2>1. index_of_fd' = Put(index_of_fd, fd, last)
    BY <1>1
  <2> QED BY <2>1 DEF Put
<1>10. MappedLive'
  BY <1>4, <1>6, <1>8, <1>9 DEF ReportInv, MappedLive
<1>11. Booked(s)
  BY <1>4 DEF Booked
<1>12. \A j \in DOMAIN slots' : Booked(slots'[j])
  BY <1>6, <1>8, <1>11 DEF ReportInv
<1> QED BY <1>10, <1>12 DEF ReportInv

\* Swap-and-pop repoints the moved slot's descriptor exactly when it is up.
LEMMA RemoveReports ==
  ASSUME MonitorInv, ReportInv, NEW f \in Feeds, RemoveFeed(f)
  PROVE  ReportInv'
<1> DEFINE index == index_of_feed_id[f]
           last == Len(slots)
<1>1. /\ index \in DOMAIN slots /\ FdsMoved(index)
      /\ slots' = SubSeq([slots EXCEPT ![index] = slots[last]], 1, last - 1)
  BY RemovedIndexes
<1>2. /\ DOMAIN index_of_fd' = (DOMAIN index_of_fd \ {slots[index].fd})
           \cup (IF index # last /\ slots[last].conn # "failed" THEN {slots[last].fd} ELSE {})
      /\ \A g \in DOMAIN index_of_fd' :
           index_of_fd'[g] = IF index # last /\ slots[last].conn # "failed" /\ g = slots[last].fd
                             THEN index ELSE index_of_fd[g]
  BY <1>1 DEF FdsMoved
<1> HIDE DEF index
<1>3. /\ DOMAIN slots' = DOMAIN slots \ {last} /\ last \in DOMAIN slots
      /\ \A j \in DOMAIN slots' :
           Source(index, j) \in DOMAIN slots /\ slots'[j] = slots[Source(index, j)]
  BY <1>1, RemovedSlots DEF MonitorInv
<1>4. \A j \in DOMAIN slots' : IF j = index THEN Source(index, j) = last ELSE Source(index, j) = j
  BY DEF Source
<1> HIDE DEF last
<1>5. MappedLive'
  <2> SUFFICES ASSUME NEW k \in DOMAIN index_of_fd'
               PROVE  /\ index_of_fd'[k] \in DOMAIN slots'
                      /\ slots'[index_of_fd'[k]].fd = k /\ slots'[index_of_fd'[k]].conn # "failed"
    BY DEF MappedLive
  <2>1. CASE index # last /\ slots[last].conn # "failed" /\ k = slots[last].fd
    <3>1. index_of_fd'[k] = index /\ index \in DOMAIN slots' /\ slots'[index] = slots[last]
      BY <1>1, <1>2, <1>3, <1>4, <2>1
    <3> QED BY <2>1, <3>1
  <2>2. CASE ~(index # last /\ slots[last].conn # "failed" /\ k = slots[last].fd)
    <3>1. k \in DOMAIN index_of_fd /\ index_of_fd'[k] = index_of_fd[k] /\ k # slots[index].fd
      BY <1>2, <2>2
    <3>2. /\ index_of_fd[k] \in DOMAIN slots /\ slots[index_of_fd[k]].fd = k
          /\ slots[index_of_fd[k]].conn # "failed"
      BY <3>1 DEF ReportInv, MappedLive
    <3>3. index_of_fd[k] # index /\ index_of_fd[k] # last
      BY <2>2, <3>1, <3>2
    <3> QED BY <1>3, <1>4, <3>1, <3>2, <3>3
  <2> QED BY <2>1, <2>2
<1>6. \A j \in DOMAIN slots' : Booked(slots'[j])
  BY <1>3 DEF ReportInv
<1> QED BY <1>5, <1>6 DEF ReportInv

\* A slot's retry fields after a try that could not be made.
LEMMA ConnectFailsReports == MonitorInv /\ ReportInv /\ ConnectFails => ReportInv'
<1> SUFFICES ASSUME MonitorInv, ReportInv, ConnectFails PROVE ReportInv'
  OBVIOUS
<1> DEFINE i == cursor
           n == CountTry(slots[i])
           b == [slots[i] EXCEPT !.ready = "none", !.tries = n]
           s == ScheduleReconnect(b)
<1>1. /\ TickNext /\ UNCHANGED events /\ ReconnectDue(slots[i]) /\ UNCHANGED indexes
      /\ slots' = [slots EXCEPT ![i] = s]
  BY DEF ConnectFails
<1>2. i \in DOMAIN slots /\ DOMAIN slots = 1 .. Len(slots)
  BY <1>1, TickMoves
<1>3. slots \in Seq(Slot) /\ slots[i] \in Slot
  BY <1>2, ElementOfSeq DEF MonitorInv
<1>4. n \in Nat
  <2>1. slots[i].tries \in Nat
    BY <1>3 DEF Slot
  <2> QED BY <2>1 DEF CountTry
<1>5. slots[i].conn = "failed" /\ slots[i].give_up = FALSE
  BY <1>1, <1>3 DEF ReconnectDue, Slot
<1> HIDE DEF n
<1>6. /\ b \in Slot /\ b.fd = slots[i].fd /\ b.conn = slots[i].conn /\ b.alerts = slots[i].alerts
      /\ b.ready = "none" /\ b.give_up = slots[i].give_up
  BY <1>3, <1>4 DEF Slot
<1> HIDE DEF b
<1>7. /\ s \in Slot /\ s.fd = b.fd /\ s.conn = b.conn /\ s.alerts = b.alerts
      /\ \/ s.give_up = TRUE /\ s.ready = b.ready
         \/ s.give_up = b.give_up /\ s.ready = "waiting"
  BY <1>6, ScheduleSlot
<1> HIDE DEF s
<1>8. Booked(s)
  <2>1. s.alerts = 1 /\ s.conn = "failed"
    BY <1>2, <1>5, <1>6, <1>7 DEF ReportInv, Booked
  <2>2. s.give_up = (s.ready = "none")
    <3>1. CASE s.give_up = TRUE /\ s.ready = "none"
      BY <3>1
    <3>2. CASE s.give_up = FALSE /\ s.ready = "waiting"
      <4>1. (s.ready = "none") = FALSE
        BY <3>2
      <4> QED BY <3>2, <4>1
    <3> QED BY <1>5, <1>6, <1>7, <3>1, <3>2
  <2> QED BY <2>1, <2>2 DEF Booked
<1> QED BY <1>1, <1>2, <1>5, <1>6, <1>7, <1>8, UpdateReports

\* Every step but a silent failure keeps the reports in step with the failures.
LEMMA ReportStep ==
  ASSUME "send" \notin Faults, MonitorInv, ReportInv, [Next]_vars
  PROVE  ReportInv'
<1>1. slots \in Seq(Slot) /\ DOMAIN slots = 1 .. Len(slots) /\ \A j \in DOMAIN slots : slots[j] \in Slot
  BY LenProperties, ElementOfSeq DEF MonitorInv
<1>2. ASSUME UNCHANGED <<slots, indexes>> PROVE ReportInv'
  BY <1>2 DEF ReportInv, MappedLive, indexes
<1>3. ASSUME NEW i \in DOMAIN slots, BackoffExpires(i) PROVE ReportInv'
  <2> DEFINE s == [slots[i] EXCEPT !.ready = "due"]
  <2>1. slots' = [slots EXCEPT ![i] = s] /\ slots[i].ready = "waiting" /\ UNCHANGED indexes
    BY <1>3 DEF BackoffExpires
  <2>2. /\ s \in Slot /\ s.fd = slots[i].fd /\ s.conn = slots[i].conn /\ s.alerts = slots[i].alerts
        /\ s.give_up = slots[i].give_up /\ s.ready = "due" /\ s.give_up \in BOOLEAN
    BY <1>1 DEF Slot
  <2> HIDE DEF s
  <2>3. slots[i].conn = "failed" /\ slots[i].alerts = 1 /\ slots[i].give_up = FALSE
    <3>1. Booked(slots[i]) /\ slots[i].ready # "none"
      BY <2>1 DEF ReportInv
    <3> QED BY <2>2, <3>1 DEF Booked
  <2>4. Booked(s)
    <3>1. (s.ready = "none") = FALSE
      BY <2>2
    <3> QED BY <2>2, <2>3, <3>1 DEF Booked
  <2> QED BY <2>1, <2>2, <2>3, <2>4, UpdateReports
<1>4. ASSUME NEW fd \in events, EventProgress(fd) PROVE ReportInv'
  <2> DEFINE i == index_of_fd[fd]
  <2>1. i \in DOMAIN slots /\ slots[i].conn # "failed" /\ UNCHANGED indexes
    BY <1>4 DEF EventProgress, EventHandled
  <2>2. PICK c \in {slots[i].conn, "live"} : slots' = [slots EXCEPT ![i].conn = c]
    BY <1>4 DEF EventProgress
  <2> DEFINE s == [slots[i] EXCEPT !.conn = c]
  <2>3. slots[i] \in Slot /\ c \in ConnStates /\ c # "failed"
    BY <1>1, <2>1 DEF Slot, ConnStates
  <2>4. /\ s \in Slot /\ s.fd = slots[i].fd /\ s.conn = c /\ s.alerts = slots[i].alerts
        /\ s.ready = slots[i].ready /\ s.give_up = slots[i].give_up
    BY <2>3 DEF Slot
  <2>5. slots' = [slots EXCEPT ![i] = s]
    BY <2>2
  <2> HIDE DEF s, i
  <2>6. Booked(s)
    BY <2>1, <2>3, <2>4 DEF ReportInv, Booked
  <2> QED BY <2>1, <2>3, <2>4, <2>5, <2>6, UpdateReports
<1>5. ASSUME NEW fd \in events, EventFailure(fd) PROVE ReportInv'
  <2>1. /\ fd \in DOMAIN index_of_fd /\ index_of_fd[fd] \in DOMAIN slots
        /\ OnConnectionFailed(index_of_fd[fd])
    BY <1>5 DEF EventFailure, EventHandled
  <2>2. slots[index_of_fd[fd]].conn # "failed"
    BY <2>1 DEF ReportInv, MappedLive
  <2> QED BY <2>1, <2>2, FailReports
<1>6. CASE TickTimeout
  <2>1. TickNext /\ OnConnectionFailed(cursor) /\ slots[cursor].conn # "failed" /\ UNCHANGED events
    BY <1>6 DEF TickTimeout
  <2>2. cursor \in DOMAIN slots
    BY <2>1, TickMoves
  <2> QED BY <2>1, <2>2, FailReports
<1>7. ASSUME NEW f \in Feeds, ForceDisconnect(f) PROVE ReportInv'
  <2>1. /\ OnConnectionFailed(index_of_feed_id[f]) /\ f \in DOMAIN index_of_feed_id
        /\ slots[index_of_feed_id[f]].conn # "failed"
    BY <1>7 DEF ForceDisconnect
  <2>2. index_of_feed_id[f] \in DOMAIN slots
    BY <2>1 DEF MonitorInv, IndexInv, FeedInv, FeedIndexExact
  <2> QED BY <2>1, <2>2, FailReports
<1>8. ASSUME NEW f \in Feeds, ForceReconnect(f) PROVE ReportInv'
  <2> DEFINE i == index_of_feed_id[f]
             s == FreshBudget(slots[i])
  <2>1. /\ f \in DOMAIN index_of_feed_id /\ slots[i].conn = "failed"
        /\ slots' = [slots EXCEPT ![i] = s] /\ UNCHANGED indexes
    BY <1>8 DEF ForceReconnect
  <2>2. i \in DOMAIN slots
    BY <2>1 DEF MonitorInv, IndexInv, FeedInv, FeedIndexExact
  <2>3. slots[i] \in Slot /\ 0 \in 0 .. AttemptCap
    BY <1>1, <2>2, RetryAssumption
  <2>4. /\ s \in Slot /\ s.fd = slots[i].fd /\ s.conn = slots[i].conn /\ s.alerts = slots[i].alerts
        /\ s.give_up = FALSE /\ s.ready = "due"
    BY <2>3 DEF Slot, FreshBudget
  <2> HIDE DEF s, i
  <2>5. Booked(s)
    <3>1. (s.ready = "none") = FALSE
      BY <2>4
    <3>2. s.alerts = 1
      BY <2>1, <2>2, <2>4 DEF ReportInv, Booked
    <3> QED BY <2>1, <2>4, <3>1, <3>2 DEF Booked
  <2> QED BY <2>1, <2>2, <2>4, <2>5, UpdateReports
<1>9. CASE EpollWait \/ TickStart \/ CommandStart \/ CommandEnd \/ TickQuiet \/ UNCHANGED vars
  <2>1. UNCHANGED <<slots, indexes>>
    BY <1>9 DEF EpollWait, TickStart, CommandStart, CommandEnd, TickQuiet, vars, indexes
  <2> QED BY <1>2, <2>1
<1>10. ASSUME NEW fd \in events, SkipEvent(fd) PROVE ReportInv'
  BY <1>2, <1>10 DEF SkipEvent
<1>11. CASE Dispatch
  BY <1>4, <1>5, <1>9, <1>10, <1>11 DEF Dispatch
<1>12. CASE TickSlot
  <2>1. ~TickPingFails
    BY DEF TickPingFails
  <2> QED BY <1>6, <1>9, <1>12, <2>1, ConnectFailsReports, ReconnectReports DEF TickSlot
<1>13. CASE Callback
  BY <1>7, <1>8, <1>13, AddReports, RemoveReports DEF Callback
<1> QED
  BY <1>3, <1>9, <1>11, <1>12, <1>13 DEF Next

\* A new connection has nothing to report.
LEMMA ReportInit == Init => ReportInv
<1> SUFFICES ASSUME Init PROVE ReportInv
  OBVIOUS
<1> DEFINE n == Len(InitialFeeds)
<1>1. /\ DOMAIN slots = 1 .. n /\ \A i \in 1 .. n : slots[i] = NewSlot(InitialFeeds[i], i)
      /\ DOMAIN index_of_fd = 1 .. n /\ \A i \in 1 .. n : index_of_fd[i] = i
  BY DEF Init
<1> HIDE DEF n
<1>2. \A i \in 1 .. n : /\ slots[i].fd = i /\ slots[i].conn = "opening" /\ slots[i].alerts = 0
                        /\ slots[i].ready = "none" /\ slots[i].give_up = FALSE
  BY <1>1 DEF NewSlot
<1>3. MappedLive
  BY <1>1, <1>2 DEF MappedLive
<1>4. \A i \in DOMAIN slots : Booked(slots[i])
  BY <1>1, <1>2 DEF Booked
<1> QED BY <1>3, <1>4 DEF ReportInv

\* Where no ping fails in silence, every failure is reported once and booked.
THEOREM ReportsCorrect ==
  ASSUME "send" \notin Faults
  PROVE  Spec => [](MonitorInv /\ ReportInv)
<1>1. Init => MonitorInv /\ ReportInv
  BY MonitorInit, ReportInit
<1>2. MonitorInv /\ ReportInv /\ [Next]_vars => (MonitorInv /\ ReportInv)'
  BY MonitorStep, ReportStep
<1> QED BY <1>1, <1>2, PTL DEF Spec

\* One connection that fails raises one alert, whichever of the event, the tick
\* and the command sees the failure, unless a ping failed in silence
\* (check_timeout then returns false and on_connection_failed may run again).
THEOREM OneAlertCorrect ==
  ASSUME "send" \notin Faults
  PROVE  Spec => []OneAlertPerFailure
<1>1. MonitorInv /\ ReportInv => OneAlertPerFailure
  <2> SUFFICES ASSUME ReportInv, NEW i \in DOMAIN slots PROVE slots[i].alerts <= 1
    BY DEF OneAlertPerFailure
  <2>1. slots[i].alerts = 0 \/ slots[i].alerts = 1
    BY DEF ReportInv, Booked
  <2> QED BY <2>1
<1> QED BY <1>1, ReportsCorrect, PTL

\* Nothing is scheduled or given up while a connection is up, and after a
\* reported failure exactly one of the two holds, unless a ping failed in silence.
THEOREM RetryBookkeepingCorrect ==
  ASSUME "send" \notin Faults
  PROVE  Spec => []RetryBookkeeping
<1>1. MonitorInv /\ ReportInv => RetryBookkeeping
  BY DEF ReportInv, Booked, RetryBookkeeping
<1> QED BY <1>1, ReportsCorrect, PTL
=============================================================================
