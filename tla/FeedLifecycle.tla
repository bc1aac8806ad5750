---------------------------- MODULE FeedLifecycle ----------------------------
(***************************************************************************)
(* What the monitor promises about the state it shows for one feed,        *)
(* without sockets, clocks or batches: detect, degrade, fail, reconnect    *)
(* (ConnectionState in connection.h).  Connection implements it.           *)
(***************************************************************************)
EXTENDS Naturals

CONSTANT MaxMissedHeartbeats

VARIABLES
  state,    \* the state shown
  misses    \* heartbeats missed in a row, as shown with it

vars == <<state, misses>>

Live == {"kHealthy", "kDegraded"}

Init == state = "kConnecting" /\ misses = 0

\* The connect completes, then the peer acknowledges the session.
Establish ==
  /\ \/ state = "kConnecting" /\ state' = "kHandshaking"
     \/ state = "kHandshaking" /\ state' = "kHealthy"
  /\ UNCHANGED misses

\* One heartbeat is missed: degraded, or failed when it was the last allowed.
Miss ==
  /\ state \in Live
  /\ misses' = misses + 1
  /\ state' = IF misses' < MaxMissedHeartbeats THEN "kDegraded" ELSE "kFailed"

\* Proof of life: all misses are forgiven at once.
Heard ==
  /\ state \in Live
  /\ state' = "kHealthy" /\ misses' = 0

\* The connection is lost for another reason than silence.
Break ==
  /\ state # "kFailed" /\ state' = "kFailed"
  /\ UNCHANGED misses

\* A failed feed comes back only through a new connection.
Reopen ==
  /\ state = "kFailed" /\ state' = "kConnecting"
  /\ misses' = 0

Next == Establish \/ Miss \/ Heard \/ Break \/ Reopen

Spec == Init /\ [][Next]_vars
=============================================================================
