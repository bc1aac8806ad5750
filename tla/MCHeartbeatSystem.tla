-------------------------- MODULE MCHeartbeatSystem --------------------------
(* A small instance of HeartbeatSystem for TLC.                            *)
EXTENDS HeartbeatSystem

\* Connection's own free peer sends nothing here.
Honest == {}
=============================================================================
