------------------------------ MODULE MCConfig ------------------------------
(* A small instance of Config for TLC.                                     *)
EXTENDS Config, TLC

CONSTANTS Debug

Pair(k, t) == [kind |-> "pair", key |-> k, text |-> t]
Set(f, t) == [opt |-> "set", field |-> f, text |-> t]
Feed(id, port) == [opt |-> "feed", feed |-> ("id" :> id) @@ ("port" :> port)]
File(opens) == [opt |-> "config", opens |-> opens]

\* 1024 is 0 as an int, and one more than the largest feed id.
SomeLines ==
  {[kind |-> "section"], [kind |-> "other"],
   Pair("id", 1), Pair("id", 1024), Pair("port", 1),
   Pair("max_missed_heartbeats", 1024), Pair("heartbeat_interval", 0)}

\* zero or less is taken, 512 does not fit an int.
SomeTyped == {-1, 7, 512}

SomeOptions ==
  {File(TRUE), File(FALSE), [opt |-> "help"],
   Feed(1, 2), Feed(2, 0),
   Set("max_missed_heartbeats", 5), Set("heartbeat_interval", Blank),
   Set("max_reconnect_attempts", 1023), Set("log_level", Debug)}
=============================================================================
