CONSTANTS
  Intervals = {1}
  Timeouts = {2}
  MaxMissedHeartbeats = 2
  AckedWindow = 2
  MaxWritePending = 2
  MaxReadAccum = 1
  Commands = {"disconnect", "reconnect", "set_interval", "set_timeout"}
  Faults = {"close", "reset", "short_write", "duplicate"}
  ForgedMessages <- Honest
  TickGap = 1
  MaxTime = 2
  MaxInbox = 2
  MaxAcks = 4
SPECIFICATION Spec
INVARIANTS
  HonestPeerNeverViolates
  AckMemoryExact
  AckedOncePerWindow
