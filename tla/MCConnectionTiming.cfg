CONSTANTS
  Intervals = {2}
  Timeouts = {2}
  MaxMissedHeartbeats = 2
  AckedWindow = 2
  MaxWritePending = 2
  MaxReadAccum = 2
  Commands = {}
  Faults = {}
  ForgedMessages <- Garbled
  TickGap = 1
  MaxTime = 9
  MaxInbox = 1
  MaxAcks = 8
SPECIFICATION Spec
INVARIANTS
  TypeOK
  SilenceBounded
  DeadPeerDetected
  MissesMatchState
PROPERTIES
  FailureIsEarned
  ImplementsLifecycle
