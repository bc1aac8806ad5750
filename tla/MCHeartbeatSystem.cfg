CONSTANTS
  Intervals = {2}
  Timeouts = {5, 8}
  MaxMissedHeartbeats = 2
  AckedWindow = 1
  MaxWritePending = 2
  MaxReadAccum = 4
  Commands = {}
  Faults = {}
  ForgedMessages <- Honest
  TickGap = 1
  MaxTime = 24
  MaxInbox = 4
  MaxAcks = 12
  SimTimeout = 4
  BatchGap = 1
  MaxDrops = 1
SPECIFICATION SystemSpec
INVARIANTS
  NoFalseAlarm
  LossTolerated
