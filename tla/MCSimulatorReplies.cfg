CONSTANTS
  Sessions = {s1, s2}
  Fds = {1}
  HeartbeatTimeout = 2
  Delays = {1, 2}
  MaxWritePending = 2
  MaxReadAccum = 3
  Commands = {"kill"}
  Faults = {"close", "short_write"}
  TickGap = 1
  MaxTime = 3
  MaxPings = 2
SPECIFICATION Spec
SYMMETRY SessionSymmetry
INVARIANTS TypeOK DeferredReplyFindsAsker RepliesExact UnsentBytesArmed
