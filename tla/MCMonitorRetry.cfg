CONSTANTS
  f1 = f1
  f2 = f2
  InitialFeeds <- TwoFeeds
  Feeds = {f1, f2}
  Fds = {1, 2, 3}
  MaxReconnectAttempts = 1
  AttemptCap = 1
  Commands = {"disconnect", "reconnect"}
  Faults = {"send"}
SPECIFICATION FairSpec
INVARIANT LiveSlotReachable
PROPERTY ReportedFailureRetried
