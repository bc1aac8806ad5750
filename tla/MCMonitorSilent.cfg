CONSTANTS
  f1 = f1
  f2 = f2
  InitialFeeds <- TwoFeeds
  Feeds = {f1, f2}
  Fds = {1, 2, 3}
  MaxReconnectAttempts <- Unlimited
  AttemptCap = 0
  Commands = {}
  Faults = {"send"}
SPECIFICATION FairSpec
PROPERTY EveryFailureRetried
