CONSTANTS
  f1 = f1
  f2 = f2
  InitialFeeds <- TwoFeeds
  Feeds = {f1, f2}
  Fds = {1, 2, 3}
  MaxReconnectAttempts = 1
  AttemptCap = 1
  Commands = {"disconnect", "reconnect", "add", "remove"}
  Faults = {"socket", "epoll_ctl"}
SPECIFICATION Spec
INVARIANTS
  TypeOK
  FeedIndexExact
  LiveSlotReachable
  ReportedSlotDetached
  RetryBookkeeping
  RetryBudget
  OneAlertPerFailure
