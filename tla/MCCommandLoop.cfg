CONSTANTS
  Input <- Typed
  MaxBuffer = 3
  ReadSize = 2
  Stops = TRUE
SPECIFICATION FairSpec
INVARIANTS TypeOK InputConserved LinesIntact InputNoticed
PROPERTIES InputRuns StopReturns
