CONSTANTS
  Input <- Silent
  MaxBuffer = 1
  ReadSize = 1
  Stops = TRUE
SPECIFICATION FairSpec
PROPERTY StopHonoured
