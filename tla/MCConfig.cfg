CONSTANTS
  IntRange = 1024
  PortRange = 16
  Blank = Blank
  Info = Info
  Debug = Debug
  Levels = {Info, Debug}
  FeedKeys = {"id", "port"}
  Lines <- SomeLines
  Options <- SomeOptions
  Typed <- SomeTyped
  MaxLines = 5
  MaxOptions = 2
SPECIFICATION Spec
INVARIANTS TypeOK Precedence FeedsExact
CHECK_DEADLOCK FALSE
