SPECIFICATION Spec
CONSTANTS
  Last = 2
  Names = {w}
  Dirs <- TwoDirs
  Home <- OneNested
  Keys <- BothKeys
  Own <- OwnKey
  w = w
  own = own
  other = other
  Formats = {"pass"}
  SelfMoves = TRUE
  MaxTexts = 2
  MaxPulls = 0
  MaxFailures = 0
  MaxCrashes = 0
INVARIANT EveryVersionKept
CHECK_DEADLOCK FALSE
