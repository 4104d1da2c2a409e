SPECIFICATION Spec
CONSTANTS
  Last = 2
  Names = {w}
  Dirs <- TwoDirs
  Home <- OneNested
  Keys <- BothKeys
  Own <- OwnKey
  w = w
  own = own
  other = other
  Formats = {"passage", "pass"}
  SelfMoves = FALSE
  MaxTexts = 4
  MaxPulls = 1
  MaxFailures = 1
  MaxCrashes = 1
INVARIANTS TypeOK EveryVersionKept RemovedKeysStayOut
PROPERTY ReencryptedExactly
CHECK_DEADLOCK FALSE
