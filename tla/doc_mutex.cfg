SPECIFICATION Spec
CONSTANTS
  Names = {a}
  MaxSuffix = 1
  Format = "passage"
  MaxEdits = 3
  MaxUpsets = 0
INVARIANT SafeAlongside
CHECK_DEADLOCK FALSE
