SPECIFICATION Spec
CONSTANTS
  Names = {a}
  MaxSuffix = 1
  Format = "passage"
  MaxEdits = 3
  MaxUpsets = 1
PROPERTY StagesGivenPaths
CHECK_DEADLOCK FALSE
