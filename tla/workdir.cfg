SPECIFICATION Spec
CONSTANTS
  Names = {a}
  MaxSuffix = 1
  Format = "passage"
  MaxEdits = 4
  MaxUpsets = 1
INVARIANTS TypeOK SavedSurvives CleanBetweenCalls
PROPERTY CommitsOnlyItsPaths
CHECK_DEADLOCK FALSE
