SPECIFICATION Spec
CONSTANTS
  Devices = {d1, d2}
  Names = {a}
  MaxSuffix = 1
  Format = "passage"
  Operations <- SingleEntryOps
  MaxCommits = 4
  MaxCrashes = 0
  MaxFaults = 0
  MaxRewrites = 0
PROPERTY KeepBothLosesNothing
