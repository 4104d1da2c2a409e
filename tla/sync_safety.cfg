SPECIFICATION Spec
CONSTANTS
  Devices = {d1, d2}
  Names = {a}
  MaxSuffix = 1
  Format = "passage"
  Operations <- SingleEntryOps
  MaxCommits = 4
  MaxCrashes = 1
  MaxFaults = 1
  MaxRewrites = 0
SYMMETRY AnyDevice
INVARIANTS TypeOK ForeignCommitsArePublished
PROPERTY EveryVersionSurvives
