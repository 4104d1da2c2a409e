SPECIFICATION Spec
CONSTANTS
  Devices = {d1, d2}
  Names = {a, b}
  MaxSuffix = 1
  Format = "passage"
  Operations <- AllOps
  MaxCommits = 3
  MaxCrashes = 1
  MaxFaults = 1
  MaxRewrites = 0
INVARIANT PublishedOnce
PROPERTY ImplementsLog
