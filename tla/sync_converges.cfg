SPECIFICATION FairSpec
CONSTANTS
  Devices = {d1, d2}
  Names = {a}
  MaxSuffix = 1
  Format = "pass"
  Operations <- InPlaceOps
  MaxCommits = 3
  MaxCrashes = 1
  MaxFaults = 1
  MaxRewrites = 1
PROPERTIES NeverForcePushes Convergence
CHECK_DEADLOCK FALSE
