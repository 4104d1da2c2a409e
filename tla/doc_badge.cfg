SPECIFICATION Spec
CONSTANTS
  Devices = {d1, d2}
  Names = {a}
  MaxSuffix = 0
  Format = "passage"
  Operations <- SaveOnly
  MaxCommits = 3
  MaxCrashes = 0
  MaxFaults = 0
  MaxRewrites = 0
INVARIANT BadgeIsHonest
