SPECIFICATION GFairSpec

CONSTANTS
  main = main
  dev = dev
  here = here
  Sources <- MCSources
  Keys = {k1, k2}
  Absent = Absent
  NoAnswer = NoAnswer
  MaxCommits = 1
  MaxRewrites = 1
  MaxSwitches = 2
  MaxFailures = 2

INVARIANTS
  GTypeOK

PROPERTIES
  RefinesStore
  FollowsTip
