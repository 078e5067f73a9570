SPECIFICATION MCFairSpec

CONSTANTS
  k1 = k1
  k2 = k2
  a = a
  b = b
  Keys = {k1, k2}
  Contents = {a, b}
  Absent = Absent
  Stores = {s1, s2}
  NoStore = NoStore
  Reverts = FALSE
  Racing = TRUE
  MaxChanges = 2
  MaxSwitches = 1
  MaxFailures = 1

INVARIANTS
  FreshIsCurrent
  OwnFiles

PROPERTIES
  CatchesUp
