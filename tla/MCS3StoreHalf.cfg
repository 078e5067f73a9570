SPECIFICATION Spec

CONSTANTS
  k1 = k1
  k2 = k2
  a = a
  b = b
  Keys = {k1, k2}
  Contents = {a, b}
  Absent = Absent
  Stores = {s1}
  NoStore = NoStore
  Reverts = TRUE
  Racing = FALSE
  MaxChanges = 2
  MaxSwitches = 0
  MaxFailures = 1

SYMMETRY Symmetric

INVARIANTS
  FreshIsCurrent
