SPECIFICATION NodeSpec

CONSTANTS
  main = main
  here = here
  k1 = k1
  k2 = k2
  a = a
  b = b
  Keys = {k1, k2}
  Contents = {a, b}
  Absent = Absent
  Stores = {s1}
  NoStore = NoStore
  Reverts = FALSE
  Racing = FALSE
  MaxChanges = 0
  MaxSwitches = 0
  MaxFailures = 0
  GitSources <- MCGitSources
  NoAnswer = NoAnswer
  MaxKindSwitches = 2

INVARIANTS
  OneStore
