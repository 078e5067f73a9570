SPECIFICATION MCSpec

CONSTANTS
  n1 = n1
  n2 = n2
  east = east
  west = west
  Hosts = {n1, n2}
  NodeOrder <- MCNodeOrder
  Global = None
  Lima <- MCLima
  Conns <- MCConns
  Types = {1, 2}
  HostKey <- MCHostKey
  KeySets <- MCKeySets
  Options <- MCOptions
  Archs <- MCArchs
  Released = {"amd64"}
  ArchOf <- MCArchOf
  None = None
  Torn = Torn
  Mixed = Mixed
  MaxRuns = 2
  MaxFailures = 1
  MaxChanges = 1

INVARIANTS
  DTypeOK
  OkIsDeployed
  KeepsWorking
  CleanRunSucceeds

PROPERTIES
  TrustOnce
  NotLockedOut
  Returns

CHECK_DEADLOCK FALSE
