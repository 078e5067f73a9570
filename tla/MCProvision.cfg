SPECIFICATION Spec

CONSTANTS
  Cadres = {web, db}
  Others = {alice}
  Procs = {agent, cli}
  Free = Free
  Nobody = Nobody
  Base = 2
  Count = 2
  MaxId = 9
  Starts = {1, 4}
  MaxDeaths = 1
  MaxOthers = 1

SYMMETRY Symmetric

INVARIANTS
  Isolation
  ReadyMapped

PROPERTIES
  RangesStay
