SPECIFICATION AFairSpec

CONSTANTS
  web = web
  db = db
  k1 = k1
  k2 = k2
  Cadres = {web, db}
  Keys = {k1, k2}
  None = None
  Torn = Torn
  BadFile = BadFile
  Contents <- MCContents
  MaxRevs = 2
  MaxFailures = 1
  MaxTouches = 2

INVARIANTS
  ATypeOK
  HealthyRowIsTrue
  PrintedIsIdentity

PROPERTIES
  EachConverges
  GoneInTheEnd
