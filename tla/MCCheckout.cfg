SPECIFICATION MCSpec

CONSTANTS
  ka = ka
  kb = kb
  a = a
  b = b
  web = web
  webService = webService
  dbPod = dbPod
  dbPodService = dbPodService
  env = env
  pruneContainer = pruneContainer
  Prune = Prune
  Meta = Meta
  Absent = Absent
  Torn = Torn
  Names = {ka, kb, Meta}
  FileNames = {web, webService, dbPod, dbPodService, env, pruneContainer, Prune}
  Services = {webService, dbPodService, Prune}
  Inputs <- MCInputs
  Manifests <- MCManifests
  FileSets <- MCFileSets
  MaxVersions = 2
  MaxKeys = 2
  MaxEdits = 2
  MaxFailures = 1

INVARIANTS
  SecretsOfOneVersion
  DoneIsReadable
  OneFilePerService

PROPERTY ListedStay
