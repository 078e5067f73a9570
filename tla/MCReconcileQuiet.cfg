CONSTANTS
  web = web
  db = db
  backup = backup
  job = job
  env = env
  conf = conf
  cWeb = cWeb
  cDb = cDb
  cDb2 = cDb2
  cTimer = cTimer
  cJob = cJob
  cJobInstall = cJobInstall
  v1 = v1
  v2 = v2
  token = token
  pw1 = pw1
  pw2 = pw2
  reg = reg
  small = small
  uid1 = uid1
  uid2 = uid2
  Quadlets = {web, db}
  Activators = {backup}
  Services = {job}
  Supports = {env, conf}
  Contents = {cWeb, cDb, cDb2, cTimer, cJob, cJobInstall, v1, v2}
  Installs = {cTimer, cJobInstall}
  Secrets = {token}
  Values = {pw1, pw2}
  Registries = {reg}
  Limits = {NoLimits, small}
  NoLimits = NoLimits
  Uids = {uid1, uid2}
  NoUid = NoUid
  Absent = Absent
  Torn = Torn
  FileRefs <- MCFileRefs
  SecretRefs <- MCSecretRefs
  Hidden <- MCHidden
  Cadres <- Changing
  ChangeWhen = "converged"
  ReuseUid = FALSE
  MaxAborts = 0
  MaxStopFails = 2
  MaxDeletions = 0
SPECIFICATION FairSpec
PROPERTIES
  Converges
  RestartsHaveReason
