\* The knowledge modules side by side.
SPECIFICATION MCSpec
CONSTANTS
  b1 = b1
  b2 = b2
  b3 = b3
  s1 = s1
  s2 = s2
  PgBases <- MCPgBases
  PgFiles = {f1}
  PgShas <- MCPgShas
  PgMaxDocs = 2
  PgMaxJobs = 2
  PgMaxTasks = 3
  PgMaxFaults = 1
  PgMaxLost = 2
  PgMaxCommands = 3
  PgEmbeds = TRUE
  Configs = {c1, c2, c3}
  Unset = Unset
  MaxSettingFaults = 2
  MaxSecretFaults = 1
  MaxExits = 1
  MaxConfigures = 3
  Tasks = {t1}
  MuTask = t1
  MaxClaims = 3
  MuChunks = {k1, k2}
  MuMaxAttempts = 2
  MuMaxFaults = 1
  MuMaxCommands = 2
  LkBases <- MCPgBases
  LkMaxDocs = 2
SYMMETRY Interchangeable
INVARIANTS
  ActiveVersionIsCurrent
  ActiveJobIsAttended
  StoredPairFits
  CheckpointNeverAhead
  EvidenceIsCurrent
PROPERTY
  KeepsPromise
CHECK_DEADLOCK FALSE
