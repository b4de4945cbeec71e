\* One import whose commit, its own record and the guard's record all fail.
SPECIFICATION PgSpec
CONSTANTS
  PgBases = {"b1"}
  PgFiles = {"f1"}
  PgShas = {"s1"}
  PgMaxDocs = 1
  PgMaxJobs = 1
  PgMaxTasks = 1
  PgMaxFaults = 1
  PgMaxLost = 2
  PgMaxCommands = 1
  PgEmbeds = TRUE
INVARIANT
  GuardUnsticks
CHECK_DEADLOCK FALSE
