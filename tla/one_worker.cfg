\* One worker slot, a resumable task and a task of an unknown kind.
SPECIFICATION Spec
CONSTANTS
  Tasks = {t1, t2}
  Known = {t1}
  Resumable = {t1}
  MaxClaims = 2
  MaxWorkers = 1
  MaxAttempts = 2
  MaxFaults = 1
INVARIANTS
  RunningIsOwned
  PlannedWritesFresh
PROPERTIES
  CancelNeverRerun
