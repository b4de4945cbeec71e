SPECIFICATION RestoreSpec
CONSTANTS
  Tasks = {t1}
  Known = {t1}
  Resumable = {t1}
  MaxClaims = 2
  MaxWorkers = 1
  MaxAttempts = 2
  MaxFaults = 0
PROPERTY
  ShutdownFencesStaleHandler
