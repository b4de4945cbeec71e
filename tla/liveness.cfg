\* One task, retried and polled, with one crash or storage fault.
SPECIFICATION FairSpec
CONSTANTS
  Tasks = {t1}
  Known = {t1}
  Resumable = {t1}
  MaxClaims = 2
  MaxWorkers = 1
  MaxAttempts = 2
  MaxFaults = 1
PROPERTIES
  ShutdownCompletes
  LostClaimStaysLost
  RunningSettles
  ImplementsLifecycle
  DueTaskClaimed
