\* Two slots of one schedule, with a crash and recovery.
SPECIFICATION Spec
CONSTANTS
  Jobs = {j1}
  Recurring = {j1}
  UserRuns = {}
  conv = conv
  Conversations <- OneConversation
  Archivable = {}
  ConvOf <- SharedConversation
  MaxTime = 2
  AllowRecovery = TRUE
  MaxCrashes = 1
  MaxFaults = 0
INVARIANTS
  WithdrawnNeverRuns
  OneScheduledRun
  DeliveredIsCompleted
