\* One slot beside a message of the user, with a storage fault.
SPECIFICATION Spec
CONSTANTS
  Jobs = {j1}
  Recurring = {}
  UserRuns = {u1}
  conv = conv
  Conversations <- OneConversation
  Archivable = {}
  ConvOf <- SharedConversation
  MaxTime = 1
  AllowRecovery = TRUE
  MaxCrashes = 0
  MaxFaults = 1
INVARIANT
  ScheduledRunAttended
PROPERTY
  EndsAreFinal
