\* One slot beside a message of the user, without faults or recovery.
SPECIFICATION FairSpec
CONSTANTS
  Jobs = {j1}
  Recurring = {}
  UserRuns = {u1}
  conv = conv
  Conversations <- OneConversation
  Archivable <- OneConversation
  ConvOf <- SharedConversation
  MaxTime = 1
  AllowRecovery = FALSE
  MaxCrashes = 0
  MaxFaults = 0
PROPERTY
  EventSettles
