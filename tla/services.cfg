\* The modules of the Agent and its services side by side.
SPECIFICATION MCSpec
CONSTANTS
  AgentTools = {read, write, submit}
  Automatic = {read, submit}
  Idempotent = {read}
  ParallelRead = {read}
  Detached = {submit}
  ArMaxCalls = 2
  MaxModelCalls = 2
  MaxRecoveries = 2
  ArMaxCrashes = 1
  MaxResults = 2
  ArMaxCommands = 1
  ChRuns = {r1, r2}
  Kids = {k1}
  Mails = {1}
  ChildLimit = 1
  ChMaxFaults = 2
  Window = 12
  Framing = 1
  PerCall = 1
  Marker = 1
  TodoRounds = 2
  CbRounds = 2
  CbInputs = 1
  CbTexts <- MCCbTexts
  PsMaxDeltas = 2
  PsMaxRetries = 1
  PsMaxRepairs = 1
  PsMaxJunk = 1
  Convs = {c1, c2}
  CvJobs = {g1}
  CvMaxMessages = 3
  CvMaxEdits = 1
  SummaryTrigger = 2
  SummaryKeepTail = 1
  RecentLimit = 2
  MemIds = {m1, m2}
  Statements = {s1, s2}
  SuggestLimit = 1
  Profiles = {p1}
  Credentials = {"A", "B"}
  Kinds = {"deepseek", "mineru"}
  Capabilities = {"chat"}
  MAX_SECRET_GENERATION = 3
  PfMaxSecrets = 2
  PfMaxFaults = 1
  McpCmds = {k1, k2}
  EnvNames = {"X", "Y"}
  McpMaxFaults = 1
  StreamMessages = 4
  MaxRetries = 3
  MaxAnswers = 4
INVARIANTS
  ToolCallRunsOnce
  ResultsReachTheModel
  MailHasOneReader
  RequestIsWellFormed
  CompleteOrFailed
  ShownIsKept
  SummaryIsAnchored
  SwitchTellsTheTruth
  CredentialIsIntended
  FailedCommandLeavesStore
  MessagesInOrder
PROPERTY
  EndedChildStaysEnded
CHECK_DEADLOCK FALSE
