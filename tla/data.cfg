\* The modules of local data, computation, retrieval, the Wiki and backups side by side.
SPECIFICATION MCSpec
CONSTANTS
  Tables <- MCTables
  DsPaths = {"p"}
  CleanPath = "cleaned"
  DsFields = {"f", "g"}
  DsMappings <- MCMappings
  DsCallers = {"agent", "window"}
  DsMaxEdits = 1
  ScJobs = {j1, j2}
  Lineages = {l1}
  Algorithms = {"linear", "transformer"}
  Derived = {"predict", "export"}
  Standalone = {"design"}
  ScMaxAttempts = 2
  ScMaxClaims = 2
  ScMaxFaults = 1
  MaxVersion = 2
  IxVectors = {v1}
  Builders = {B1, B2}
  MaxGenerations = 2
  IxMaxFaults = 1
  SeDocs = {d1}
  SeBases = {"b1", "b2"}
  SeSources = {"A"}
  SeModels = {"m1", "m2"}
  SeMaxEdits = 2
  SeMaxSearches = 1
  Slugs <- MCSlugs
  SourceDocs = {d1}
  Tags = {g1}
  WikiTexts <- MCWikiTexts
  Editors = {e1, e2}
  MaxRevisions = 2
  MaxRequests = 4
  PkgVersions = {"1.0.0", "2.0.0"}
  Bundled = "1.0.0"
  PkgSources <- MCPkgSources
  DpMaxFaults = 2
  BrDocs = {"d1"}
INVARIANTS
  ReadyIsUsable
  DerivedFromFinal
  OpenedGraphMatches
  RebuildServes
  StrictPolicyHolds
  PageShowsLatestRevision
  ActiveDomainHasFiles
  RestoreIsWhole
CHECK_DEADLOCK FALSE
