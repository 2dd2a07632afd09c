SPECIFICATION Spec
CONSTANTS
  Requests <- TheRequests
  Worlds <- TheWorlds
  Indexes <- TheIndexes
  PlannerPlans <- ThePlans
  SearchLimit = 2
  ReadLimit = 1
  MaxMultiQueryResults = 3
  MaxMergedQueries = 3
  MaxPlannerQueries = 2
  MaxSheetRows = 8
  MaxSheetColumns = 3
  MaxRecords = 4
  MaxIndexed = 3
  ResultLimit = 2
  MaxVariants = 3
  MaxWebRedirects = 1
  WordSize <- TheWordSize
  GenericWords = {"q3"}
  FieldTitles <- Names
  Resources <- TheResources
  AllowedHosts = {}
  BlockedHosts = {"closed"}
CHECK_DEADLOCK FALSE
INVARIANTS
  AssistantTypeOK
  AnswersAreGrounded
  PreviewsFollow
  WordsAreFollowed
  NothingElseIsOverwritten
  WritesAreAskedFor
