CONSTANTS
    MaxSteps = 3
    Histories <- SomeHistories
    Drafts <- SomeDrafts
    DraftLists <- SomeDraftLists
    CallLists <- SomeCallLists
    None = None
SPECIFICATION FairSpec
INVARIANTS
    AgentTypeOK
    GroupSeesNothingPersonal
    ProposalsAreSound
    WordsAreTheSenders
PROPERTIES
    RequestEnds
CHECK_DEADLOCK FALSE
