CONSTANTS
    MaxSteps = 3
    Histories <- SomeHistories
    Drafts <- SomeDrafts
    DraftLists <- SomeDraftLists
    CallLists <- SomeCallLists
    None = None
SPECIFICATION Spec
INVARIANT MemoryOffMeansOff
CHECK_DEADLOCK FALSE
