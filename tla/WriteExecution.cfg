SPECIFICATION Spec
CONSTANTS
    Jobs <- MCJobs
    Batches <- MCBatches
    JobType <- MCJobType
    Values <- MCValues
    Rendered <- MCRendered
    Formulas <- MCFormulas
    JobValues <- MCJobValues
    JobBlocks <- MCJobBlocks
    AtStart = {"top"}
    Rows = {1, 2}
    Columns = {1, 2}
    MaxOthers = 2
    MaxAttempts = 2
INVARIANTS
    ExecutionTypeOK
    UndoLeavesAnOpening
PROPERTIES
    OthersBlocksSurvive
    UndoRestoresWhatWasShown
CHECK_DEADLOCK FALSE
