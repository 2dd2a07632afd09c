CONSTANTS
    Actors = {alice, bob}
    Actions = {a1}
    Sessions = {s1, s2}
    ProposalTypes = {"doc_append"}
    DirectAllowed = TRUE
    Ttl = 1
    MaxTime = 1
    None = None
SPECIFICATION FairSpec
INVARIANTS
    TypeOK
    ReportedMeansWritten
    WritesBoundedByRace
PROPERTIES
    OnlyOwnerDecides
    ConfirmedSettles
    SuccessIsRecorded
\* Both sessions may want a second action key, which this instance lacks.
CHECK_DEADLOCK FALSE
