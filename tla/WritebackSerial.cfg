CONSTANTS
    Actors = {alice, bob}
    Actions = {a1, a2}
    Sessions = {s1}
    ProposalTypes = {"doc_append", "message_send", "sheet_write_range"}
    DirectAllowed = TRUE
    Ttl = 1
    MaxTime = 2
    None = None
SYMMETRY Symmetry
SPECIFICATION Spec
INVARIANTS
    StatusTellsTheTruth
    RevertedMeansUndone
PROPERTIES
    LifecycleSpec
