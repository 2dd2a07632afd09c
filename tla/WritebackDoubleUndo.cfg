CONSTANTS
    Actors = {alice}
    Actions = {a1, a2, a3}
    Sessions = {s1}
    ProposalTypes = {"sheet_write_range"}
    DirectAllowed = FALSE
    Ttl = 1
    MaxTime = 0
    None = None

SPECIFICATION Spec
INVARIANTS
    UndoneAtMostOnce
