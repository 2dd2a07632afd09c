CONSTANTS
    Actors = {alice}
    Actions = {a1}
    Sessions = {s1, s2}
    ProposalTypes = {"doc_append"}
    DirectAllowed = TRUE
    Ttl = 1
    MaxTime = 1
    None = None
    Events = {e1}
SPECIFICATION CardSpec
INVARIANTS
    OneOutcome
    ToastsAreBacked
PROPERTIES
    LoopGoesOn
