CONSTANTS
    Actors = {alice}
    Actions = {a1}
    Sessions = {s1, s2}
    ProposalTypes = {"message_send"}
    DirectAllowed = FALSE
    Ttl = 1
    MaxTime = 0
    None = None

SPECIFICATION Spec
INVARIANTS
    AtMostOneWrite
