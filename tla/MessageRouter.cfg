CONSTANTS
    Users = {ann}
    Groups = {group}
    Events = {e1, e2}
    Tasks = {t1, t2}
    Providers = {p1}
    Contents <- SomeContents
    Responses <- SomeResponses
    MaxActions = 2
    MaxDeliveries = 2
    Attempts = 2
    Deployments <- SomeDeployments
    None = None
SPECIFICATION Spec
SYMMETRY Symmetry
INVARIANTS
    RouterTypeOK
    KeysAreAccounted
    DirectIsWanted
    RepeatsAreNoticed
    AskedAsPreferred
    NoOrphans
CHECK_DEADLOCK FALSE
