CONSTANTS
    Users = {ann}
    Admin = ann
    Groups = {group}
    Messages = {1, 2}
    Sessions = {s1, s2}
    Window = 1
    Limit = 2
    SummaryMax = 2
    CacheTtl = 0
    Refresh = 1
    Recent = 1
    MaxTime = 1
    None = None
SPECIFICATION Spec
SYMMETRY Symmetry
INVARIANTS
    NothingCrosses
    OffMeansOff
PROPERTIES
    LinesAreKept
