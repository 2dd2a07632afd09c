CONSTANTS
    Users = {alice, bob}
    Admin = Admin
    Links = {l1}
    Requests = {r1, r2}
    Scopes = {read}
    Required = {read}
    Needs = {{{read}}}
    Lives = {1}
    RefreshLives = {None, 1}
    LinkTtl = 1
    Margin = 0
    MaxTime = 1
    None = None
SYMMETRY Symmetry
SPECIFICATION Spec
INVARIANTS
    LatestGrantStands
PROPERTIES
    LinkSettles
    OwnerSettles
    RefreshTokenStays
