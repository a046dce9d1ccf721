\* One instance of each part of the site that shares no state with the others.
SPECIFICATION SiteSpec
CONSTANTS
    a = a
    b = b
    c = c
    k1 = k1
    k2 = k2
    k3 = k3
    x = x
    y = y
    z = z
    Users = {a, b, c}
    Creator = a
    TeamSizes = {1, 2}
    MaxSteps = 4
    MaxOpens = 2
    Treasurers = {b, c}
    Categories = {x, y}
    Partners = {z}
    Assets = {a}
    ProtectedRows = {y}
    Amounts = {1}
    MaxTransactions = 2
    LedgerRequests = 4
    Voters = {a}
    Texts = {k1, k2, k3}
    MaxOptions = 4
    SurveyRequests = 3
    Members = {x, y, z}
    Names = {1}
    MaxListings = 2
    MaxPosted = 3
    Citizens = {x, y}
    Founders = {x}
    MaxPending = 2
    MaxAsked = 4
INVARIANT PhaseFollows
INVARIANT ListedOnce
INVARIANT BoardInvariant
INVARIANT FiguresInvariant
PROPERTY ImplementsOutline
PROPERTY RequestsAreFair
SYMMETRY Alike
CHECK_DEADLOCK FALSE
