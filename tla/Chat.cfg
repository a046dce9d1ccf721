\* The queue: one worker, three messages, a crash and a failed delivery.
\* The other parts: the instances of MCChat.
SPECIFICATION ChatSpec
CONSTANTS
    one = one
    a = a
    b = b
    c = c
    k1 = k1
    k2 = k2
    k3 = k3
    k4 = k4
    Workers = {one}
    MaxJobs = 3
    MaxOpenings = 1
    MaxCrashes = 1
    MaxFailures = 1
    MaxSlow = 0
    Tabs = {a, b}
    RoomMessages = 2
    RoomMoves = 4
    People = {a, b, c}
    Names = {k1, k2, k3, k4}
    FirstNames <- MCFirstNames
    Openers = {1, 2}
    MaxRooms = 3
    MaxSuffix = 1
    DirectMoves = 4
    Sites = {a, b}
    MaxKey = 2
    SiteMessages = 1
    MaxCopies = 2
    MaxSettings = 5
    Rooms = {a, b}
    ScreenMoves = 3
    MaxDrops = 2
    MaxBarred = 1
    Members = {a, b}
    Author = a
    MaxText = 2
    MessageMoves = 2
    Users = {a, b}
    Budgets <- MCBudgets
INVARIANT QueueInvariant
INVARIANT MutualExclusion
INVARIANT ChatInvariant
INVARIANT DirectRoomsInvariant
INVARIANT FederationInvariant
INVARIANT ChatViewInvariant
INVARIANT MessagesInvariant
INVARIANT PushInvariant
PROPERTY OncePerHour
PROPERTY PushesAreTimely
PROPERTY Heard
CHECK_DEADLOCK FALSE
