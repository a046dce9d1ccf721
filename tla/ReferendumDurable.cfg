\* Redis keeps its data; requests and the command may fail.
SPECIFICATION VotingSpec
CONSTANTS
    ann = ann
    bob = bob
    annYes = annYes
    annNo = annNo
    bobNo = bobNo
    Voters <- MCVoters
    Requests <- MCRequests
    VoterOf <- MCVoterOf
    ChoiceOf <- MCChoiceOf
    EarlyRequests <- NoEarly
    MaxAttempts = 2
    MayOverlap = FALSE
    MaxRequestFaults = 2
    MaxCommandFaults = 1
    MaxRedisRestarts = 0
    MaxWindows = 2
    Processes = {1, 2}
    LastDue = 3
    LaunchBudgets <- MCLaunches
    Addresses = {"ann", "bob"}
    AccountIds = {1, 2, 3}
    AccountBudgets <- MCAccounts
    Signs = {1, 2}
    Visits = {1, 2}
    LastSign = 3
    SignBudgets <- MCSigns
    Lookups = {1, 2}
    Cities = {"Radom"}
    LastSecond = 3
    Places <- Inhabited
    Replies <- Found
    MapBudgets <- MCLookups
INVARIANT ReferendumInvariant
INVARIANT TallyFaithful
INVARIANT SurroundingsInvariant
INVARIANT MembersInvariant
PROPERTY VotesAreKept
PROPERTY ImplementsBallot
\* Every request answered and the referendum decided: nothing is left to do.
CHECK_DEADLOCK FALSE
