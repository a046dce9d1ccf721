\* One request at a time.  Two laws that may abolish one another, and a command that
\* may fail; two parameter motions, and a command that may miss a day.
SPECIFICATION OrderlySpec
CONSTANTS
    Law = Law
    Other = Other
    Ada = Ada
    Ben = Ben
    Motions = {Law, Other}
    People = {Ada, Ben}
    Proposes <- BothPropose
    Required = 2
    SignatureDays = 1
    DiscussionDays = 1
    ReferendumDays = 2
    Leavers = {}
    Overlapping = {}
    MaxEdits = 1
    MaxOpens = 0
    MaxMissed = 1
    MaxFailures = 1
SYMMETRY Alike
INVARIANT MotionInvariant
INVARIANT SignaturesAreCounted
INVARIANT LatestDecisionRules
PROPERTY TextIsFixed
PROPERTY StagesAreEarned
