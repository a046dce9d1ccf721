\* Edits and deletions overlap one another and the command; or the command breaks off
\* and an author leaves.
SPECIFICATION OverlapSpec
CONSTANTS
    Law = Law
    Other = Other
    Ada = Ada
    Ben = Ben
    Motions = {Law, Other}
    People = {Ada}
    Proposes <- NoParameters
    Required = 1
    SignatureDays = 1
    DiscussionDays = 1
    ReferendumDays = 1
    Leavers = {}
    Overlapping = {"edit","delete"}
    MaxEdits = 1
    MaxOpens = 1
    MaxMissed = 0
    MaxFailures = 0
PROPERTY VotersKnowTheText
PROPERTY ClosesUnlessDangling
