\* An edit overlaps the command.
SPECIFICATION OneSpec
CONSTANTS
    Law = Law
    Other = Other
    Ada = Ada
    Ben = Ben
    Motions = {Law}
    People = {Ada}
    Proposes <- NoParameters
    Required = 1
    SignatureDays = 3
    DiscussionDays = 1
    ReferendumDays = 1
    Leavers = {}
    Overlapping = {"edit"}
    MaxEdits = 1
    MaxOpens = 1
    MaxMissed = 0
    MaxFailures = 0
PROPERTY TextIsFixed
