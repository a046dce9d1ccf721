\* Groups in which everybody may rate everybody; the member of one may leave.
\* What one member is shown and sent: the activity page, the digests, the page of
\* an activity, a filtered list, the dialog of categories, the chat beside a page.
SPECIFICATION PartsSpec
CONSTANTS
    Ada = Ada
    Ben = Ben
    Cyd = Cyd
    Dan = Dan
    People = {Ada, Ben, Cyd, Dan}
    Founders = {Ada}
    Acceptance = 1
    WelcomePost = TRUE
    Leavers = {Ben}
    Sleepers = {Ben}
    Overlapping = {}
    MaxRatings = 2
    MaxOpens = 0
    MaxCrashes = 0

INVARIANT CitizensInvariant
INVARIANT PagesInvariant
PROPERTY FirmAreSpared
PROPERTY LawfulDeletion
