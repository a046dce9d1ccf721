------------------------------- MODULE MCSite -------------------------------
(* The parts of the site that share no state, on one instance each and in  *)
(* one run: a behaviour is a behaviour of one part, the others at rest.    *)
EXTENDS Tasks, TLC

CONSTANTS
    Treasurers, Categories, Partners, Assets, ProtectedRows, Amounts, MaxTransactions, LedgerRequests,
                                                  \* the ledger
    Voters, Texts, MaxOptions, SurveyRequests,    \* one survey
    Members, Names, MaxListings, MaxPosted,       \* the listings
    Citizens, Founders, MaxPending, MaxAsked,     \* one document of the board
    a, b, c, k1, k2, k3, x, y, z

VARIABLES
    part,
    rows, completed, gesture,
    present, closed, multiple, options, ballots, voters, forms, lenient, lastKey, requests,
    bookkeepers, rowState, ledger, requestsOpen, orphaned, lastTransaction, made,
    active, listings, pending, lastListing, posted,
    system, visibility, room, allowed, citizens, greeting, boardPending, adrift, dormant, asked,
    event, now, reminded, saves

C == INSTANCE Checklist WITH Keys <- 1..3, MaxOrder <- 3

S == INSTANCE Surveys WITH votes <- ballots, open <- forms,
       MaxRequests <- SurveyRequests

B == INSTANCE Bookkeeping WITH accounts <- bookkeepers, lastKey <- lastTransaction,
       Users <- Treasurers, MaxKey <- MaxTransactions, MaxRequests <- LedgerRequests

R == INSTANCE Resources WITH lastKey <- lastListing, made <- posted,
       MaxKey <- MaxListings, MaxMade <- MaxPosted

D == INSTANCE Board WITH pending <- boardPending

E == INSTANCE Events WITH Slots <- 2, Week <- 2, Months <- 2,
       MonthLengths <- <<3, 2, 4, 3, 3, 2, 4, 3>>, Starts <- {0, 1, 4, 5, 10, 11},
       MaxNow <- 30, MaxSaves <- 1

task == <<vars>>
checklist == <<rows, completed, gesture>>
survey == <<present, closed, multiple, options, ballots, voters, forms, lenient, lastKey, requests>>
book == <<bookkeepers, rowState, ledger, requestsOpen, orphaned, lastTransaction, made>>
resource == <<active, listings, pending, lastListing, posted>>
board == <<system, visibility, room, allowed, citizens, greeting, boardPending, adrift, dormant, asked>>
calendar == <<event, now, reminded, saves>>
all == <<part, task, checklist, survey, book, resource, board, calendar>>

SiteInit ==
  /\ part \in {"task", "checklist", "survey", "book", "resource", "board", "calendar"}
  /\ Init /\ (part # "task" => needed = 1)
  /\ C!Init
  /\ S!Init /\ (part # "survey" => multiple /\ options = S!FirstRows(<<k1, k2>>))
  /\ B!Init /\ (part # "book" => rowState[x] = "new")
  /\ R!Init
  /\ D!Init /\ (part # "board" => ~system)
  /\ E!Init

TaskNext == part = "task" /\ Next
            /\ UNCHANGED <<part, checklist, survey, book, resource, board, calendar>>
ChecklistNext == part = "checklist" /\ C!Next
            /\ UNCHANGED <<part, task, survey, book, resource, board, calendar>>
SurveyNext == part = "survey" /\ S!Next
            /\ UNCHANGED <<part, task, checklist, book, resource, board, calendar>>
BookNext == part = "book" /\ B!Next
            /\ UNCHANGED <<part, task, checklist, survey, resource, board, calendar>>
ResourceNext == part = "resource" /\ R!Next
            /\ UNCHANGED <<part, task, checklist, survey, book, board, calendar>>
BoardNext == part = "board" /\ D!Next
            /\ UNCHANGED <<part, task, checklist, survey, book, resource, calendar>>
CalendarNext == part = "calendar" /\ E!Next
            /\ UNCHANGED <<part, task, checklist, survey, book, resource, board>>
SiteNext == TaskNext \/ ChecklistNext \/ SurveyNext \/ BookNext
            \/ ResourceNext \/ BoardNext \/ CalendarNext
SiteSpec == SiteInit /\ [][SiteNext]_all

\* The properties of the parts, each stated in its module.
ImplementsOutline == C!ImplementsOutline
RequestsAreFair == S!SurveyIsFair /\ B!LedgerIsFair /\ R!ListingsAreFair
BoardInvariant == part = "board" => D!BoardInvariant

\* What is computed: the numbers that order a checklist, the dates of an
\* event, the two reports on the ledger.
FiguresInvariant ==
  /\ part = "checklist" => C!WellFormed
  /\ part = "calendar" => E!EventsInvariant
  /\ part = "book" => B!ReportsAgree

\* k1, k2 and k3 are alike to the surveys.
Alike == Permutations({k1, k2, k3})
=============================================================================
