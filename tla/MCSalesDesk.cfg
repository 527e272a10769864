SPECIFICATION MCSpec
CONSTANTS
    Parts = {"won", "board", "deals", "quotes", "review"}
    \* WonDeals
    deal1 = deal1
    ann = ann
    x1 = x1
    x2 = x2
    Deals = {deal1}
    Person = {ann}
    Executor = {x1, x2}
    Entry = {1, 2}
    MaxStageMoves = 2
    MaxAmsEdits = 1
    MaxWonFaults = 1
    \* OpportunityBoard
    auto = auto
    opp1 = opp1
    spring = spring
    fall = fall
    Row = {1, 2, 3}
    Line = {auto}
    Opp = {opp1}
    Quote = {spring, fall}
    Absent = Absent
    LineOf <- MCOneLine
    TypeOf <- MCTypes
    TermOf <- MCTerms
    AmsLine <- MCOppLine
    Start <- MCBoards
    Cast <- MCCasts
    MaxMoves = 1
    MaxFaults = 1
    \* NewDeals
    Clients = {c1}
    Lines = {1, 2}
    Stations = {d1, d2}
    MaxCommits = 2
    MaxDealFaults = 1
    NoDeal = NoDeal
    \* QuoteDesk
    QuoteTerms <- MCQuoteTerms
    MaxQuotes = 2
    MaxSends = 2
    MaxUploads = 1
    MaxQuoteFaults = 1
    \* ReviewDesk
    Entries = {"xdate", "address"}
    Extracted = {"xdate"}
    Required = {"xdate", "address"}
    Kinds = {"acord_data", "carrier_shortlist"}
    Readings <- MCUploads
    Typed = {"may", ""}
    Blank = ""
    MaxReviewCalls = 5
    MaxReviewFaults = 2
CHECK_DEADLOCK FALSE
INVARIANTS
    WonSafe
    BoardSafe
    NewDealsSafe
    QuoteSafe
    ReviewSafe
PROPERTIES
    FiledOnce
    WorkedSpared
    NothingLost
