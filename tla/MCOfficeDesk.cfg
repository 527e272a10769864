SPECIFICATION MCSpec
CONSTANTS
    Parts = {"scan", "briefings", "events", "cases", "writes", "inbox", "backfill", "health", "shared", "api", "agent", "reports"}
    \* CommissionScan
    SeedSince = 2
    ScanDay = 3
    Drift = 5
    NoRow = NoRow
    \* Briefings
    Runs = {1, 2}
    ReportJobs = {"sentinel"}
    LastReportDay = 7
    MonthDays = 3
    MaxLosses = 1
    \* RenewalEvents
    NewYear = 6
    Aep = 3
    Window = 3
    Align = 1
    Floor = 2
    Term = 4
    LastDate = 5
    MaxTerms = 3
    MaxBookMoves = 2
    \* RenewalCases
    Event <- MCEvent
    Client <- MCClient
    Expires <- MCExpires
    Today = 2
    Horizon = 1
    Grace = 1
    Cap = 1
    Asker = {k1, k2}
    Sentinel = {s1}
    NoEvent = NoEvent
    MaxCaseFaults = 1
    MaxCaseMoves = 3
    \* RenewalWrites
    JobDomain <- MCRenewalJobs
    MaxRuns = 2
    MaxEdits = 2
    \* StatementInbox
    Document <- MCDocument
    Uploader = {"ann"}
    Approvers = {"ann", "bob"}
    MaxApprovals <- MCMaxApprovals
    PollLimit = 2
    MaxPages = 1
    MaxHandled = 2
    MaxInboxFaults = 1
    LastTime = 5
    \* ZohoBackfill
    Names = {"Ann", "Bob"}
    Numbers = {"N1", "N2"}
    BackfillDay = 1
    RenewalDays = 3
    UrgentDays = 0
    RiskDays = 1
    FlagSets = {{}, {"skip_policies", "limit"}, {"dry_run", "skip_nextcloud"}}
    MaxBackfills = 2
    MaxBackfillFaults = 1
    MaxMomentumEdits = 1
    \* BookHealth
    Guids = {1, 2, 3}
    NumberOf <- MCNumberOf
    HealthPage = 1
    MaxHealthPages = 5
    CountTolerance = 2
    MaxHealthEdits = 2
    \* SharedDesk
    Asks <- MCAsks
    SameTitle <- MCSameTitle
    DriveBase <- MCBase
    MaxAsks = 3
    MaxDriveFaults = 1
    \* ApiClients
    Threads = {t1, t2}
    Retries = 2
    MaxCalls = 3
    MaxHiccups = 2
    NoThread = NoThread
    \* AgentTurn
    Callers = {c1}
    Disabled = {"web_research", "client_policies"}
    KeepsToEnum = TRUE
    MaxTurns = 2
    MaxDrafts = 2
    \* BookReports
    Shot = {r1, r2}
    RetentionWindow = 2
    SuccessorGrace = 1
    Slips <- MCSlips
    TermDays = 2
    LastSnapshotDay = 2
    MaxShelf = 3
    MaxShelfMoves = 2
    MaxShots = 2
CHECK_DEADLOCK FALSE
INVARIANTS
    ScanSafe
    BriefingsSafe
    RenewalFollowedOnce
    AnswersAgree
    RenewalWritesSafe
    InboxSafe
    CopiesSafe
    DriveSafe
    ClientsSafe
    SnapshotsSafe
PROPERTIES
    SilentLapseListed
