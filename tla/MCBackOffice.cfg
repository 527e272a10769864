SPECIFICATION MCSpec
CONSTANTS
    Parts = {"book", "money", "tasks"}
    \* LiveBook
    t1 = t1
    t2 = t2
    Policy = {1, 2}
    Thread = {t1, t2}
    PageSize = 1
    MaxChanges = 2
    MaxFailures = 1
    \* CommissionLedger
    RawRow <- MCRawRow
    Statement <- MCStatement
    Approver = {a1}
    Since = 1
    LastDay = 2
    MaxRows = 2
    MaxStops = 1
    MaxUploads = 1
    MaxBusy = 2
    \* CaseTasks
    Hand = {p1, p2}
    Title = {"call", "file"}
    Checklist = {"call"}
    Chores = {"internal"}
    MaxQuiet = 0
    LastTaskDay = 2
    MaxTasks = 2
    MaxTaskMoves = 3
    MaxTaskFaults = 1
CHECK_DEADLOCK FALSE
INVARIANTS
    BackOfficeSafe
    TasksSafe
PROPERTIES
    NeverBack
    BackOfficeConverges
