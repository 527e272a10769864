CONSTANTS
    Document <- MCTwoDocuments
    Uploader = {"ann"}
    Approvers = {"ann"}
    MaxApprovals <- MCNoApprovals
    PollLimit = 1
    MaxPages = 1
    MaxInboxFaults = 0
    MaxHandled = 2
    LastTime = 1
SPECIFICATION PolledSpec
PROPERTIES EveryDropStaged
CHECK_DEADLOCK FALSE
