\* Two workers on two submissions, each approved by one person; lost calls and crashes.
SPECIFICATION FairSpec
CONSTANTS
    w1 = w1
    w2 = w2
    post = post
    alice = alice
    bob = bob
    Submission <- Two
    Kind = {"review"}
    Token = {"all", "crm"}
    PayloadToken = {"all", "crm"}
    Worker = {w1, w2}
    Poster = {}
    Approver = {alice}
    Repeats = FALSE
    MaxFaults = 2
CHECK_DEADLOCK FALSE
INVARIANTS
    CommittedOnce
    CompleteMeansCommitted
PROPERTIES
    EverySubmissionSettles
