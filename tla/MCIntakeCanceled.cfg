\* One person cancels a draft while another one approves it.
SPECIFICATION Spec
CONSTANTS
    w1 = w1
    w2 = w2
    post = post
    alice = alice
    bob = bob
    Submission <- One
    Kind = {"review"}
    Token = {"crm"}
    PayloadToken = {"crm"}
    Worker = {w1}
    Poster = {}
    Approver = {alice, bob}
    Repeats = FALSE
    MaxFaults = 0
CHECK_DEADLOCK FALSE
INVARIANTS
    CanceledMeansUnwritten
