\* A worker, an inline commit and two people on one submission, and one fault: a call that
\* is lost, unanswered or repeated, or a crash.
SPECIFICATION Spec
CONSTANTS
    w1 = w1
    w2 = w2
    post = post
    alice = alice
    bob = bob
    Submission <- One
    Kind = {"review", "approved", "inline"}
    Token = {"crm", "supabase"}
    PayloadToken = {"crm"}
    Worker = {w1}
    Poster = {post}
    Approver = {alice, bob}
    Repeats = TRUE
    MaxFaults = 1
SYMMETRY MCPeople
CHECK_DEADLOCK FALSE
INVARIANTS
    SubmissionSafe
