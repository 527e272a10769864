-------------------------- MODULE IntakeSubmission --------------------------
(***************************************************************************)
(* The life of a row of intake_submissions (hermes/intake/submissions.py)  *)
(* and everybody who moves it: the intake workers                          *)
(* (hermes/operations/intake_worker.py), the people who apply an approval  *)
(* token (agency_intake_approval.py), and the requests that commit a       *)
(* submission which arrives synthesized and approved (POST /api/intake,    *)
(* commit_submission_now).                                                 *)
(*                                                                         *)
(* transition() is a read, a check and an unguarded write by id, so it is  *)
(* two actions here, Fetch and Store, and every other actor may come in    *)
(* between.  The two claims are a select and a guarded write.              *)
(***************************************************************************)
EXTENDS Naturals, Sequences, FiniteSets

CONSTANTS
    Submission,     \* submissions, numbered in the order of created_at
    Kind,           \* how submissions arrive: to be reviewed, approved, or inline
    Token,          \* the approval tokens that are used
    PayloadToken,   \* those of them that a submission may bring along
    Worker,         \* intake worker processes
    Poster,         \* requests that commit inline
    Approver,       \* people (or browser tabs) that answer a draft
    Repeats,        \* TRUE: the HTTP client may send an applied PATCH again
    MaxFaults       \* bound on lost requests, lost answers, repeats and crashes

Process == Worker \cup Poster \cup Approver

ASSUME IntakeAssumption ==
    /\ Submission \subseteq Nat \ {0} /\ IsFiniteSet(Submission)
    /\ Kind \subseteq {"review", "approved", "inline"}
    /\ Token \subseteq {"all", "crm", "supabase", "tasks"} /\ PayloadToken \subseteq Token
    /\ Worker \cap Poster = {} /\ Approver \cap (Worker \cup Poster) = {}
    /\ Repeats \in BOOLEAN /\ MaxFaults \in Nat

VARIABLES
    row,        \* row[s]: status, status_history, approval_token, and payload.approval
    proc,       \* proc[p]: what process p is doing and what it has read
    opened,     \* opened[s]: the opportunities of s exist
    indexed,    \* indexed[s]: times the retrieval rows of s were inserted
    given,      \* given[s]: the tokens that a person gave for s
    told,       \* told[s]: a person was told that s was canceled
    faults      \* faults used so far

vars == <<row, proc, opened, indexed, given, told, faults>>

\* parse_approval_token: what a token lets the commit write.
ApproveCrm == {"all", "crm"}
ApproveSupabase == {"all", "supabase"}

\* _FORWARD
Forward ==
    [absent            |-> {},
     received          |-> {"synthesizing", "failed"},
     synthesizing      |-> {"synthesized", "failed"},
     synthesized       |-> {"drafting", "failed"},
     drafting          |-> {"awaiting_approval", "failed"},
     awaiting_approval |-> {"approved", "failed"},
     approved          |-> {"writing", "failed"},
     writing           |-> {"written", "failed"},
     written           |-> {"complete", "failed"},
     complete          |-> {},
     failed            |-> {}]

Status == DOMAIN Forward
Place == {"rest", "claim", "synthesize", "fetch", "store", "lookup", "open", "index"}

\* status_history: the transitions, each as it was written down.
History == Seq(Status \X Status)
SubmissionRow == [status : Status, history : History,
                  token : Token \cup {"none"}, payload : Token \cup {"none"}]
\* arc: 1 up to the approval, 2 from the approval on.
Doing == [at : Place, arc : {1, 2}, sub : Submission \cup {0}, to : Status,
          seen : [status : Status, history : History],
          token : Token \cup {"none", "cancel"}]

TypeOK ==
    /\ row \in [Submission -> SubmissionRow]
    /\ proc \in [Process -> Doing]
    /\ opened \in [Submission -> BOOLEAN]
    /\ indexed \in [Submission -> Nat]
    /\ given \in [Submission -> SUBSET Token]
    /\ told \in [Submission -> BOOLEAN]
    /\ faults \in 0..MaxFaults

Nothing == [status |-> "absent", history |-> <<>>]
Absent == [status |-> "absent", history |-> <<>>, token |-> "none", payload |-> "none"]
Resting == [at |-> "rest", arc |-> 1, sub |-> 0, to |-> "absent", seen |-> Nothing,
            token |-> "none"]
SecondArc == [Resting EXCEPT !.arc = 2]

Init ==
    /\ row = [s \in Submission |-> Absent]
    /\ proc = [p \in Process |-> Resting]
    /\ opened = [s \in Submission |-> FALSE]
    /\ indexed = [s \in Submission |-> 0]
    /\ given = [s \in Submission |-> {}]
    /\ told = [s \in Submission |-> FALSE]
    /\ faults = 0

-----------------------------------------------------------------------------
Fault == faults < MaxFaults /\ faults' = faults + 1
Fine == UNCHANGED faults
Do(p, d) == proc' = [proc EXCEPT ![p] = d]
NoCommit == UNCHANGED <<opened, indexed>>
NoPeople == UNCHANGED <<given, told>>

Read(s) == [status |-> row[s].status, history |-> row[s].history]
Note(p, to) == Append(proc[p].seen.history, <<proc[p].seen.status, to>>)

\* Begin transition(sub, to).
Toward(p, to) == [proc[p] EXCEPT !.at = "fetch", !.to = to, !.seen = Nothing]

\* tick(): the second arc follows the first.
Finished(p) == IF p \in Worker /\ proc[p].arc = 1 THEN SecondArc ELSE Resting

\* Faulty error handling: an error leaves the row as it is, or goes on.
FailingSilently(p) == Finished(p)
FailingThrough(p) ==
    IF p \in Approver \/ proc[p].to = "failed" THEN Finished(p)
    ELSE IF proc[p].at = "index" THEN Toward(p, "complete") ELSE Toward(p, "failed")

\* _safe_transition_to_failed, which swallows its own failure.  For a person the
\* request just fails.
Failing(p) ==
    IF p \in Approver \/ proc[p].to = "failed" THEN Finished(p) ELSE Toward(p, "failed")

-----------------------------------------------------------------------------
(* A submission arrives: insert_submission.  A replay of its idempotency   *)
(* key only reads.  An inline submission is committed by its own request.  *)

Submit(s) ==
    /\ row[s].status = "absent"
    /\ \A q \in Submission : q < s => row[q].status # "absent"
    /\ \E kind \in Kind, payload \in PayloadToken \cup {"none"} :
         /\ kind = "review" <=> payload = "none"
         /\ row' = [row EXCEPT ![s] = [status |-> "received", history |-> <<>>,
                                       token |-> "none", payload |-> payload]]
         /\ given' = [given EXCEPT ![s] = @ \cup ({payload} \ {"none"})]
         /\ \/ kind # "inline" /\ UNCHANGED proc
            \/ /\ kind = "inline"
               /\ \E p \in Poster :
                    /\ proc[p].at = "rest"
                    /\ Do(p, [Resting EXCEPT !.at = "synthesize", !.sub = s, !.token = payload])
    /\ Fine /\ NoCommit /\ UNCHANGED told

-----------------------------------------------------------------------------
(* A worker claims: claim_next_received and _claim_next_approved           *)

Wanted(p) == IF proc[p].arc = 1 THEN "received" ELSE "approved"
Claimed(p) == IF proc[p].arc = 1 THEN "synthesizing" ELSE "writing"

\* Select the oldest row of the arc.  An exception ends the tick.
Poll(p) ==
    /\ p \in Worker /\ proc[p].at = "rest"
    /\ LET rows == {s \in Submission : row[s].status = Wanted(p)}
       IN  \/ /\ \E s \in rows :
                   /\ \A q \in rows : s <= q
                   /\ Do(p, [proc[p] EXCEPT !.at = "claim", !.sub = s, !.seen = Read(s)])
              /\ Fine
           \/ rows = {} /\ Do(p, Finished(p)) /\ Fine
           \/ Do(p, Resting) /\ Fault
    /\ NoCommit /\ NoPeople /\ UNCHANGED row

\* A faulty claim that trusts what it selected.
ClaimableAlways(p) == row[proc[p].sub].status \in Status
Claimable(p) == row[proc[p].sub].status = Wanted(p)

\* A faulty scope: every approval commits everything.
CommittingAll(p, token) ==
    [proc[p] EXCEPT !.at = "lookup", !.to = "written", !.seen = Nothing, !.token = token]

\* The commit of the scope that the token names.
Committing(p, token) ==
    [proc[p] EXCEPT !.at = IF token \in ApproveCrm THEN "lookup" ELSE "fetch",
                    !.to = "written", !.seen = Nothing, !.token = token]

\* The guarded write.  When its answer is lost the client repeats it, which then
\* matches nothing, or raises: the row is claimed, and nobody works on it.
Claim(p) ==
    LET s == proc[p].sub
        taken == row' = [row EXCEPT ![s].status = Claimed(p),
                                    ![s].history = Note(p, Claimed(p))]
        won == IF proc[p].arc = 1
               THEN [proc[p] EXCEPT !.at = "synthesize", !.seen = Nothing, !.token = row[s].payload]
               ELSE Committing(p, row[s].token)
    IN  /\ proc[p].at = "claim"
        /\ \/ Claimable(p) /\ taken /\ Do(p, won) /\ Fine
           \/ ~Claimable(p) /\ UNCHANGED row /\ Do(p, Finished(p)) /\ Fine
           \/ Claimable(p) /\ taken /\ Do(p, Finished(p)) /\ Fault
           \/ Claimable(p) /\ taken /\ Do(p, Resting) /\ Fault
           \/ UNCHANGED row /\ Do(p, Resting) /\ Fault
        /\ NoCommit /\ NoPeople

\* synthesize_payload, validate_payload and render_blocks, which may raise.  An
\* inline commit still has to claim its row, by a transition like any other.
Synthesize(p) ==
    /\ proc[p].at = "synthesize"
    /\ Do(p, Toward(p, IF p \in Worker THEN "synthesized" ELSE "synthesizing"))
       \/ Do(p, Toward(p, "failed"))
    /\ Fine /\ NoCommit /\ NoPeople /\ UNCHANGED row

-----------------------------------------------------------------------------
(* A person answers a draft: approve_draft, which first checks the status  *)

Decide(p) ==
    /\ p \in Approver /\ proc[p].at = "rest"
    /\ \E s \in Submission, token \in Token \cup {"cancel"} :
         /\ row[s].status = "awaiting_approval"
         /\ Do(p, [Resting EXCEPT !.at = "fetch", !.sub = s, !.token = token,
                                  !.to = IF token = "cancel" THEN "failed" ELSE "approved"])
         /\ given' = [given EXCEPT ![s] = @ \cup ({token} \ {"cancel"})]
    /\ Fine /\ NoCommit /\ UNCHANGED <<row, told>>

-----------------------------------------------------------------------------
(* transition()                                                            *)

\* The walk up to the commit, in the order of _FORWARD.
Following == [synthesizing |-> "synthesized", synthesized |-> "drafting",
              drafting |-> "awaiting_approval", awaiting_approval |-> "approved",
              approved |-> "writing"]

\* A worker stops where somebody has to answer, and at the end of its first arc.
Stops(p) ==
    \/ p \in Approver
    \/ p \in Worker /\ proc[p].to = "approved"
    \/ p \in Worker /\ proc[p].to = "awaiting_approval" /\ row[proc[p].sub].payload = "none"

\* What follows when the transition of p is done.
After(p) ==
    LET to == proc[p].to
    IN  CASE Stops(p) \/ to \in {"complete", "failed"} -> Finished(p)
          [] ~Stops(p) /\ to \in DOMAIN Following -> Toward(p, Following[to])
          [] ~Stops(p) /\ to = "writing" -> Committing(p, proc[p].token)
          [] ~Stops(p) /\ to = "written" ->
                IF proc[p].token \in ApproveSupabase THEN [proc[p] EXCEPT !.at = "index"]
                ELSE Toward(p, "complete")

\* approve_draft answers a cancel with "canceled. Nothing was written."
Answer(p) == told' = IF p \in Approver /\ proc[p].token = "cancel"
                     THEN [told EXCEPT ![proc[p].sub] = TRUE] ELSE told

\* _assert_transition_allowed
Allowed(from, to) == to = "failed" \/ to \in Forward[from]

\* Read the row.  It may be there already, or not be allowed to go there.
Fetch(p) ==
    LET now == row[proc[p].sub]
    IN  /\ proc[p].at = "fetch"
        /\ \/ /\ now.status = proc[p].to
              /\ Do(p, After(p)) /\ Answer(p) /\ Fine
           \/ /\ now.status # proc[p].to /\ Allowed(now.status, proc[p].to)
              /\ Do(p, [proc[p] EXCEPT !.at = "store", !.seen = Read(proc[p].sub)])
              /\ Fine /\ UNCHANGED told
           \/ /\ now.status # proc[p].to /\ ~Allowed(now.status, proc[p].to)
              /\ Do(p, Failing(p)) /\ Fine /\ UNCHANGED told
           \/ Do(p, Failing(p)) /\ Fault /\ UNCHANGED told
        /\ NoCommit /\ UNCHANGED <<row, given>>

\* The extra_fields of an approval carry its token.
TokenColumn(p) ==
    IF proc[p].to = "approved" THEN proc[p].token ELSE row[proc[p].sub].token

\* Write status and history by id, whatever the row is by now.
Store(p) ==
    LET s == proc[p].sub
        stored == row' = [row EXCEPT ![s] =
            [@ EXCEPT !.status = proc[p].to,
                      !.history = Note(p, proc[p].to),
                      !.token = TokenColumn(p)]]
    IN  /\ proc[p].at = "store"
        /\ \/ stored /\ Do(p, After(p)) /\ Answer(p) /\ Fine
           \/ stored /\ Do(p, Failing(p)) /\ Fault /\ UNCHANGED told
           \/ UNCHANGED row /\ Do(p, Failing(p)) /\ Fault /\ UNCHANGED told
           \/ Repeats /\ stored /\ UNCHANGED <<proc, told>> /\ Fault
        /\ NoCommit /\ UNCHANGED given

-----------------------------------------------------------------------------
(* The commit: commit_draft and _insert_retrieval_rows                     *)

\* create_opportunity looks for the row first.  A draft without a line of
\* business raises.
LookUp(p) ==
    /\ proc[p].at = "lookup"
    /\ \/ opened[proc[p].sub] /\ Do(p, Toward(p, "written")) /\ Fine
       \/ ~opened[proc[p].sub] /\ Do(p, [proc[p] EXCEPT !.at = "open"]) /\ Fine
       \/ Do(p, Failing(p)) /\ (Fine \/ Fault)
    /\ NoCommit /\ NoPeople /\ UNCHANGED row

\* ... and then inserts it, which the unique index refuses the second time.
Open(p) ==
    LET s == proc[p].sub
    IN  /\ proc[p].at = "open"
        /\ \/ ~opened[s] /\ opened' = [opened EXCEPT ![s] = TRUE] /\ Do(p, Toward(p, "written")) /\ Fine
           \/ opened[s] /\ UNCHANGED opened /\ Do(p, Failing(p)) /\ Fine
           \/ ~opened[s] /\ opened' = [opened EXCEPT ![s] = TRUE] /\ Do(p, Failing(p)) /\ Fault
           \/ UNCHANGED opened /\ Do(p, Failing(p)) /\ Fault
        /\ NoPeople /\ UNCHANGED <<row, indexed>>

\* Plain inserts: nothing tells a second set of retrieval rows from the first.
Index(p) ==
    LET inserted == indexed' = [indexed EXCEPT ![proc[p].sub] = @ + 1]
    IN  /\ proc[p].at = "index"
        /\ \/ inserted /\ Do(p, Toward(p, "complete")) /\ Fine
           \/ inserted /\ Do(p, Failing(p)) /\ Fault
           \/ UNCHANGED indexed /\ Do(p, Failing(p)) /\ Fault
        /\ NoPeople /\ UNCHANGED <<row, opened>>

-----------------------------------------------------------------------------
\* A process dies.  Nothing takes back what it had claimed.
Crash(p) ==
    /\ proc[p] # Resting
    /\ Do(p, Resting) /\ Fault
    /\ NoCommit /\ NoPeople /\ UNCHANGED row

Step(p) ==
    \/ Poll(p) \/ Claim(p) \/ Synthesize(p) \/ Fetch(p) \/ Store(p)
    \/ LookUp(p) \/ Open(p) \/ Index(p)

Next ==
    \/ \E s \in Submission : Submit(s)
    \/ \E p \in Process : Step(p) \/ Decide(p) \/ Crash(p)

Spec == Init /\ [][Next]_vars

\* Workers poll for ever (run_worker(), which docker-compose.yml:75-86 starts as
\* hermes-intake-worker and restarts) and a request that was begun goes on.  Nobody has
\* to answer a draft.
FairSpec == Spec /\ \A p \in Process : WF_vars(Step(p))

-----------------------------------------------------------------------------
(* What the state machine promises                                         *)

\* status_history is a walk along _FORWARD from received to the status, however
\* the actors overwrite each other: a write that was overtaken rewrites the
\* history together with the status, so the row never shows a jump.
Walk(history, status) ==
    /\ \A i \in 1..Len(history) :
          /\ history[i][2] \in Forward[history[i][1]] \cup {"failed"}
          /\ history[i][1] = IF i = 1 THEN "received" ELSE history[i - 1][2]
    /\ status = IF history = <<>> THEN "received" ELSE history[Len(history)][2]

AuditTrail ==
    \A s \in Submission : row[s].status # "absent" => Walk(row[s].history, row[s].status)

\* Nothing is written beyond what somebody approved: the opportunities need a
\* token that covers the CRM, the retrieval rows one that covers Supabase.
ScopeRespected ==
    \A s \in Submission :
        /\ opened[s] => given[s] \cap ApproveCrm # {}
        /\ indexed[s] > 0 => given[s] \cap ApproveSupabase # {}

\* However people and workers overwrite each other, what a submission tells of its
\* life is a life it can have had, and what it wrote was asked of it.
SubmissionSafe == TypeOK /\ AuditTrail /\ ScopeRespected

\* A complete submission was committed in the full scope of a token that
\* somebody gave it.
CompleteMeansCommitted ==
    \A s \in Submission : row[s].status = "complete" =>
        \E token \in given[s] : /\ token \in ApproveCrm => opened[s]
                                /\ token \in ApproveSupabase => indexed[s] > 0

\* When each submission is approved by one actor, the person or its payload, and
\* no write is repeated: however many workers run, it is committed once
\* ("Atomically claim one row").
Exclusive ==
    /\ ~Repeats /\ Poster = {} /\ \A p, q \in Approver : p = q
    /\ Approver = {} \/ "approved" \notin Kind

CommittedOnce == Exclusive => \A s \in Submission : indexed[s] <= 1

\* Unless a request fails or a process dies, every submission comes to rest: it
\* waits for an approval, is complete, or has failed.
EverySubmissionSettles ==
    \A s \in Submission : row[s].status # "absent"
        ~> (row[s].status \in {"awaiting_approval", "complete", "failed"} \/ faults > 0)

\* agency_intake_approval.py:252, as it is written: canceled, nothing was written.
CanceledMeansUnwritten == \A s \in Submission : told[s] => ~opened[s] /\ indexed[s] = 0
=============================================================================
