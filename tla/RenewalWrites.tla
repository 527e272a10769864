---------------------------- MODULE RenewalWrites ---------------------------
(***************************************************************************)
(* What the renewal executor does with a job it has claimed                *)
(* (hermes/renewals/executor.py, process_job): validate, read the policy,  *)
(* revalidate, compare, execute, verify, and leave a receipt, a status and *)
(* a trail behind.  Claims, retries and leases are in SyncScheduler; here  *)
(* one job meets the record of the AMS, which people edit meanwhile, and   *)
(* comes back after a failure or a reclaim.                                *)
(*                                                                         *)
(* The record's value is "old", "approved" (what the job asks for) or      *)
(* "other" (what somebody typed); two policies of one number are           *)
(* "copies".  A read that fails reads as no policy at all                  *)
(* (find_policy_by_number swallows the error), or raises.                  *)
(***************************************************************************)
EXTENDS Integers, FiniteSets, Sequences

CONSTANTS
    JobDomain,      \* the jobs a behaviour may be about
    MaxRuns,        \* bound on executions of the job
    MaxEdits        \* bound on what people and the network do to it

VARIABLES
    renewalJob,     \* the queue row's payload
    renewalLinked,  \* is the renewal in project_85_renewals
    amsPolicy,      \* the record: value, status, active, copies
    jobRun,         \* the execution: step and what it remembers
    jobReceipts,    \* renewal_execution_receipts, in order
    jobTrail,       \* renewal_actions
    jobStatus, jobRuns, jobEdits,
    held,           \* the approved values were in the AMS at some time since the claim
    livedOn,        \* the policy was in force at some time since the claim
    wroteDead       \* a write has landed on a policy that was not

renewalWriteVars == <<renewalJob, renewalLinked, amsPolicy, jobRun, jobReceipts, jobTrail, jobStatus, jobRuns, jobEdits,
                      held, livedOn, wroteDead>>

-----------------------------------------------------------------------------

RenewalActions == {"request_terms", "prepare_options", "client_follow_up", "update_ams"}
HighImpact == {"update_ams"}

ClosedStatuses == {"Cancelled", "Superseded"}
InForceNow(policy) == policy.status \notin ClosedStatuses

NotRunning == [step |-> "none"]
RunTo(new) == jobRun' = new
Fixed == UNCHANGED <<renewalJob, renewalLinked>>
QuietAms == UNCHANGED <<amsPolicy, held, livedOn, wroteDead>>
QuietRecord == UNCHANGED <<jobReceipts, jobTrail, jobStatus, jobRuns>>

\* One of what people and the network do to the job.
Trouble == jobEdits < MaxEdits /\ jobEdits' = jobEdits + 1

\* Claimed: queued -> processing.
ClaimRenewal ==
    /\ jobStatus \in {"queued", "failed"} /\ jobRuns < MaxRuns /\ jobRun = NotRunning
    /\ jobStatus' = "processing" /\ jobRuns' = jobRuns + 1
    /\ RunTo([step |-> "validate"])
    /\ held' = (amsPolicy.value = "approved") /\ livedOn' = InForceNow(amsPolicy)
    /\ Fixed /\ UNCHANGED <<amsPolicy, jobReceipts, jobTrail, jobEdits, wroteDead>>

\* Every end: the receipt first, then the status, then the trail.
EndAs(outcome, why) == RunTo([step |-> "receipt", outcome |-> outcome, why |-> why])

Authorized(job) ==
    /\ job.action \in RenewalActions /\ job.approved /\ job.expects
    /\ job.action = "update_ams" => job.fields

\* Only an error answer of the look-up is handled; a lost connection ends in the except clause.
ValidateJob ==
    /\ jobRun.step = "validate"
    /\ \/ Authorized(renewalJob) /\ renewalLinked /\ RunTo([step |-> "read"])
       \/ ~(Authorized(renewalJob) /\ renewalLinked) /\ EndAs("blocked", "not authorized")
       \/ EndAs("blocked", "renewal lookup failed")
       \/ EndAs("failed", "crash")
    /\ Fixed /\ QuietAms /\ QuietRecord /\ UNCHANGED jobEdits

Reads == {"seen", "nothing", "raises"}

ReadBefore ==
    /\ jobRun.step = "read"
    /\ \E read \in Reads :
          CASE read = "raises"  -> EndAs("failed", "read")
            [] read = "nothing" -> EndAs("blocked", "missing mapping")
            [] OTHER -> IF amsPolicy.copies > 1 THEN EndAs("blocked", "duplicate policies")
                        ELSE RunTo([step |-> "revalidate", before |-> amsPolicy])
    /\ Fixed /\ QuietAms /\ QuietRecord /\ UNCHANGED jobEdits

IsNoop(job, before) == job.action = "update_ams" /\ before.value = "approved"

\* The same rule again on what was just read; only a definite answer blocks.
PassesGate(before, active) == active /\ before.status \notin ClosedStatuses

\* The insured's flag is read now, and an error counts as active.
Revalidate ==
    /\ jobRun.step = "revalidate"
    /\ \E active \in {amsPolicy.active, TRUE} :
          IF ~PassesGate(jobRun.before, active) THEN EndAs("blocked", "drift since approval")
          ELSE IF IsNoop(renewalJob, jobRun.before) THEN EndAs("completed", "no-op")
          ELSE RunTo([jobRun EXCEPT !.step = "execute"])
    /\ Fixed /\ QuietAms /\ QuietRecord /\ UNCHANGED jobEdits

Mutates(job) == job.action = "update_ams"

\* NowCerts may take the write and say so, take it and not answer, say so and ignore it, or refuse.
Execute ==
    /\ jobRun.step = "execute"
    /\ \E lands, answered \in BOOLEAN :
          /\ amsPolicy' = IF lands /\ Mutates(renewalJob) THEN [amsPolicy EXCEPT !.value = "approved"] ELSE amsPolicy
          /\ held' = (held \/ (lands /\ Mutates(renewalJob)))
          /\ wroteDead' = (wroteDead \/ (lands /\ renewalJob.action # "prepare_options" /\ ~livedOn))
          /\ IF renewalJob.action = "prepare_options" \/ answered
             THEN RunTo([step |-> "verify", made |-> lands])
             ELSE EndAs("failed", "execute")
    /\ Fixed /\ QuietRecord /\ UNCHANGED <<jobEdits, livedOn>>

\* A faulty check that takes the answer for the deed.
VerifiedByAnswer(read) == TRUE

\* "a 200 is not proof": the fields are read back; of a task, the id that came back is the proof.
Verified(read) ==
    CASE renewalJob.action = "prepare_options" -> TRUE
      [] Mutates(renewalJob) -> read = "seen" /\ amsPolicy.copies = 1 /\ amsPolicy.value = "approved"
      [] OTHER -> jobRun.made

VerifyWrite ==
    /\ jobRun.step = "verify"
    /\ \E read \in Reads : IF Verified(read) THEN EndAs("completed", "verified") ELSE EndAs("failed", "verification")
    /\ Fixed /\ QuietAms /\ QuietRecord /\ UNCHANGED jobEdits

\* The finalizers swallow error answers.  A lost connection ends the job once more, as
\* failed (run_executor, the except clause); lost there, it leaves the executor.
Crashes == IF jobRun.why = "crash" THEN RunTo(NotRunning) ELSE EndAs("failed", "crash")

WriteReceipt ==
    LET written == jobReceipts' = Append(jobReceipts, [outcome |-> jobRun.outcome, held |-> held])
        next == RunTo([jobRun EXCEPT !.step = "status"])
    IN  /\ jobRun.step = "receipt"
        /\ \/ written /\ next /\ UNCHANGED jobEdits
           \/ UNCHANGED jobReceipts /\ next /\ Trouble
           \/ (written \/ UNCHANGED jobReceipts) /\ Crashes /\ Trouble
        /\ Fixed /\ QuietAms /\ UNCHANGED <<jobTrail, jobStatus, jobRuns>>

\* A blocked job is failed on the queue.
SetQueueStatus ==
    LET written == jobStatus' = IF jobRun.outcome = "completed" THEN "completed" ELSE "failed"
        next == RunTo([jobRun EXCEPT !.step = "trail"])
    IN  /\ jobRun.step = "status"
        /\ \/ written /\ next /\ UNCHANGED jobEdits
           \/ UNCHANGED jobStatus /\ next /\ Trouble
           \/ (written \/ UNCHANGED jobStatus) /\ Crashes /\ Trouble
        /\ Fixed /\ QuietAms /\ UNCHANGED <<jobReceipts, jobTrail, jobRuns>>

\* The trail hangs on the renewal that this run has looked up; stops leave a guardrail event
\* too, and high-impact ones are escalated.  A lost connection of either crashes a job that
\* already has its receipt and its status.
LogTrail ==
    LET linked == renewalLinked /\ jobRun.why \notin {"not authorized", "renewal lookup failed", "crash"}
        written == jobTrail' = IF linked
                               THEN jobTrail \cup {[outcome |-> jobRun.outcome, alarm |-> renewalJob.action \in HighImpact
                                                                                         /\ jobRun.outcome # "completed"]}
                               ELSE jobTrail
    IN  /\ jobRun.step = "trail"
        /\ \/ written /\ RunTo(NotRunning) /\ UNCHANGED jobEdits
           \/ UNCHANGED jobTrail /\ RunTo(NotRunning) /\ Trouble
           \/ /\ linked \/ jobRun.outcome # "completed"
              /\ (written \/ UNCHANGED jobTrail) /\ Crashes /\ Trouble
        /\ Fixed /\ QuietAms /\ UNCHANGED <<jobReceipts, jobStatus, jobRuns>>

-----------------------------------------------------------------------------

\* The process dies, or has left the job, and a row that is still in processing is reclaimed.
DieAndReclaim ==
    /\ Trouble /\ (jobRun # NotRunning \/ jobStatus = "processing")
    /\ RunTo(NotRunning) /\ jobStatus' = IF jobStatus = "processing" THEN "queued" ELSE jobStatus
    /\ Fixed /\ QuietAms /\ UNCHANGED <<jobReceipts, jobTrail, jobRuns>>

\* People work in the AMS.
EditPolicy ==
    /\ Trouble
    /\ \E new \in [value: {"old", "other", amsPolicy.value}, status: {"Active", "Cancelled", "Superseded"}, active: BOOLEAN,
                   copies: 1..2] : amsPolicy' = new
    /\ held' = (held \/ amsPolicy'.value = "approved") /\ livedOn' = (livedOn \/ InForceNow(amsPolicy'))
    /\ Fixed /\ QuietRecord /\ UNCHANGED <<jobRun, wroteDead>>

RenewalWritesInit ==
    /\ renewalJob \in JobDomain /\ renewalLinked \in BOOLEAN
    /\ amsPolicy \in [value: {"old", "approved"}, status: {"Active", "Cancelled"}, active: BOOLEAN, copies: {1}]
    /\ jobRun = NotRunning /\ jobReceipts = <<>> /\ jobTrail = {} /\ jobStatus = "queued"
    /\ jobRuns = 0 /\ jobEdits = 0 /\ held = FALSE /\ livedOn = FALSE /\ wroteDead = FALSE

RenewalWritesNext ==
    \/ ClaimRenewal \/ ValidateJob \/ ReadBefore \/ Revalidate \/ Execute \/ VerifyWrite
    \/ WriteReceipt \/ SetQueueStatus \/ LogTrail \/ DieAndReclaim \/ EditPolicy

RenewalWritesSpec == RenewalWritesInit /\ [][RenewalWritesNext]_renewalWriteVars

\* A completed receipt of an AMS update means that the approved values were in the AMS at
\* some moment of that run, put there by it or found: "a 200 is not proof".
ReceiptMeansHeld ==
    \A i \in DOMAIN jobReceipts : renewalJob.action = "update_ams" /\ jobReceipts[i].outcome = "completed" => jobReceipts[i].held

\* "Execution-time safety gate": what a job writes, it writes to a policy that was in force at
\* some moment after the claim; a job approved for a policy that has died since writes nothing.
NothingForTheDead == ~wroteDead

\* A renewal job writes to policies in force only, and its receipt is no promise but
\* what the AMS held.
RenewalWritesSafe == ReceiptMeansHeld /\ NothingForTheDead

=============================================================================
