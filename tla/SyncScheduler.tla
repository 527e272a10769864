---------------------------- MODULE SyncScheduler ----------------------------
(***************************************************************************)
(* outbound_sync_queue and everybody who works on it: the people and       *)
(* commands that stage, propose and confirm jobs, the scheduler replicas   *)
(* that reclaim, retry and execute them under the lease of SchedulerLease, *)
(* and the loops that execute jobs outside that lease (run_worker_loop,    *)
(* the kick of prime_new_opportunities, POST /api/intake/run).             *)
(*                                                                         *)
(* Each request to the database or to NowCerts is a step of its own, so    *)
(* what a process read in one request may be stale in the next.  A request *)
(* may be lost before or after it took effect, and a process may die       *)
(* between any two of them.                                                *)
(*                                                                         *)
(* Times are kept as distances: age is the time since updated_at (only     *)
(* read of rows in processing), wait the time until scheduled_for.         *)
(***************************************************************************)
EXTENDS SchedulerLease, FiniteSets, Sequences

CONSTANTS
    Row,          \* queue ids, numbered in the order of created_at
    Key,          \* (object_id, destination_system, action) of a row
    TypeOf,       \* TypeOf[r]: the object type of row r
    KeyOf,        \* KeyOf[r]: with TypeOf[r], what uq_outbound_queue_open_work tells apart
    Silent,       \* renewal rows that may complete with no NowCerts write
    Loop,         \* processes that run executors outside the lease
    Pipeline,     \* Pipeline[p]: the object types whose executors p runs, in order
    Scope,        \* Scope[s]: the object types whose retries replica s owns
    Batch,        \* rows an executor takes in one run
    Split,        \* TRUE: per-service cycles, where a failed executor costs only itself
    Answered,     \* TRUE: a write by id that was applied is neither repeated nor raises,
                  \* and the trail of a job that failed is not lost
    MaxAttempts,  \* MAX_ATTEMPTS
    Stall,        \* STALLED_PROCESSING_SECONDS, in ticks
    BackoffBase,  \* BACKOFF_BASE_SECONDS, in ticks
    BackoffCap,   \* BACKOFF_CAP_SECONDS, in ticks
    MaxReclaims,  \* bound on how often one row is reclaimed
    MaxWrites     \* bound on the writes of one row that land

Process == Replica \cup Loop

\* The object types of BACKED_OFF_OBJECT_TYPES minus case and task, whose
\* executors left this codebase.
Type == {"renewal", "intake", "quote", "opportunity_writeback", "intake_ams", "intake_crm"}

ASSUME QueueAssumption ==
    /\ Row \subseteq Nat \ {0} /\ IsFiniteSet(Row)
    /\ TypeOf \in [Row -> Type] /\ KeyOf \in [Row -> Key]
    /\ Silent \subseteq {r \in Row : TypeOf[r] = "renewal"}
    /\ Loop \cap Replica = {}
    /\ Pipeline \in [Process -> Seq(Type)]
    /\ \A p \in Process : Len(Pipeline[p]) > 0
    /\ Scope \in [Replica -> SUBSET Type]
    /\ Batch \in Nat \ {0} /\ Split \in BOOLEAN /\ Answered \in BOOLEAN
    /\ MaxAttempts \in Nat \ {0, 1} /\ Stall \in Nat \ {0}
    /\ BackoffBase \in Nat /\ BackoffCap \in Nat
    /\ MaxReclaims \in Nat /\ MaxWrites \in Nat

\* One scheduler or one per service, never both (run_scheduler_loop): replicas
\* under different locks own different object types.
ASSUME ScopeAssumption ==
    \A s, t \in Replica : LockName[s] # LockName[t] => Scope[s] \cap Scope[t] = {}

VARIABLES
    queue,        \* outbound_sync_queue
    run,          \* what each process is doing, and what it has read
    writes,       \* writes[r]: writes to NowCerts (or the CRM) that landed for row r
    reclaims      \* reclaims[r]: times row r was taken back from processing

vars == <<lease, pc, faults, queue, run, writes, reclaims>>

Status == {"absent", "queued", "processing", "completed", "failed", "dead"}
Attempts == 0..(MaxAttempts - 1)
QueueRow == [status : Status, attempts : Attempts, approved : BOOLEAN,
             wait : 0..BackoffCap, age : 0..Stall]

\* What a process has read of a row in a select.
Read == [row : Row, attempts : Attempts]
Place == {"rest", "reclaim", "requeue", "select", "claim", "call", "close", "trail", "done"}
Run == [at : Place, todo : SUBSET Read, step : Nat, row : Row \cup {0},
        outcome : {"none", "completed", "failed", "error", "lost"}, since : 0..BackoffCap]

TypeOK ==
    /\ LeaseTypeOK
    /\ queue \in [Row -> QueueRow]
    /\ run \in [Process -> Run]
    /\ writes \in [Row -> Nat]
    /\ reclaims \in [Row -> Nat]

Absent == [status |-> "absent", attempts |-> 0, approved |-> FALSE, wait |-> 0, age |-> 0]
Resting == [at |-> "rest", todo |-> {}, step |-> 0, row |-> 0, outcome |-> "none", since |-> 0]

Init ==
    /\ LeaseInit
    /\ queue = [r \in Row |-> Absent]
    /\ run = [p \in Process |-> Resting]
    /\ writes = [r \in Row |-> 0]
    /\ reclaims = [r \in Row |-> 0]

-----------------------------------------------------------------------------
(* The table                                                               *)

\* Another open row holds the place of r in uq_outbound_queue_open_work, so
\* the database refuses to make r queued.
Taken(r) == \E q \in Row \ {r} : /\ TypeOf[q] = TypeOf[r] /\ KeyOf[q] = KeyOf[r]
                                 /\ queue[q].status = "queued"

Rows(types, status) == {r \in Row : TypeOf[r] \in types /\ queue[r].status = status}

\* A faulty select that forgets the approval.
EligibleUnapproved(type) == {r \in Rows({type}, "queued") : queue[r].wait = 0}

\* The select of an executor: queued, due (due_filter), and approved for every
\* type but quote and the command-center intake types.
Gated == {"renewal", "intake", "opportunity_writeback"}
Eligible(type) == {r \in Rows({type}, "queued") : /\ queue[r].wait = 0
                                                  /\ type \in Gated => queue[r].approved}

\* order=created_at.asc & limit=n
Oldest(rows, n) == {r \in rows : Cardinality({q \in rows : q < r}) < n}

Snapshot(rows) == {[row |-> r, attempts |-> queue[r].attempts] : r \in rows}
IsFirst(j, reads) == j \in reads /\ \A k \in reads : j.row <= k.row

\* compute_backoff_seconds: exponential in the attempt, capped.
Backoff(attempt) ==
    LET delay == BackoffBase * 2^(attempt - 1)
    IN  IF delay \in 0..BackoffCap THEN delay ELSE BackoffCap

\* Every update touches updated_at.
SetRow(r, row) == queue' = [queue EXCEPT ![r] = [row EXCEPT !.age = 0]]
SetRun(p, r) == run' = [run EXCEPT ![p] = r]

LeaseIdle == UNCHANGED leaseVars

\* An applied write by id whose answer is lost: the client sends it once more,
\* some time later.
Repeated == ~Answered /\ FaultElsewhere /\ UNCHANGED run

Counted == UNCHANGED <<writes, reclaims>>

-----------------------------------------------------------------------------
(* Producers                                                               *)

Insertable(r) ==
    /\ queue[r].status = "absent"
    /\ \A q \in Row : q < r => queue[q].status # "absent"
    /\ ~Taken(r)

\* stage_renewal_job, stage_quote_row, stage_quote_job, the insured job of
\* commit_intake, stage_writeback: an approved job is inserted.
Stage(r) ==
    /\ Insertable(r)
    /\ SetRow(r, [Absent EXCEPT !.status = "queued", !.approved = TRUE])
    /\ LeaseIdle /\ Counted /\ UNCHANGED run

\* propose_writeback: the same job without an approval.
Propose(r) ==
    /\ TypeOf[r] = "renewal"
    /\ Insertable(r)
    /\ SetRow(r, [Absent EXCEPT !.status = "queued"])
    /\ LeaseIdle /\ Counted /\ UNCHANGED run

\* confirm_writeback: only a row that is still queued and unapproved.
Confirm(r) ==
    /\ queue[r].status = "queued" /\ ~queue[r].approved
    /\ TypeOf[r] = "renewal"
    /\ SetRow(r, [queue[r] EXCEPT !.approved = TRUE])
    /\ LeaseIdle /\ Counted /\ UNCHANGED run

-----------------------------------------------------------------------------
(* A scheduler cycle: the lease, then the two retry passes                 *)

\* A faulty cycle that starts although acquire() returned False.
AcquireIgnored(s) ==
    /\ \/ AcquireUpdate(s) \/ AcquireInsert(s)
       \/ pc[s] = "insert" /\ Goto(s, "cycle") /\ UNCHANGED <<lease, faults>>
    /\ UNCHANGED <<queue, run>> /\ Counted

Acquire(s) ==
    /\ \/ AcquireUpdate(s) \/ AcquireUpdateFails(s)
       \/ AcquireInsert(s) \/ AcquireInsertFails(s)
    /\ UNCHANGED <<queue, run>> /\ Counted

\* Faulty selects: one forgets the threshold, one reads the wrong status.
StalledAtOnce(s) == Rows(Scope[s], "processing")
StalledFailed(s) == {r \in Rows(Scope[s], "failed") : queue[r].age = Stall}

\* The rows of a replica that are in processing for longer than the threshold.
Stalled(s) == {r \in Rows(Scope[s], "processing") : queue[r].age = Stall}

\* The select of a pass: its rows, or none when it fails.
Scan(s, place, rows) ==
    /\ \/ /\ SetRun(s, [run[s] EXCEPT !.at = place, !.todo = Snapshot(rows)])
          /\ LeaseIdle
       \/ /\ SetRun(s, [run[s] EXCEPT !.at = place, !.todo = {}])
          /\ FaultElsewhere
    /\ Counted /\ UNCHANGED queue

\* reclaim_stalled: read the stalled rows.
ScanStalled(s) ==
    /\ pc[s] = "cycle" /\ run[s].at = "rest"
    /\ Scan(s, "reclaim", Stalled(s))

\* ... and put each back in the queue, by id, whatever it is now.  The attempt
\* counter stays.  The unique index may refuse, or the request may be lost; the
\* pass goes on with the next row.
Reclaim(s) ==
    /\ run[s].at = "reclaim"
    /\ \E j \in run[s].todo :
         LET refused == Taken(j.row)
             reclaimed == /\ reclaims[j.row] < MaxReclaims
                          /\ SetRow(j.row, [queue[j.row] EXCEPT !.status = "queued"])
                          /\ reclaims' = [reclaims EXCEPT ![j.row] = @ + 1]
             next == SetRun(s, [run[s] EXCEPT !.todo = @ \ {j}])
         IN  \/ ~refused /\ reclaimed /\ next /\ LeaseIdle
             \/ ~refused /\ reclaimed /\ Repeated
             \/ refused /\ next /\ LeaseIdle /\ UNCHANGED <<queue, reclaims>>
             \/ next /\ FaultElsewhere /\ UNCHANGED <<queue, reclaims>>
    /\ UNCHANGED writes

\* requeue_or_deadletter: read the failed rows and their attempt counters.
ScanFailed(s) ==
    /\ run[s].at = "reclaim" /\ run[s].todo = {}
    /\ Scan(s, "requeue", Rows(Scope[s], "failed"))

Less(a, b) == IF a > b THEN a - b ELSE 0

\* The row as the pass writes it: dead when the next attempt would be the last
\* allowed, or queued with a backoff counted from the start of the cycle.
Retried(j, since) ==
    IF j.attempts + 1 >= MaxAttempts
    THEN [queue[j.row] EXCEPT !.status = "dead"]
    ELSE [queue[j.row] EXCEPT !.status = "queued", !.attempts = j.attempts + 1,
                              !.wait = Less(Backoff(j.attempts + 1), since)]

Requeue(s) ==
    /\ run[s].at = "requeue"
    /\ \E j \in run[s].todo :
         LET retried == Retried(j, run[s].since)
             refused == retried.status = "queued" /\ Taken(j.row)
             next == SetRun(s, [run[s] EXCEPT !.todo = @ \ {j}])
         IN  /\ IsFirst(j, run[s].todo)
             /\ \/ ~refused /\ SetRow(j.row, retried) /\ next /\ LeaseIdle
                \/ ~refused /\ SetRow(j.row, retried) /\ Repeated
                \/ refused /\ next /\ LeaseIdle /\ UNCHANGED queue
                \/ next /\ FaultElsewhere /\ UNCHANGED queue
    /\ Counted

\* Both passes are over: renew, whether or not the lease is still ours.
StartExecutors(s) ==
    /\ run[s].at = "requeue" /\ run[s].todo = {}
    /\ SetRun(s, [Resting EXCEPT !.at = "select", !.step = 1])
    /\ Renew(s) \/ RenewFails(s)
    /\ Counted /\ UNCHANGED queue

\* The finally clause.
EndCycle(s) ==
    /\ run[s].at = "done"
    /\ SetRun(s, Resting)
    /\ Release(s) \/ ReleaseFails(s)
    /\ Counted /\ UNCHANGED queue

-----------------------------------------------------------------------------
(* An executor run, inside a cycle or in a loop of its own                 *)

StartLoop(p) ==
    /\ p \in Loop /\ run[p].at = "rest"
    /\ SetRun(p, [Resting EXCEPT !.at = "select", !.step = 1])
    /\ LeaseIdle /\ Counted /\ UNCHANGED queue

\* An exception that leaves the executor ends the unsplit cycle, or costs a
\* per-service cycle or a loop this executor run only.
Aborted(p) == [Resting EXCEPT !.step = run[p].step,
                              !.at = IF p \in Replica /\ ~Split THEN "done" ELSE "claim"]

\* The object type of the executor that p is in.
Drains(p) == Pipeline[p][run[p].step]

Select(p) ==
    /\ run[p].at = "select"
    /\ \/ /\ SetRun(p, [run[p] EXCEPT !.at = "claim",
                           !.todo = Snapshot(Oldest(Eligible(Drains(p)), Batch))])
          /\ LeaseIdle
       \/ /\ SetRun(p, Aborted(p)) /\ FaultElsewhere
    /\ Counted /\ UNCHANGED queue

\* Only the renewal executor goes on after an error answer to a queue write.
Tolerant == {"renewal"}

\* A faulty claim without the guard, and the guard of the claim.
ClaimableAlways(r) == queue[r].status # "absent"
Claimable(r) == queue[r].status = "queued"

\* The guarded claim, on a row read in the select: queued to processing.  If
\* its answer is lost the client repeats the PATCH, which now matches nothing,
\* or gives up with an exception; the row is then in processing for nobody.
Claim(p) ==
    /\ run[p].at = "claim"
    /\ \E j \in run[p].todo :
         LET open == Claimable(j.row)
             claimed == SetRow(j.row, [queue[j.row] EXCEPT !.status = "processing"])
             next == [run[p] EXCEPT !.todo = @ \ {j}]
         IN  /\ IsFirst(j, run[p].todo)
             /\ \/ /\ open /\ claimed
                   /\ SetRun(p, [next EXCEPT !.at = "call", !.row = j.row])
                   /\ LeaseIdle
                \/ /\ ~open
                   /\ SetRun(p, next)
                   /\ LeaseIdle /\ UNCHANGED queue
                \/ /\ FaultElsewhere
                   /\ \/ open /\ claimed /\ SetRun(p, next)
                      \/ open /\ claimed /\ SetRun(p, Aborted(p))
                      \/ UNCHANGED queue /\ SetRun(p, Aborted(p))
                      \/ Drains(p) \in Tolerant /\ UNCHANGED queue /\ SetRun(p, next)
    /\ Counted

\* The work of the job at NowCerts (or, for intake_crm, at the CRM).  It may
\* land and succeed, need no write, or fail before or after the write landed.
Call(p) ==
    LET r == run[p].row
        failure == IF Drains(p) \in Tolerant THEN "failed" ELSE "error"
        lands == writes[r] < MaxWrites /\ writes' = [writes EXCEPT ![r] = @ + 1]
        ends(outcome) == SetRun(p, [run[p] EXCEPT !.at = "close", !.outcome = outcome])
    IN  /\ run[p].at = "call"
        /\ \/ lands /\ ends("completed")
           \/ r \in Silent /\ ends("completed") /\ UNCHANGED writes
           \/ ends(failure) /\ UNCHANGED writes
           \/ lands /\ ends(failure)
        /\ LeaseIdle /\ UNCHANGED <<queue, reclaims>>

Final(outcome) == IF outcome = "completed" THEN "completed" ELSE "failed"

\* The job is in the except clause of its executor.
InExcept(p) == run[p].outcome \in {"error", "lost"}

\* To the next job of the batch.
Onward(p) == [run[p] EXCEPT !.at = "claim", !.row = 0, !.outcome = "none"]

\* The final status, written by id whatever the row is now.  When the write
\* raises, applied or not, the except clause writes failed; when that raises
\* too the executor aborts.  The renewal executor swallows an error answer, and
\* has a trail to write.
Close(p) ==
    LET r == run[p].row
        written == SetRow(r, [queue[r] EXCEPT !.status = Final(run[p].outcome)])
        next == IF Drains(p) \in Tolerant THEN [run[p] EXCEPT !.at = "trail"] ELSE Onward(p)
    IN  /\ run[p].at = "close"
        /\ \/ written /\ SetRun(p, next) /\ LeaseIdle
           \/ written /\ Repeated
           \/ /\ FaultElsewhere
              /\ (~Answered /\ written) \/ UNCHANGED queue
              /\ \/ Drains(p) \in Tolerant /\ SetRun(p, next)
                 \/ ~InExcept(p) /\ SetRun(p, [run[p] EXCEPT !.outcome = "error"])
                 \/ InExcept(p) /\ SetRun(p, Aborted(p))
        /\ Counted

\* _log_trail(), after the final status, swallows an error answer but no lost
\* connection: the except clause then writes failed over what the job has just
\* become, and leaves the executor when its own trail is lost.
Trail(p) ==
    /\ run[p].at = "trail"
    /\ \/ SetRun(p, Onward(p)) /\ LeaseIdle
       \/ /\ FaultElsewhere
          /\ \/ InExcept(p) /\ SetRun(p, Aborted(p))
             \/ /\ ~InExcept(p) /\ (Answered => run[p].outcome = "completed")
                /\ SetRun(p, [run[p] EXCEPT !.at = "close", !.outcome = "lost"])
    /\ Counted /\ UNCHANGED queue

\* The batch is done.  A cycle renews between two executors, and a per-service
\* cycle after its last one too.
EndExecutor(p) ==
    LET last == run[p].step = Len(Pipeline[p])
        then == CASE ~last -> [Resting EXCEPT !.at = "select", !.step = run[p].step + 1]
                  [] last /\ p \in Replica -> [Resting EXCEPT !.at = "done"]
                  [] OTHER -> Resting
    IN  /\ run[p].at = "claim" /\ run[p].todo = {}
        /\ SetRun(p, then)
        /\ IF p \in Replica /\ (~last \/ Split) THEN Renew(p) \/ RenewFails(p) ELSE LeaseIdle
        /\ Counted /\ UNCHANGED queue

-----------------------------------------------------------------------------
(* Crashes and time                                                        *)

Crash(p) ==
    /\ IF p \in Replica THEN LeaseCrash(p) ELSE run[p].at # "rest" /\ FaultElsewhere
    /\ SetRun(p, Resting)
    /\ Counted /\ UNCHANGED queue

\* Timely deployments also finish a claimed job, with its trail, within the stall threshold.
JobsInTime == Timely => \A p \in Process :
    run[p].at \in {"call", "close", "trail"} => queue[run[p].row].age < Stall - 1

AtMost(n, bound) == IF n < bound THEN n ELSE bound

Tick ==
    /\ JobsInTime
    /\ LeaseTick
    /\ queue' = [r \in Row |->
          [queue[r] EXCEPT !.wait = Countdown(@),
                           !.age = IF queue[r].status = "processing" THEN AtMost(@ + 1, Stall) ELSE 0]]
    /\ run' = [p \in Process |->
          [run[p] EXCEPT !.since = IF run[p].at \in {"reclaim", "requeue"}
                                   THEN AtMost(@ + 1, BackoffCap) ELSE 0]]
    /\ Counted

-----------------------------------------------------------------------------
Produce(r) == Stage(r) \/ Propose(r) \/ Confirm(r)

Execute(p) == Select(p) \/ Claim(p) \/ Call(p) \/ Close(p) \/ Trail(p) \/ EndExecutor(p)

Cycle(s) ==
    \/ Acquire(s) \/ ScanStalled(s) \/ Reclaim(s) \/ ScanFailed(s) \/ Requeue(s)
    \/ StartExecutors(s) \/ EndCycle(s)

Next ==
    \/ \E r \in Row : Produce(r)
    \/ \E s \in Replica : Cycle(s)
    \/ \E p \in Loop : StartLoop(p)
    \/ \E p \in Process : Execute(p) \/ Crash(p)
    \/ Tick

Spec == Init /\ [][Next]_vars

\* Schedulers and loops keep running, and time passes.  Nobody has to confirm a
\* proposal.
Fairness ==
    /\ WF_vars(Tick)
    /\ \A s \in Replica : WF_vars(Cycle(s) \/ Execute(s))
    /\ \A p \in Loop : WF_vars(StartLoop(p) \/ Execute(p))

FairSpec == Spec /\ Fairness

-----------------------------------------------------------------------------
(* What the queue promises                                                 *)

\* The cycles and the queue share the lease protocol of SchedulerLease: every
\* step of the system is a step of the lease or leaves the lease alone.
LeaseProtocol == LeaseSpec

Holds(p, r) == run[p].at \in {"call", "close"} /\ run[p].row = r

\* Nothing reaches NowCerts for a gated job that no human approved, however the
\* proposal, the confirmation, the reads and the claims interleave
\* (renewals/writeback.py: a proposed row waits for a human to confirm).
ApprovedBeforeWritten ==
    \A r \in Row : TypeOf[r] \in Gated /\ writes[r] > 0 => queue[r].approved

\* A completed job did its work: its write landed, whoever closed the row.
CompletedMeansWritten ==
    \A r \in Row \ Silent : queue[r].status = "completed" => writes[r] > 0

\* What a job writes was approved, and what it calls done was written.
WrittenAsApproved == ApprovedBeforeWritten /\ CompletedMeansWritten

\* The properties below need a deployment in which cycles and jobs keep their
\* time limits, an applied write by id is not repeated or reported as failed, and
\* the trail of a failed job is not lost.  Crashes, lost claims, lost retries, lost
\* final writes and lost trails of completed jobs remain.
Orderly == Timely /\ Answered

\* No two processes ever work on one row, although executors also run outside
\* the lease and every process acts on what it read some steps ago.
OneExecutorPerRow ==
    Orderly => \A p, q \in Process, r \in Row : Holds(p, r) /\ Holds(q, r) => p = q

\* The attempt budget bounds the writes: each write that landed is paid for by
\* the first attempt, a counted retry, or a reclaim.
WritesWithinAttempts ==
    Orderly => \A r \in Row : writes[r] <= 1 + queue[r].attempts + reclaims[r]

\* A job is dead-lettered only when its budget is spent.
DeadMeansExhausted ==
    Orderly => \A r \in Row : queue[r].status = "dead" => queue[r].attempts = MaxAttempts - 1

\* Each row is worked by one process at a time and within the budget of its attempts.
BudgetKept == OneExecutorPerRow /\ WritesWithinAttempts /\ DeadMeansExhausted

\* Some executor is past the completion of r and has lost its trail.
LostTrail(r) ==
    \E p \in Process : run[p].at = "close" /\ run[p].row = r /\ run[p].outcome = "lost"

\* No retry pass and no other executor reopens a completed job.  Only the executor
\* that completed it may, when it loses the trail of its own job.
CompletedStays ==
    [][Orderly => \A r \in Row :
          queue[r].status = "completed" => queue'[r].status = "completed" \/ LostTrail(r)]_vars

\* Every approved job is eventually done or dead-lettered, in a timely
\* deployment where no two jobs compete for one place in the queue.
EveryJobSettles ==
    \A r \in Row : (queue[r].status = "queued" /\ queue[r].approved)
                       ~> (queue[r].status \in {"completed", "dead"})
=============================================================================
