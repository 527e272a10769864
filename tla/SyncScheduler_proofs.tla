------------------------ MODULE SyncScheduler_proofs ------------------------
(***************************************************************************)
(* Theorems of SyncScheduler, for any rows, processes, locks, pipelines    *)
(* and time limits.                                                        *)
(***************************************************************************)
EXTENDS SyncScheduler, SchedulerLease_proofs

(***************************************************************************)
(* Every step of the system is a step of the lease protocol or leaves the  *)
(* lease alone, so what SchedulerLease proves of the lease holds here.     *)
(***************************************************************************)
LEMMA LeaseStepOfNext == [Next]_vars => [LeaseNext]_leaseVars
<1> SUFFICES ASSUME [Next]_vars PROVE [LeaseNext]_leaseVars
  OBVIOUS
<1>1. CASE UNCHANGED vars
  BY <1>1 DEF vars, leaseVars
<1>2. ASSUME NEW r \in Row, Produce(r) PROVE UNCHANGED leaseVars
  BY <1>2 DEF Produce, Stage, Propose, Confirm, LeaseIdle
<1>3. ASSUME NEW s \in Replica, Cycle(s) PROVE [LeaseNext]_leaseVars
  BY <1>3 DEF Cycle, Acquire, ScanStalled, Reclaim, ScanFailed, Scan, Requeue,
              StartExecutors, EndCycle, LeaseIdle, Repeated, LeaseNext, LeaseStep
<1>4. ASSUME NEW p \in Loop, StartLoop(p) PROVE UNCHANGED leaseVars
  BY <1>4 DEF StartLoop, LeaseIdle
<1>5. ASSUME NEW p \in Process, Execute(p) PROVE [LeaseNext]_leaseVars
  <2>1. CASE Select(p)
    BY <2>1 DEF Select, LeaseIdle, LeaseNext
  <2>2. CASE Claim(p)
    BY <2>2 DEF Claim, LeaseIdle, LeaseNext
  <2>3. CASE Call(p)
    BY <2>3 DEF Call, LeaseIdle
  <2>4. CASE Close(p)
    BY <2>4 DEF Close, LeaseIdle, Repeated, LeaseNext
  <2>5. CASE EndExecutor(p)
    BY <2>5 DEF EndExecutor, LeaseIdle, LeaseNext, LeaseStep
  <2>6. CASE Trail(p)
    BY <2>6 DEF Trail, LeaseIdle, LeaseNext
  <2> QED
    BY <1>5, <2>1, <2>2, <2>3, <2>4, <2>5, <2>6 DEF Execute
<1>6. ASSUME NEW p \in Process, Crash(p) PROVE LeaseNext
  BY <1>6 DEF Crash, LeaseNext, LeaseStep
<1>7. CASE Tick
  BY <1>7 DEF Tick, LeaseNext
<1> QED
  BY <1>1, <1>2, <1>3, <1>4, <1>5, <1>6, <1>7 DEF Next

\* The system implements the lease protocol (LeaseProtocol).
THEOREM SchedulerImplementsLease == Spec => LeaseProtocol
<1>1. Init => LeaseInit
  BY DEF Init
<1> QED
  BY <1>1, LeaseStepOfNext, PTL DEF Spec, LeaseProtocol, LeaseSpec

\* Hence two cycles of one lock never overlap in a timely deployment, whatever
\* the executors and the queue do.
THEOREM SchedulerMutualExclusion == Spec => []MutualExclusion
  BY SchedulerImplementsLease, LeaseMutualExclusion, PTL DEF LeaseProtocol

-----------------------------------------------------------------------------
(***************************************************************************)
(* Type correctness.  The lemmas give the type of each value a step        *)
(* writes; a process that works on a row works on an existing one.         *)
(***************************************************************************)
LEMMA SetRowType ==
    ASSUME queue \in [Row -> QueueRow], NEW r \in Row, NEW row \in QueueRow, SetRow(r, row)
    PROVE  queue' \in [Row -> QueueRow]
<1>1. Stall \in Nat
  BY QueueAssumption
<1>2. [row EXCEPT !.age = 0] \in QueueRow
  BY <1>1 DEF QueueRow
<1> QED
  BY <1>2 DEF SetRow

LEMMA StatusType ==
    ASSUME queue \in [Row -> QueueRow], NEW r \in Row, NEW status \in Status
    PROVE  [queue[r] EXCEPT !.status = status] \in QueueRow
  BY DEF QueueRow

LEMMA SnapshotType ==
    ASSUME queue \in [Row -> QueueRow], NEW rows \in SUBSET Row
    PROVE  Snapshot(rows) \in SUBSET Read
  BY DEF Snapshot, Read, QueueRow

LEMMA BackoffType ==
    ASSUME NEW attempt \in Nat, NEW since \in 0..BackoffCap
    PROVE  Less(Backoff(attempt), since) \in 0..BackoffCap
<1>1. BackoffCap \in Nat
  BY QueueAssumption
<1>2. Backoff(attempt) \in 0..BackoffCap
  BY <1>1 DEF Backoff
<1> QED
  BY <1>1, <1>2 DEF Less

LEMMA RetriedType ==
    ASSUME queue \in [Row -> QueueRow], NEW j \in Read, NEW since \in 0..BackoffCap
    PROVE  Retried(j, since) \in QueueRow
<1> MaxAttempts \in Nat \ {0, 1}
  BY QueueAssumption
<1>1. j.row \in Row /\ j.attempts \in 0..(MaxAttempts - 1) /\ j.attempts + 1 \in Nat
  BY DEF Read, Attempts
<1>2. Less(Backoff(j.attempts + 1), since) \in 0..BackoffCap
  BY <1>1, BackoffType
<1>3. CASE j.attempts + 1 >= MaxAttempts
  BY <1>1, <1>3, StatusType DEF Retried, Status
<1>4. CASE ~(j.attempts + 1 >= MaxAttempts)
  <2>1. j.attempts + 1 \in Attempts
    BY <1>1, <1>4 DEF Attempts
  <2> QED
    BY <1>1, <1>2, <1>4, <2>1 DEF Retried, QueueRow, Status
<1> QED
  BY <1>3, <1>4

OnRow == {"call", "close", "trail"}
RowAtWork == \A p \in Process : run[p].at \in OnRow => run[p].row \in Row
TypeInv == TypeOK /\ RowAtWork

\* The part of the type invariant that belongs to the queue.
QueueTypes == /\ queue \in [Row -> QueueRow]
              /\ run \in [Process -> Run]
              /\ writes \in [Row -> Nat]
              /\ reclaims \in [Row -> Nat]
              /\ RowAtWork

LEMMA SetRunType ==
    ASSUME run \in [Process -> Run], RowAtWork, NEW p \in Process, NEW r \in Run, SetRun(p, r),
           r.at \in OnRow => r.row \in Row
    PROVE  run' \in [Process -> Run] /\ RowAtWork'
  BY DEF SetRun, RowAtWork

LEMMA RestingType ==
    Resting \in Run /\ Resting.at = "rest"
<1>1. BackoffCap \in Nat
  BY QueueAssumption
<1>2. 0 \in 0..BackoffCap
  BY <1>1
<1> QED
  BY <1>2 DEF Resting, Run, Place

\* A process that starts an executor run or a pass of a cycle.
LEMMA StartType ==
    ASSUME NEW at \in Place, NEW step \in Nat, NEW todo \in SUBSET Read
    PROVE  /\ [Resting EXCEPT !.at = at, !.step = step] \in Run
           /\ [Resting EXCEPT !.at = at, !.todo = todo] \in Run
           /\ [Resting EXCEPT !.at = at] \in Run
<1>1. Resting \in Run
  BY RestingType
<1> QED
  BY <1>1 DEF Run

LEMMA AbortedType ==
    ASSUME run \in [Process -> Run], NEW p \in Process
    PROVE  Aborted(p) \in Run /\ Aborted(p).at \in {"done", "claim"}
<1>1. run[p].step \in Nat
  BY DEF Run
<1>2. Aborted(p) = [Resting EXCEPT !.step = run[p].step, !.at = "done"] \/
      Aborted(p) = [Resting EXCEPT !.step = run[p].step, !.at = "claim"]
  BY DEF Aborted
<1>3. Resting \in Run
  BY RestingType
<1>4. [Resting EXCEPT !.step = run[p].step, !.at = "done"] \in Run /\
      [Resting EXCEPT !.step = run[p].step, !.at = "claim"] \in Run
  BY <1>1, <1>3 DEF Run, Place
<1> QED
  BY <1>2, <1>3, <1>4 DEF Run

LEMMA OnwardType ==
    ASSUME run \in [Process -> Run], NEW p \in Process
    PROVE  /\ Onward(p) \in Run /\ Onward(p).at = "claim"
           /\ Onward(p).todo = run[p].todo /\ Onward(p).outcome = "none"
  BY DEF Onward, Run, Place

LEMMA ProduceTypes ==
    ASSUME QueueTypes, NEW r \in Row, Produce(r)
    PROVE  QueueTypes'
<1> BackoffCap \in Nat /\ Stall \in Nat \ {0} /\ MaxAttempts \in Nat \ {0, 1}
  BY QueueAssumption
<1>1. Absent \in QueueRow
  BY DEF Absent, QueueRow, Status, Attempts
<1>2. [Absent EXCEPT !.status = "queued", !.approved = TRUE] \in QueueRow
  BY <1>1 DEF QueueRow, Status
<1>3. [Absent EXCEPT !.status = "queued"] \in QueueRow
  BY <1>1 DEF QueueRow, Status
<1>4. [queue[r] EXCEPT !.approved = TRUE] \in QueueRow
  BY DEF QueueTypes, QueueRow
<1>5. queue' \in [Row -> QueueRow]
  BY <1>2, <1>3, <1>4, SetRowType DEF Produce, Stage, Propose, Confirm, QueueTypes
<1> QED
  BY <1>5 DEF Produce, Stage, Propose, Confirm, Counted, QueueTypes, RowAtWork

LEMMA ScanTypes ==
    ASSUME QueueTypes, NEW s \in Replica, NEW place \in Place \ OnRow,
           NEW rows \in SUBSET Row, Scan(s, place, rows)
    PROVE  QueueTypes'
<1> s \in Process
  BY DEF Process
<1>1. Snapshot(rows) \in SUBSET Read
  BY SnapshotType DEF QueueTypes
<1>2. PICK todo \in SUBSET Read : SetRun(s, [run[s] EXCEPT !.at = place, !.todo = todo])
  BY <1>1 DEF Scan
<1>3. [run[s] EXCEPT !.at = place, !.todo = todo] \in Run
  BY DEF QueueTypes, Run
<1>4. [run[s] EXCEPT !.at = place, !.todo = todo].at = place
  BY DEF QueueTypes, Run
<1>5. run' \in [Process -> Run] /\ RowAtWork'
  BY <1>2, <1>3, <1>4, SetRunType DEF OnRow, QueueTypes
<1> QED
  BY <1>5 DEF Scan, Counted, QueueTypes

LEMMA CycleTypes ==
    ASSUME QueueTypes, NEW s \in Replica, Cycle(s)
    PROVE  QueueTypes'
<1> s \in Process
  BY DEF Process
<1>1. CASE Acquire(s)
  BY <1>1 DEF Acquire, Counted, QueueTypes, RowAtWork
<1>2. CASE ScanStalled(s)
  BY <1>2, ScanTypes DEF ScanStalled, Stalled, Rows, Place, OnRow
<1>3. CASE Reclaim(s)
  <2>1. PICK j \in run[s].todo :
          /\ SetRun(s, [run[s] EXCEPT !.todo = @ \ {j}]) \/ UNCHANGED run
          /\ \/ SetRow(j.row, [queue[j.row] EXCEPT !.status = "queued"])
             \/ UNCHANGED queue
          /\ reclaims' = [reclaims EXCEPT ![j.row] = @ + 1] \/ UNCHANGED reclaims
    BY <1>3 DEF Reclaim, Repeated
  <2>2. j.row \in Row
    BY <2>1 DEF QueueTypes, Run, Read
  <2>3. [run[s] EXCEPT !.todo = @ \ {j}] \in Run
    BY DEF QueueTypes, Run
  <2>4. run' \in [Process -> Run] /\ RowAtWork'
    BY <1>3, <2>1, <2>3, SetRunType DEF OnRow, QueueTypes, Run, Reclaim, RowAtWork
  <2>5. queue' \in [Row -> QueueRow]
    BY <2>1, <2>2, SetRowType, StatusType DEF QueueTypes, Status
  <2>6. reclaims' \in [Row -> Nat]
    BY <2>1, <2>2 DEF QueueTypes
  <2> QED
    BY <1>3, <2>4, <2>5, <2>6 DEF Reclaim, QueueTypes
<1>4. CASE ScanFailed(s)
  BY <1>4, ScanTypes DEF ScanFailed, Rows, Place, OnRow
<1>5. CASE Requeue(s)
  <2>1. PICK j \in run[s].todo :
          /\ SetRun(s, [run[s] EXCEPT !.todo = @ \ {j}]) \/ UNCHANGED run
          /\ SetRow(j.row, Retried(j, run[s].since)) \/ UNCHANGED queue
    BY <1>5 DEF Requeue, Repeated
  <2>2. j \in Read /\ j.row \in Row /\ run[s].since \in 0..BackoffCap
    BY <2>1 DEF QueueTypes, Run, Read
  <2>3. [run[s] EXCEPT !.todo = @ \ {j}] \in Run
    BY DEF QueueTypes, Run
  <2>4. run' \in [Process -> Run] /\ RowAtWork'
    BY <1>5, <2>1, <2>3, SetRunType DEF OnRow, QueueTypes, Run, Requeue, RowAtWork
  <2>5. queue' \in [Row -> QueueRow]
    BY <2>1, <2>2, SetRowType, RetriedType DEF QueueTypes
  <2> QED
    BY <1>5, <2>4, <2>5 DEF Requeue, Counted, QueueTypes
<1>6. CASE StartExecutors(s)
  <2>1. [Resting EXCEPT !.at = "select", !.step = 1] \in Run
    BY StartType DEF Place
  <2>. [Resting EXCEPT !.at = "select", !.step = 1].at = "select"
    BY DEF Resting
  <2>2. run' \in [Process -> Run] /\ RowAtWork'
    BY <1>6, <2>1, SetRunType DEF OnRow, StartExecutors, QueueTypes
  <2> QED
    BY <1>6, <2>2 DEF StartExecutors, Counted, QueueTypes
<1>7. CASE EndCycle(s)
  <2>1. run' \in [Process -> Run] /\ RowAtWork'
    BY <1>7, SetRunType, RestingType DEF EndCycle, QueueTypes, Resting, OnRow
  <2> QED
    BY <1>7, <2>1 DEF EndCycle, Counted, QueueTypes
<1> QED
  BY <1>1, <1>2, <1>3, <1>4, <1>5, <1>6, <1>7 DEF Cycle

LEMMA ExecuteTypes ==
    ASSUME QueueTypes, NEW p \in Process, Execute(p)
    PROVE  QueueTypes'
<1> run[p] \in Run
  BY DEF QueueTypes
<1>0. Aborted(p) \in Run /\ Aborted(p).at \in {"done", "claim"}
  BY AbortedType DEF QueueTypes
<1>1. CASE Select(p)
  <2> DEFINE reads == Snapshot(Oldest(Eligible(Drains(p)), Batch))
             next == [run[p] EXCEPT !.at = "claim", !.todo = reads]
  <2>1. reads \in SUBSET Read
    BY SnapshotType DEF QueueTypes, Oldest, Eligible, Rows
  <2>2. next \in Run /\ next.at = "claim"
    BY <2>1 DEF Run, Place
  <2>3. SetRun(p, next) \/ SetRun(p, Aborted(p))
    BY <1>1 DEF Select
  <2> HIDE DEF next
  <2>4. run' \in [Process -> Run] /\ RowAtWork'
    BY <1>0, <2>2, <2>3, SetRunType DEF OnRow, QueueTypes
  <2> QED
    BY <1>1, <2>4 DEF Select, Counted, QueueTypes
<1>2. CASE Claim(p)
  <2>1. PICK j \in run[p].todo :
          /\ \/ SetRow(j.row, [queue[j.row] EXCEPT !.status = "processing"])
             \/ UNCHANGED queue
          /\ \/ SetRun(p, [run[p] EXCEPT !.todo = @ \ {j}, !.at = "call", !.row = j.row])
             \/ SetRun(p, [run[p] EXCEPT !.todo = @ \ {j}])
             \/ SetRun(p, Aborted(p))
    BY <1>2 DEF Claim
  <2>2. j.row \in Row
    BY <2>1 DEF QueueTypes, Run, Read
  <2>3. queue' \in [Row -> QueueRow]
    BY <2>1, <2>2, SetRowType, StatusType DEF QueueTypes, Status
  <2>4. [run[p] EXCEPT !.todo = @ \ {j}, !.at = "call", !.row = j.row] \in Run
    BY <2>2 DEF Run, Place
  <2>5. [run[p] EXCEPT !.todo = @ \ {j}] \in Run
    BY DEF Run
  <2>6. run' \in [Process -> Run] /\ RowAtWork'
    BY <1>0, <1>2, <2>1, <2>2, <2>4, <2>5, SetRunType DEF OnRow, QueueTypes, Run, Claim
  <2> QED
    BY <1>2, <2>3, <2>6 DEF Claim, Counted, QueueTypes
<1>3. CASE Call(p)
  <2>1. PICK outcome \in {"completed", "failed", "error"} :
          SetRun(p, [run[p] EXCEPT !.at = "close", !.outcome = outcome])
    BY <1>3 DEF Call
  <2>2. run[p].row \in Row
    BY <1>3 DEF Call, QueueTypes, RowAtWork, OnRow
  <2>3. [run[p] EXCEPT !.at = "close", !.outcome = outcome] \in Run
    BY <2>1 DEF Run, Place
  <2>4. run' \in [Process -> Run] /\ RowAtWork'
    BY <2>1, <2>2, <2>3, SetRunType DEF OnRow, QueueTypes, Run
  <2>5. writes' \in [Row -> Nat]
    BY <1>3, <2>2 DEF Call, QueueTypes
  <2> QED
    BY <1>3, <2>4, <2>5 DEF Call, QueueTypes
<1>4. CASE Close(p)
  <2>1. run[p].row \in Row
    BY <1>4 DEF Close, QueueTypes, RowAtWork, OnRow
  <2>2. queue' \in [Row -> QueueRow]
    BY <1>4, <2>1, SetRowType, StatusType DEF Close, Final, QueueTypes, Status
  <2>3. \/ SetRun(p, [run[p] EXCEPT !.at = "trail"])
        \/ SetRun(p, Onward(p))
        \/ SetRun(p, [run[p] EXCEPT !.outcome = "error"])
        \/ SetRun(p, Aborted(p))
        \/ UNCHANGED run
    BY <1>4 DEF Close, Repeated
  <2>4. /\ [run[p] EXCEPT !.at = "trail"] \in Run
        /\ [run[p] EXCEPT !.at = "trail"].row = run[p].row
        /\ [run[p] EXCEPT !.outcome = "error"] \in Run
        /\ [run[p] EXCEPT !.outcome = "error"].row = run[p].row
    BY DEF Run, Place
  <2>5. run' \in [Process -> Run] /\ RowAtWork'
    <3>1. CASE UNCHANGED run
      BY <3>1 DEF QueueTypes, RowAtWork
    <3> QED
      BY <1>0, <2>1, <2>3, <2>4, <3>1, OnwardType, SetRunType DEF OnRow, QueueTypes
  <2> QED
    BY <1>4, <2>2, <2>5 DEF Close, Counted, QueueTypes
<1>6. CASE Trail(p)
  <2>1. run[p].row \in Row
    BY <1>6 DEF Trail, QueueTypes, RowAtWork, OnRow
  <2>2. \/ SetRun(p, Onward(p))
        \/ SetRun(p, Aborted(p))
        \/ SetRun(p, [run[p] EXCEPT !.at = "close", !.outcome = "lost"])
    BY <1>6 DEF Trail
  <2>3. /\ [run[p] EXCEPT !.at = "close", !.outcome = "lost"] \in Run
        /\ [run[p] EXCEPT !.at = "close", !.outcome = "lost"].row = run[p].row
    BY DEF Run, Place
  <2>4. run' \in [Process -> Run] /\ RowAtWork'
    BY <1>0, <2>1, <2>2, <2>3, OnwardType, SetRunType DEF OnRow, QueueTypes
  <2> QED
    BY <1>6, <2>4 DEF Trail, Counted, QueueTypes
<1>5. CASE EndExecutor(p)
  <2>1. run[p].step + 1 \in Nat
    BY DEF Run
  <2>2. /\ [Resting EXCEPT !.at = "select", !.step = run[p].step + 1] \in Run
        /\ [Resting EXCEPT !.at = "done"] \in Run
        /\ Resting \in Run
    BY <2>1, StartType, RestingType DEF Place
  <2>3. \/ SetRun(p, [Resting EXCEPT !.at = "select", !.step = run[p].step + 1])
        \/ SetRun(p, [Resting EXCEPT !.at = "done"])
        \/ SetRun(p, Resting)
    BY <1>5 DEF EndExecutor
  <2>4. run' \in [Process -> Run] /\ RowAtWork'
    BY <2>2, <2>3, SetRunType DEF OnRow, QueueTypes, Resting
  <2> QED
    BY <1>5, <2>4 DEF EndExecutor, Counted, QueueTypes
<1> QED
  BY <1>1, <1>2, <1>3, <1>4, <1>5, <1>6 DEF Execute

LEMMA TickTypes ==
    ASSUME QueueTypes, Tick
    PROVE  QueueTypes'
<1> BackoffCap \in Nat /\ Stall \in Nat
  BY QueueAssumption
<1>1. ASSUME NEW r \in Row
      PROVE  queue'[r] \in QueueRow
  <2>1. queue[r] \in QueueRow
    BY DEF QueueTypes
  <2>2. Countdown(queue[r].wait) \in 0..BackoffCap
    BY <2>1 DEF QueueRow, Countdown
  <2> DEFINE age == IF queue[r].status = "processing" THEN AtMost(queue[r].age + 1, Stall) ELSE 0
  <2>3. age \in 0..Stall
    BY <2>1 DEF QueueRow, AtMost
  <2>4. queue'[r] = [queue[r] EXCEPT !.wait = Countdown(queue[r].wait), !.age = age]
    BY <2>1 DEF Tick, QueueRow
  <2> HIDE DEF age
  <2> QED
    BY <2>1, <2>2, <2>3, <2>4 DEF QueueRow
<1>2. queue' \in [Row -> QueueRow]
  BY <1>1 DEF Tick
<1>3. ASSUME NEW p \in Process
      PROVE  /\ run'[p] \in Run
             /\ run'[p].at = run[p].at /\ run'[p].row = run[p].row
  <2>1. run[p] \in Run
    BY DEF QueueTypes
  <2>2. AtMost(run[p].since + 1, BackoffCap) \in 0..BackoffCap
    BY <2>1 DEF Run, AtMost
  <2>3. run'[p] = [run[p] EXCEPT !.since = IF run[p].at \in {"reclaim", "requeue"}
                                   THEN AtMost(@ + 1, BackoffCap) ELSE 0]
    BY DEF Tick
  <2> QED
    BY <2>1, <2>2, <2>3 DEF Run
<1>4. run' \in [Process -> Run]
  BY <1>3 DEF Tick
<1>5. RowAtWork'
  BY <1>3 DEF QueueTypes, RowAtWork
<1> QED
  BY <1>2, <1>4, <1>5 DEF Tick, Counted, QueueTypes

LEMMA QueueTypeStep == QueueTypes /\ [Next]_vars => QueueTypes'
<1> SUFFICES ASSUME QueueTypes, [Next]_vars PROVE QueueTypes'
  OBVIOUS
<1>1. CASE UNCHANGED vars
  BY <1>1 DEF vars, QueueTypes, RowAtWork
<1>2. ASSUME NEW p \in Loop, StartLoop(p) PROVE QueueTypes'
  <2>1. p \in Process
    BY DEF Process
  <2>2. [Resting EXCEPT !.at = "select", !.step = 1] \in Run
    BY StartType DEF Place
  <2>3. run' \in [Process -> Run] /\ RowAtWork'
    BY <1>2, <2>1, <2>2, SetRunType DEF OnRow, StartLoop, Resting, QueueTypes
  <2> QED
    BY <1>2, <2>3 DEF StartLoop, Counted, QueueTypes
<1>3. ASSUME NEW p \in Process, Crash(p) PROVE QueueTypes'
  <2>1. run' \in [Process -> Run] /\ RowAtWork'
    BY <1>3, SetRunType, RestingType DEF Crash, QueueTypes, OnRow
  <2> QED
    BY <1>3, <2>1 DEF Crash, Counted, QueueTypes
<1> QED
  BY <1>1, <1>2, <1>3, ProduceTypes, CycleTypes, ExecuteTypes, TickTypes DEF Next

LEMMA InitTypes == Init => QueueTypes
<1> SUFFICES ASSUME Init PROVE QueueTypes
  OBVIOUS
<1>1. BackoffCap \in Nat /\ Stall \in Nat \ {0} /\ MaxAttempts \in Nat \ {0, 1}
  BY QueueAssumption
<1>2. Absent \in QueueRow
  BY <1>1 DEF Absent, QueueRow, Status, Attempts
<1> QED
  BY <1>2, RestingType DEF Init, QueueTypes, RowAtWork, Resting, OnRow

\* Every reachable state has its type (TypeOK).
THEOREM SchedulerTypeCorrect == Spec => []TypeOK
<1>1. Init => QueueTypes
  BY InitTypes
<1>2. Spec => []LeaseTypeOK
  BY SchedulerImplementsLease, LeaseTypeCorrect, PTL DEF LeaseProtocol
<1>3. LeaseTypeOK /\ QueueTypes => TypeOK
  BY DEF QueueTypes, TypeOK
<1> QED
  BY <1>1, <1>2, <1>3, QueueTypeStep, PTL DEF Spec

-----------------------------------------------------------------------------
(***************************************************************************)
(* Approval.  An executor may act on a row long after it read it, so what  *)
(* has to be inductive is that the approval was already there when the row *)
(* was read and that no later step withdraws it.                           *)
(***************************************************************************)
Cleared(r) == TypeOf[r] \in Gated => queue[r].approved
AtWork == {"claim"} \cup OnRow

ApprovalInv ==
    /\ \A r \in Row : queue[r].status = "absent" => ~queue[r].approved
    /\ \A r \in Row : writes[r] > 0 => Cleared(r)
    /\ \A p \in Process : run[p].at \in AtWork => \A j \in run[p].todo : Cleared(j.row)
    /\ \A p \in Process : run[p].at \in OnRow => Cleared(run[p].row)

\* What a step may do to the status and the approval of one row.
RowStep(r) ==
    \/ queue[r].status = "absent" /\ queue'[r].status # "absent"
    \/ (queue[r].approved => queue'[r].approved) /\ queue'[r].status # "absent"
    \/ queue'[r].status = queue[r].status /\ queue'[r].approved = queue[r].approved

LEMMA SetRowStep ==
    ASSUME QueueTypes, NEW q \in Row, NEW row, SetRow(q, row), row \in QueueRow,
           row.status # "absent", queue[q].approved => row.approved
    PROVE  \A r \in Row : RowStep(r)
<1>1. queue'[q].status = row.status /\ queue'[q].approved = row.approved
  BY DEF SetRow, QueueTypes, QueueRow
<1>2. \A r \in Row : r # q => queue'[r] = queue[r]
  BY DEF SetRow, QueueTypes
<1> QED
  BY <1>1, <1>2 DEF RowStep

\* The same for the steps that only write a status.
LEMMA SetStatusStep ==
    ASSUME QueueTypes, NEW q \in Row, NEW status \in Status \ {"absent"},
           SetRow(q, [queue[q] EXCEPT !.status = status])
    PROVE  \A r \in Row : RowStep(r)
<1> DEFINE row == [queue[q] EXCEPT !.status = status]
<1>1. row \in QueueRow
  BY StatusType DEF QueueTypes
<1>2. row.status # "absent" /\ row.approved = queue[q].approved
  BY DEF QueueTypes, QueueRow
<1> HIDE DEF row
<1>3. SetRow(q, row)
  BY DEF row
<1> QED
  BY <1>1, <1>2, <1>3, SetRowStep

LEMMA SameRows == ASSUME UNCHANGED queue PROVE \A r \in Row : RowStep(r)
  BY DEF RowStep

LEMMA RetriedRow ==
    ASSUME QueueTypes, NEW j \in Read, NEW since \in 0..BackoffCap
    PROVE  /\ Retried(j, since).approved = queue[j.row].approved
           /\ Retried(j, since).status # "absent"
<1>1. queue[j.row] \in QueueRow
  BY DEF QueueTypes, Read
<1> QED
  BY <1>1 DEF Retried, QueueRow

LEMMA RowSteps ==
    ASSUME QueueTypes, Next
    PROVE  \A r \in Row : RowStep(r)
<1>1. ASSUME NEW q \in Row, Produce(q) PROVE \A r \in Row : RowStep(r)
  <2>1. CASE Stage(q) \/ Propose(q)
    <3>1. queue[q].status = "absent" /\ queue'[q].status = "queued"
      BY <2>1 DEF Stage, Propose, Insertable, SetRow, Absent, QueueTypes
    <3>2. \A r \in Row : r # q => queue'[r] = queue[r]
      BY <2>1 DEF Stage, Propose, SetRow, QueueTypes
    <3> QED
      BY <3>1, <3>2 DEF RowStep
  <2>2. CASE Confirm(q)
    <3>1. queue[q] \in QueueRow /\ queue[q].status = "queued"
      BY <2>2 DEF Confirm, QueueTypes
    <3>2. queue'[q].status = "queued" /\ queue'[q].approved
      BY <2>2, <3>1 DEF Confirm, SetRow, QueueTypes, QueueRow
    <3>3. \A r \in Row : r # q => queue'[r] = queue[r]
      BY <2>2 DEF Confirm, SetRow, QueueTypes
    <3> QED
      BY <3>2, <3>3 DEF RowStep
  <2> QED
    BY <1>1, <2>1, <2>2 DEF Produce
<1>2. ASSUME NEW s \in Replica, Cycle(s) PROVE \A r \in Row : RowStep(r)
  <2> s \in Process
    BY DEF Process
  <2>1. CASE Reclaim(s)
    <3>1. PICK j \in run[s].todo :
            SetRow(j.row, [queue[j.row] EXCEPT !.status = "queued"]) \/ UNCHANGED queue
      BY <2>1 DEF Reclaim
    <3>2. j.row \in Row
      BY <3>1 DEF QueueTypes, Run, Read
    <3> QED
      BY <3>1, <3>2, SetStatusStep, SameRows DEF Status
  <2>2. CASE Requeue(s)
    <3>1. PICK j \in run[s].todo :
            SetRow(j.row, Retried(j, run[s].since)) \/ UNCHANGED queue
      BY <2>2 DEF Requeue
    <3>2. j \in Read /\ j.row \in Row /\ run[s].since \in 0..BackoffCap
      BY <3>1 DEF QueueTypes, Run, Read
    <3>3. Retried(j, run[s].since) \in QueueRow
      BY <3>2, RetriedType DEF QueueTypes
    <3> QED
      BY <3>1, <3>2, <3>3, RetriedRow, SetRowStep, SameRows
  <2>3. CASE ~(Reclaim(s) \/ Requeue(s))
    <3>1. UNCHANGED queue
      BY <1>2, <2>3 DEF Cycle, Acquire, ScanStalled, ScanFailed, Scan, StartExecutors, EndCycle
    <3> QED
      BY <3>1, SameRows
  <2> QED
    BY <2>1, <2>2, <2>3
<1>3. ASSUME NEW p \in Process, Execute(p) PROVE \A r \in Row : RowStep(r)
  <2>1. CASE Claim(p)
    <3>1. PICK j \in run[p].todo :
            SetRow(j.row, [queue[j.row] EXCEPT !.status = "processing"]) \/ UNCHANGED queue
      BY <2>1 DEF Claim
    <3>2. j.row \in Row
      BY <3>1 DEF QueueTypes, Run, Read
    <3> QED
      BY <3>1, <3>2, SetStatusStep, SameRows DEF Status
  <2>2. CASE Close(p)
    <3>1. run[p].row \in Row
      BY <2>2 DEF Close, QueueTypes, RowAtWork, OnRow
    <3>2. Final(run[p].outcome) \in Status \ {"absent"}
      BY DEF Final, Status
    <3>3. \/ SetRow(run[p].row, [queue[run[p].row] EXCEPT !.status = Final(run[p].outcome)])
          \/ UNCHANGED queue
      BY <2>2 DEF Close
    <3> QED
      BY <3>1, <3>2, <3>3, SetStatusStep, SameRows
  <2>3. CASE ~(Claim(p) \/ Close(p))
    <3>1. UNCHANGED queue
      BY <1>3, <2>3 DEF Execute, Select, Call, Trail, EndExecutor
    <3> QED
      BY <3>1, SameRows
  <2> QED
    BY <2>1, <2>2, <2>3
<1>4. CASE Tick
  <2>1. \A r \in Row : queue'[r].status = queue[r].status /\ queue'[r].approved = queue[r].approved
    BY <1>4 DEF Tick, QueueTypes, QueueRow
  <2> QED
    BY <2>1 DEF RowStep
<1>5. ASSUME NEW p \in Process, Crash(p) \/ StartLoop(p) PROVE \A r \in Row : RowStep(r)
  BY <1>5, SameRows DEF Crash, StartLoop
<1> QED
  BY <1>1, <1>2, <1>3, <1>4, <1>5 DEF Next, Process

\* What a step may do to the place and the reads of one process: it selects
\* approved rows, goes on with what it has, or starts over with nothing.
RunStep(p) ==
    \/ run'[p].at \notin AtWork
    \/ run'[p].at \in AtWork /\ run[p].at \in AtWork /\ run'[p].todo \subseteq run[p].todo
       /\ (run'[p].at # "claim" =>
             \/ run[p].at # "claim" /\ run'[p].row = run[p].row
             \/ \E j \in run[p].todo : run'[p].row = j.row)
    \/ run'[p].at = "claim" /\ \A j \in run'[p].todo : Cleared(j.row)

LEMMA OtherRuns ==
    ASSUME QueueTypes, NEW p \in Process, NEW r, SetRun(p, r), NEW q \in Process, q # p
    PROVE  RunStep(q)
<1>1. run'[q] = run[q]
  BY DEF SetRun, QueueTypes
<1> QED
  BY <1>1 DEF RunStep, AtWork, OnRow

\* Outside its executors a cycle is not at work.
LEMMA CycleRuns ==
    ASSUME QueueTypes, NEW s \in Replica, Cycle(s), run' # run
    PROVE  \E r : SetRun(s, r) /\ r.at \notin AtWork
<1> run[s] \in Run
  BY DEF QueueTypes, Process
<1>1. CASE Acquire(s)
  BY <1>1 DEF Acquire
<1>2. CASE ScanStalled(s) \/ ScanFailed(s)
  <2>0. PICK place \in {"reclaim", "requeue"} :
          \E todo : SetRun(s, [run[s] EXCEPT !.at = place, !.todo = todo])
    BY <1>2 DEF ScanStalled, ScanFailed, Scan
  <2>1. PICK todo : SetRun(s, [run[s] EXCEPT !.at = place, !.todo = todo])
    BY <2>0
  <2>2. [run[s] EXCEPT !.at = place, !.todo = todo].at \notin AtWork
    BY <2>1 DEF Run, AtWork, OnRow
  <2> QED
    BY <2>1, <2>2
<1>3. CASE Reclaim(s) \/ Requeue(s)
  <2>1. PICK j : SetRun(s, [run[s] EXCEPT !.todo = @ \ {j}])
    BY <1>3 DEF Reclaim, Requeue, Repeated
  <2>2. [run[s] EXCEPT !.todo = @ \ {j}].at \notin AtWork
    BY <1>3 DEF Reclaim, Requeue, Run, AtWork, OnRow
  <2> QED
    BY <2>1, <2>2
<1>5. CASE StartExecutors(s)
  <2>1. [Resting EXCEPT !.at = "select", !.step = 1].at \notin AtWork
    BY DEF Resting, AtWork, OnRow
  <2> QED
    BY <1>5, <2>1 DEF StartExecutors
<1>6. CASE EndCycle(s)
  BY <1>6 DEF EndCycle, Resting, AtWork, OnRow
<1> QED
  BY <1>1, <1>2, <1>3, <1>5, <1>6 DEF Cycle

LEMMA StartRuns ==
    ASSUME NEW p \in Process, Crash(p) \/ StartLoop(p)
    PROVE  \E r : SetRun(p, r) /\ r.at \notin AtWork
<1>1. [Resting EXCEPT !.at = "select", !.step = 1].at \notin AtWork
  BY DEF Resting, AtWork, OnRow
<1>2. Resting.at \notin AtWork
  BY DEF Resting, AtWork, OnRow
<1>3. SetRun(p, Resting) \/ SetRun(p, [Resting EXCEPT !.at = "select", !.step = 1])
  BY DEF Crash, StartLoop
<1> QED
  BY <1>1, <1>2, <1>3

LEMMA RunSteps ==
    ASSUME QueueTypes, Next, NEW q \in Process
    PROVE  RunStep(q)
<1> run \in [Process -> Run] /\ run[q] \in Run
  BY DEF QueueTypes
<1>1. CASE UNCHANGED run
  BY <1>1 DEF RunStep, AtWork, OnRow
<1>2. ASSUME NEW s \in Replica, Cycle(s), run' # run PROVE RunStep(q)
  <2>1. PICK r : SetRun(s, r) /\ r.at \notin AtWork
    BY <1>2, CycleRuns
  <2>2. CASE s # q
    BY <2>1, <2>2, OtherRuns DEF Process
  <2>3. CASE s = q
    <3>1. run'[q] = r
      BY <2>1, <2>3 DEF SetRun
    <3> QED
      BY <2>1, <3>1 DEF RunStep
  <2> QED
    BY <2>2, <2>3
<1>3. ASSUME NEW p \in Process, Crash(p) \/ StartLoop(p) PROVE RunStep(q)
  <2>1. PICK r : SetRun(p, r) /\ r.at \notin AtWork
    BY <1>3, StartRuns
  <2>2. CASE p # q
    BY <2>1, <2>2, OtherRuns
  <2>3. CASE p = q
    <3>1. run'[q] = r
      BY <2>1, <2>3 DEF SetRun
    <3> QED
      BY <2>1, <3>1 DEF RunStep
  <2> QED
    BY <2>2, <2>3
<1>4. CASE Tick
  <2>1. run'[q].at = run[q].at /\ run'[q].todo = run[q].todo /\ run'[q].row = run[q].row
    BY <1>4 DEF Tick, Run
  <2> QED
    BY <2>1 DEF RunStep, AtWork, OnRow
<1>5. ASSUME NEW p \in Process, Execute(p), run' # run PROVE RunStep(q)
  <2>1. PICK r : SetRun(p, r)
    BY <1>5 DEF Execute, Select, Claim, Call, Close, Trail, Repeated, EndExecutor
  <2>2. CASE p # q
    BY <2>1, <2>2, OtherRuns
  <2> SUFFICES ASSUME p = q PROVE RunStep(q)
    BY <2>2
  <2>3. CASE SetRun(q, Aborted(q))
    <3>1. run'[q] = Aborted(q)
      BY <2>3 DEF SetRun
    <3>2. run'[q].todo = {} /\ run'[q].at \in {"done", "claim"}
      BY <3>1 DEF Aborted, Resting
    <3> QED
      BY <3>2 DEF RunStep, AtWork, OnRow
  <2>4. CASE Select(q) /\ ~SetRun(q, Aborted(q))
    <3> DEFINE rows == Oldest(Eligible(Drains(q)), Batch)
    <3>1. run'[q] = [run[q] EXCEPT !.at = "claim", !.todo = Snapshot(rows)]
      BY <2>4 DEF Select, SetRun
    <3>2. run'[q].at = "claim" /\ run'[q].todo = Snapshot(rows)
      BY <3>1 DEF Run
    <3>3. \A r2 \in rows : Cleared(r2)
      BY DEF Oldest, Eligible, Rows, Cleared
    <3>4. \A j \in Snapshot(rows) : Cleared(j.row)
      BY <3>3 DEF Snapshot
    <3> QED
      BY <3>2, <3>4 DEF RunStep
  <2>5. CASE Claim(q) /\ ~SetRun(q, Aborted(q))
    <3>1. PICK j \in run[q].todo :
            \/ SetRun(q, [run[q] EXCEPT !.todo = @ \ {j}, !.at = "call", !.row = j.row])
            \/ SetRun(q, [run[q] EXCEPT !.todo = @ \ {j}])
      BY <2>5 DEF Claim
    <3>2. run[q].at = "claim"
      BY <2>5 DEF Claim
    <3>3. CASE SetRun(q, [run[q] EXCEPT !.todo = @ \ {j}, !.at = "call", !.row = j.row])
      <4>1. run'[q].at = "call" /\ run'[q].todo = run[q].todo \ {j} /\ run'[q].row = j.row
        BY <3>3 DEF SetRun, Run
      <4> QED
        BY <3>2, <4>1 DEF RunStep, AtWork, OnRow
    <3>4. CASE SetRun(q, [run[q] EXCEPT !.todo = @ \ {j}])
      <4>1. run'[q].at = "claim" /\ run'[q].todo = run[q].todo \ {j}
        BY <3>2, <3>4 DEF SetRun, Run
      <4> QED
        BY <3>2, <4>1 DEF RunStep, AtWork, OnRow
    <3> QED
      BY <3>1, <3>3, <3>4
  <2>6. CASE Call(q)
    <3>1. PICK outcome : SetRun(q, [run[q] EXCEPT !.at = "close", !.outcome = outcome])
      BY <2>6 DEF Call
    <3>2. run'[q].at = "close" /\ run'[q].todo = run[q].todo /\ run'[q].row = run[q].row
      BY <3>1 DEF SetRun, Run
    <3> QED
      BY <2>6, <3>2 DEF Call, RunStep, AtWork, OnRow
  <2>7. CASE (Close(q) \/ Trail(q)) /\ ~SetRun(q, Aborted(q))
    <3>1. run[q].at \in {"close", "trail"}
      BY <2>7 DEF Close, Trail
    <3>2. \/ SetRun(q, Onward(q))
          \/ SetRun(q, [run[q] EXCEPT !.at = "trail"])
          \/ SetRun(q, [run[q] EXCEPT !.outcome = "error"])
          \/ SetRun(q, [run[q] EXCEPT !.at = "close", !.outcome = "lost"])
      BY <1>5, <2>7 DEF Close, Trail, Repeated
    <3>3. CASE SetRun(q, Onward(q))
      <4>1. run'[q].at = "claim" /\ run'[q].todo = run[q].todo
        BY <3>3, OnwardType DEF SetRun
      <4> QED
        BY <3>1, <4>1 DEF RunStep, AtWork, OnRow
    <3>4. CASE ~SetRun(q, Onward(q))
      <4>1. /\ run'[q].at \in {"close", "trail"} /\ run'[q].todo = run[q].todo
            /\ run'[q].row = run[q].row
        <5>1. CASE SetRun(q, [run[q] EXCEPT !.at = "trail"])
          BY <5>1 DEF SetRun, Run
        <5>2. CASE SetRun(q, [run[q] EXCEPT !.outcome = "error"])
          BY <3>1, <5>2 DEF SetRun, Run
        <5>3. CASE SetRun(q, [run[q] EXCEPT !.at = "close", !.outcome = "lost"])
          BY <5>3 DEF SetRun, Run
        <5> QED
          BY <3>2, <3>4, <5>1, <5>2, <5>3
      <4> QED
        BY <3>1, <4>1 DEF RunStep, AtWork, OnRow
    <3> QED
      BY <3>3, <3>4
  <2>8. CASE EndExecutor(q)
    <3>1. run'[q].at \notin AtWork
      BY <2>8 DEF EndExecutor, SetRun, Resting, AtWork, OnRow
    <3> QED
      BY <3>1 DEF RunStep
  <2> QED
    BY <1>5, <2>3, <2>4, <2>5, <2>6, <2>7, <2>8 DEF Execute
<1> QED
  BY <1>1, <1>2, <1>3, <1>4, <1>5 DEF Next, Process, Produce, Stage, Propose, Confirm

\* Only the call of a process at work on row r writes for r.
LEMMA WriteSteps ==
    ASSUME QueueTypes, Next, NEW r \in Row
    PROVE  \/ writes'[r] = writes[r]
           \/ /\ writes'[r] = writes[r] + 1
              /\ \E p \in Process : run[p].at = "call" /\ run[p].row = r
<1>1. ASSUME NEW p \in Process, Call(p)
      PROVE  \/ writes'[r] = writes[r]
             \/ writes'[r] = writes[r] + 1 /\ run[p].at = "call" /\ run[p].row = r
  <2>1. run[p].at = "call" /\ run[p].row \in Row
    BY <1>1 DEF Call, QueueTypes, RowAtWork, OnRow
  <2>2. writes' = writes \/ writes' = [writes EXCEPT ![run[p].row] = @ + 1]
    BY <1>1 DEF Call
  <2> QED
    BY <2>1, <2>2 DEF QueueTypes
<1>2. CASE \A p \in Process : ~Call(p)
  <2>1. UNCHANGED writes
    BY <1>2 DEF Next, Produce, Stage, Propose, Confirm, Cycle, Acquire, ScanStalled, Reclaim,
                ScanFailed, Scan, Requeue, StartExecutors, EndCycle, StartLoop, Execute, Select, Claim,
                Close, Trail, EndExecutor, Crash, Tick, Counted
  <2> QED
    BY <2>1
<1> QED
  BY <1>1, <1>2

LEMMA ApprovalStep == QueueTypes /\ ApprovalInv /\ [Next]_vars => ApprovalInv'
<1> SUFFICES ASSUME QueueTypes, ApprovalInv, [Next]_vars PROVE ApprovalInv'
  OBVIOUS
<1>1. CASE UNCHANGED vars
  BY <1>1 DEF vars, ApprovalInv, Cleared
<1>2. CASE Next
  <2>1. ASSUME NEW r \in Row PROVE Cleared(r) => Cleared(r)'
    BY <1>2, RowSteps DEF RowStep, Cleared, ApprovalInv
  <2>2. (\A r \in Row : queue[r].status = "absent" => ~queue[r].approved)'
    BY <1>2, RowSteps DEF RowStep, ApprovalInv
  <2>3. ASSUME NEW r \in Row, writes'[r] > 0 PROVE Cleared(r)'
    <3>1. CASE writes'[r] = writes[r]
      BY <2>1, <2>3, <3>1 DEF ApprovalInv
    <3>2. CASE \E p \in Process : run[p].at = "call" /\ run[p].row = r
      BY <2>1, <3>2 DEF ApprovalInv, OnRow
    <3> QED
      BY <1>2, <3>1, <3>2, WriteSteps
  <2>4. ASSUME NEW p \in Process, run'[p].at \in AtWork, NEW j \in run'[p].todo PROVE Cleared(j.row)'
    <3>1. RunStep(p)
      BY <1>2, RunSteps
    <3>2. j.row \in Row
      BY <1>2, QueueTypeStep DEF QueueTypes, Run, Read
    <3>3. Cleared(j.row)
      BY <2>4, <3>1 DEF RunStep, ApprovalInv
    <3> QED
      BY <2>1, <3>2, <3>3
  <2>5. ASSUME NEW p \in Process, run'[p].at \in OnRow PROVE Cleared(run[p].row)'
    <3>1. RunStep(p)
      BY <1>2, RunSteps
    <3>2. run'[p].row \in Row
      BY <1>2, <2>5, QueueTypeStep DEF QueueTypes, RowAtWork
    <3>3. Cleared(run'[p].row)
      BY <2>5, <3>1 DEF RunStep, AtWork, OnRow, ApprovalInv
    <3> QED
      BY <2>1, <3>2, <3>3 DEF Cleared
  <2> QED
    BY <2>2, <2>3, <2>4, <2>5 DEF ApprovalInv
<1> QED
  BY <1>1, <1>2

\* Nothing is written for a gated job without an approval (ApprovedBeforeWritten).
THEOREM SchedulerApprovalFirst == Spec => []ApprovedBeforeWritten
<1>1. Init => QueueTypes /\ ApprovalInv
  BY InitTypes DEF Init, ApprovalInv, Absent, Resting, Cleared, AtWork, OnRow
<1>2. ApprovalInv => ApprovedBeforeWritten
  BY DEF ApprovalInv, ApprovedBeforeWritten, Cleared
<1> QED
  BY <1>1, <1>2, QueueTypeStep, ApprovalStep, PTL DEF Spec

-----------------------------------------------------------------------------
(***************************************************************************)
(* Completion: who is about to close a row as completed has written for it. *)
(***************************************************************************)
CompletionInv ==
    /\ CompletedMeansWritten
    /\ \A p \in Process :
          run[p].at = "close" /\ run[p].outcome = "completed" /\ run[p].row \notin Silent
              => writes[run[p].row] > 0

\* Only a close with that outcome completes a row.
LEMMA CompletedByClose ==
    ASSUME QueueTypes, Next, NEW r \in Row, queue[r].status # "completed",
           queue'[r].status = "completed"
    PROVE  \E p \in Process : Close(p) /\ run[p].row = r /\ run[p].outcome = "completed"
<1> queue \in [Row -> QueueRow] /\ run \in [Process -> Run]
  BY DEF QueueTypes
<1>1. ASSUME NEW q \in Row, Produce(q) PROVE FALSE
  BY <1>1 DEF Produce, Stage, Propose, Confirm, SetRow, Absent, QueueRow
<1>2. ASSUME NEW s \in Replica, Cycle(s) PROVE FALSE
  <2>1. CASE Reclaim(s)
    <3>1. PICK j \in run[s].todo :
            SetRow(j.row, [queue[j.row] EXCEPT !.status = "queued"]) \/ UNCHANGED queue
      BY <2>1 DEF Reclaim
    <3> QED
      BY <3>1 DEF SetRow, QueueRow
  <2>2. CASE Requeue(s)
    <3>1. PICK j \in run[s].todo :
            SetRow(j.row, Retried(j, run[s].since)) \/ UNCHANGED queue
      BY <2>2 DEF Requeue
    <3>2. j.row \in Row
      BY <3>1 DEF Run, Read, Process
    <3>3. queue[j.row] \in QueueRow
      BY <3>2
    <3>4. Retried(j, run[s].since).status \in {"dead", "queued"}
      BY <3>3 DEF Retried, QueueRow
    <3>5. CASE SetRow(j.row, Retried(j, run[s].since)) /\ j.row = r
      <4>1. queue'[r] = [Retried(j, run[s].since) EXCEPT !.age = 0]
        BY <3>5 DEF SetRow
      <4>2. Retried(j, run[s].since) \in QueueRow
        BY <3>1, RetriedType DEF Run, Process, QueueTypes
      <4> QED
        BY <3>4, <4>1, <4>2 DEF QueueRow
    <3>6. CASE queue'[r] = queue[r]
      BY <3>6
    <3> QED
      BY <3>1, <3>2, <3>5, <3>6 DEF SetRow
  <2>3. CASE ~(Reclaim(s) \/ Requeue(s))
    BY <1>2, <2>3 DEF Cycle, Acquire, ScanStalled, ScanFailed, Scan, StartExecutors, EndCycle
  <2> QED
    BY <2>1, <2>2, <2>3
<1>3. ASSUME NEW p \in Process, Execute(p)
      PROVE  Close(p) /\ run[p].row = r /\ run[p].outcome = "completed"
  <2>1. CASE Claim(p)
    <3>1. PICK j \in run[p].todo :
            SetRow(j.row, [queue[j.row] EXCEPT !.status = "processing"]) \/ UNCHANGED queue
      BY <2>1 DEF Claim
    <3> QED
      BY <3>1 DEF SetRow, QueueRow
  <2>2. CASE Close(p)
    <3>1. \/ SetRow(run[p].row, [queue[run[p].row] EXCEPT !.status = Final(run[p].outcome)])
          \/ UNCHANGED queue
      BY <2>2 DEF Close
    <3>2. run[p].row \in Row
      BY <2>2 DEF Close, QueueTypes, RowAtWork, OnRow
    <3>3. run[p].row = r /\ Final(run[p].outcome) = "completed"
      BY <3>1, <3>2 DEF SetRow, QueueRow
    <3> QED
      BY <2>2, <3>3 DEF Final
  <2>3. CASE ~(Claim(p) \/ Close(p))
    BY <1>3, <2>3 DEF Execute, Select, Call, Trail, EndExecutor
  <2> QED
    BY <2>1, <2>2, <2>3
<1>4. CASE Tick
  BY <1>4 DEF Tick, QueueRow
<1>5. ASSUME NEW p \in Process, Crash(p) \/ StartLoop(p) PROVE FALSE
  BY <1>5 DEF Crash, StartLoop
<1> QED
  BY <1>1, <1>2, <1>3, <1>4, <1>5 DEF Next, Process

\* A call that ends as completed has written, unless the job needs no write.
LEMMA CallOutcome ==
    ASSUME QueueTypes, NEW p \in Process, Call(p), run'[p].outcome = "completed",
           run'[p].row \notin Silent
    PROVE  writes'[run'[p].row] > 0
<1> run \in [Process -> Run] /\ run[p].row \in Row
  BY DEF QueueTypes, Call, RowAtWork, OnRow
<1>1. PICK outcome : SetRun(p, [run[p] EXCEPT !.at = "close", !.outcome = outcome])
  BY DEF Call
<1>2. run'[p].row = run[p].row
  BY <1>1 DEF SetRun, Run
<1>3. CASE writes' = [writes EXCEPT ![run[p].row] = @ + 1]
  BY <1>2, <1>3 DEF QueueTypes
<1>4. CASE writes' # [writes EXCEPT ![run[p].row] = @ + 1]
  <2>1. SetRun(p, [run[p] EXCEPT !.at = "close", !.outcome = "failed"])
        \/ SetRun(p, [run[p] EXCEPT !.at = "close", !.outcome = "error"])
    BY <1>2, <1>4 DEF Call
  <2>2. run'[p].outcome # "completed"
    BY <2>1 DEF SetRun, Run
  <2> QED
    BY <2>2
<1> QED
  BY <1>3, <1>4

\* Nothing but a call brings a process to its close with that outcome.
LEMMA StaysAtClose ==
    ASSUME QueueTypes, Next, NEW p \in Process, ~Call(p), run'[p].at = "close",
           run'[p].outcome = "completed"
    PROVE  run[p].at = "close" /\ run[p].outcome = "completed" /\ run'[p].row = run[p].row
<1> run \in [Process -> Run]
  BY DEF QueueTypes
<1>1. CASE run'[p] = run[p]
  BY <1>1
<1>2. CASE Tick
  <2>1. run'[p].at = run[p].at /\ run'[p].outcome = run[p].outcome /\ run'[p].row = run[p].row
    BY <1>2 DEF Tick, Run
  <2> QED
    BY <2>1
<1>3. ASSUME NEW s \in Replica, Cycle(s) PROVE run'[p] = run[p]
  <2>1. CASE run' = run
    BY <2>1
  <2>2. CASE run' # run
    <3>1. PICK r : SetRun(s, r) /\ r.at \notin AtWork
      BY <1>3, <2>2, CycleRuns
    <3> QED
      BY <3>1 DEF SetRun, AtWork, OnRow
  <2> QED
    BY <2>1, <2>2
<1>4. ASSUME NEW q \in Process, Crash(q) \/ StartLoop(q) PROVE run'[p] = run[p]
  <2>1. PICK r : SetRun(q, r) /\ r.at \notin AtWork
    BY <1>4, StartRuns
  <2> QED
    BY <2>1 DEF SetRun, AtWork, OnRow
<1>5. ASSUME NEW q \in Process, Execute(q) PROVE run'[p] = run[p]
  <2>1. CASE q # p
    BY <1>5, <2>1 DEF Execute, Select, Claim, Call, Close, Trail, Repeated, EndExecutor, SetRun
  <2>2. CASE q = p /\ Select(p)
    BY <2>2 DEF Select, SetRun, Aborted, Resting, Run
  <2>3. CASE q = p /\ Claim(p)
    <3>1. PICK j \in run[p].todo :
            \/ SetRun(p, [run[p] EXCEPT !.todo = @ \ {j}, !.at = "call", !.row = j.row])
            \/ SetRun(p, [run[p] EXCEPT !.todo = @ \ {j}])
            \/ SetRun(p, Aborted(p))
      BY <2>3 DEF Claim
    <3>2. run[p].at = "claim"
      BY <2>3 DEF Claim
    <3> QED
      BY <3>1, <3>2 DEF SetRun, Aborted, Resting, Run
  <2>4. CASE q = p /\ (Close(p) \/ Trail(p))
    <3>1. \/ SetRun(p, [run[p] EXCEPT !.at = "trail"])
          \/ SetRun(p, Onward(p))
          \/ SetRun(p, [run[p] EXCEPT !.outcome = "error"])
          \/ SetRun(p, [run[p] EXCEPT !.at = "close", !.outcome = "lost"])
          \/ SetRun(p, Aborted(p))
          \/ UNCHANGED run
      BY <2>4 DEF Close, Trail, Repeated
    <3> QED
      BY <3>1 DEF SetRun, Aborted, Onward, Resting, Run
  <2>5. CASE q = p /\ EndExecutor(p)
    BY <2>5 DEF EndExecutor, SetRun, Resting
  <2> QED
    BY <1>5, <2>1, <2>2, <2>3, <2>4, <2>5 DEF Execute
<1> QED
  BY <1>1, <1>2, <1>3, <1>4, <1>5 DEF Next, Process, Produce, Stage, Propose, Confirm

LEMMA CompletionStep == QueueTypes /\ CompletionInv /\ [Next]_vars => CompletionInv'
<1> SUFFICES ASSUME QueueTypes, CompletionInv, [Next]_vars PROVE CompletionInv'
  OBVIOUS
<1>1. CASE UNCHANGED vars
  BY <1>1 DEF vars, CompletionInv, CompletedMeansWritten
<1> SUFFICES ASSUME Next PROVE CompletionInv'
  BY <1>1
<1>2. \A r \in Row : writes[r] > 0 => writes'[r] > 0
  BY WriteSteps DEF QueueTypes
<1>3. ASSUME NEW r \in Row \ Silent, queue'[r].status = "completed"
      PROVE  writes'[r] > 0
  <2>1. CASE queue[r].status = "completed"
    BY <1>2, <2>1 DEF CompletionInv, CompletedMeansWritten
  <2>2. CASE queue[r].status # "completed"
    <3>1. PICK p \in Process : Close(p) /\ run[p].row = r /\ run[p].outcome = "completed"
      BY <1>3, <2>2, CompletedByClose
    <3> QED
      BY <1>2, <1>3, <3>1 DEF Close, CompletionInv
  <2> QED
    BY <2>1, <2>2
<1>4. ASSUME NEW p \in Process, run'[p].at = "close", run'[p].outcome = "completed",
             run'[p].row \notin Silent
      PROVE  writes'[run'[p].row] > 0
  <2>1. CASE Call(p)
    BY <1>4, <2>1, CallOutcome
  <2>2. CASE ~Call(p)
    <3>1. run[p].at = "close" /\ run[p].outcome = "completed" /\ run[p].row = run'[p].row
      BY <1>4, <2>2, StaysAtClose
    <3>2. run[p].row \in Row
      BY <3>1 DEF QueueTypes, RowAtWork, OnRow
    <3> QED
      BY <1>2, <1>4, <3>1, <3>2 DEF CompletionInv
  <2> QED
    BY <2>1, <2>2
<1> QED
  BY <1>3, <1>4 DEF CompletionInv, CompletedMeansWritten

\* A completed job was written (CompletedMeansWritten).
THEOREM SchedulerCompletesWritten == Spec => []CompletedMeansWritten
<1>1. Init => QueueTypes /\ CompletionInv
  BY InitTypes DEF Init, CompletionInv, CompletedMeansWritten, Absent, Resting
<1>2. CompletionInv => CompletedMeansWritten
  BY DEF CompletionInv
<1> QED
  BY <1>1, <1>2, QueueTypeStep, CompletionStep, PTL DEF Spec

\* Both at once: what is written was approved, and what is called done was written
\* (WrittenAsApproved).
THEOREM SchedulerWrites == Spec => []WrittenAsApproved
  BY SchedulerApprovalFirst, SchedulerCompletesWritten, PTL DEF WrittenAsApproved

-----------------------------------------------------------------------------
(***************************************************************************)
(* The attempt budget.  Processes write rows by id, on what they read some *)
(* steps ago, so the invariant says what those reads are still worth: a    *)
(* pass of a cycle has the rows as they are, because nobody else reclaims  *)
(* or retries them and a row in a process's hands is neither stalled nor   *)
(* failed; and who has a row in hand is alone with it.                     *)
(***************************************************************************)
Reading == {"reclaim", "requeue"}

\* A replica that is anywhere in its cycle is in the cycle of the lease.
InCycle == \A s \in Replica : run[s].at # "rest" => pc[s] = "cycle"

Fresh(s) ==
    run[s].at \in Reading => \A j \in run[s].todo :
        /\ TypeOf[j.row] \in Scope[s] /\ j.attempts = queue[j.row].attempts
        /\ run[s].at = "reclaim" => queue[j.row].status = "processing" /\ queue[j.row].age = Stall
        /\ run[s].at = "requeue" => queue[j.row].status = "failed"

\* p may still write the row it took up: its work is under way, or it is completed
\* and its trail may be lost.
Working(p) == \/ run[p].at \in {"call", "close"}
              \/ run[p].at = "trail" /\ run[p].outcome = "completed"
Works(p, r) == Working(p) /\ run[p].row = r

\* p is past the final status of its row.
Late(p) == run[p].at = "trail" \/ (run[p].at = "close" /\ run[p].outcome = "lost")

InHand(r) ==
    \A p \in Process : Works(p, r) =>
        /\ \/ queue[r].status = "processing" /\ queue[r].age < Stall
           \/ queue[r].status = "completed" /\ Late(p)
        /\ \A q \in Process : Works(q, r) => q = p

\* A row whose present attempt has not written yet.
Unspent(r) == \/ queue[r].status = "queued"
              \/ \E p \in Process : run[p].at = "call" /\ run[p].row = r

Paid(r) ==
    /\ queue[r].status = "absent" => writes[r] = 0
    /\ Unspent(r) => writes[r] <= queue[r].attempts + reclaims[r]
    /\ writes[r] <= 1 + queue[r].attempts + reclaims[r]
    /\ queue[r].status = "dead" => queue[r].attempts = MaxAttempts - 1

Kept == /\ \A s \in Replica : Fresh(s)
        /\ \A r \in Row : InHand(r) /\ Paid(r)

BudgetInv == Orderly => Kept

\* A step in which p takes up neither a row nor reads: it goes on with what it
\* has, or with less.
GoesOn(p) ==
    /\ Working(p)' =>
          /\ Working(p) /\ run'[p].row = run[p].row
          /\ run'[p].at = "call" => run[p].at = "call"
          /\ Late(p) => Late(p)'
    /\ run'[p].at \in Reading => run'[p].at = run[p].at /\ run'[p].todo \subseteq run[p].todo

LEMMA SameRun == ASSUME NEW p, run'[p] = run[p] PROVE GoesOn(p)
  BY DEF GoesOn, Working, Late

LEMMA LetGo ==
    ASSUME NEW p, run'[p].at \notin {"call", "close", "trail", "reclaim", "requeue"}
    PROVE  GoesOn(p)
  BY DEF GoesOn, Working, Reading

LEMMA NotMine ==
    ASSUME QueueTypes, NEW p \in Process, NEW r, SetRun(p, r)
    PROVE  run'[p] = r /\ \A q \in Process : q # p => run'[q] = run[q] /\ GoesOn(q)
<1>1. run'[p] = r /\ \A q \in Process : q # p => run'[q] = run[q]
  BY DEF SetRun, QueueTypes
<1> QED
  BY <1>1, SameRun

(***************************************************************************)
(* In its own steps a replica is in the cycle of the lease.                *)
(***************************************************************************)
LEMMA InCycleStep == QueueTypes /\ LeaseTypeOK /\ InCycle /\ [Next]_vars => InCycle'
<1> SUFFICES ASSUME QueueTypes, LeaseTypeOK, InCycle, [Next]_vars, NEW s \in Replica,
                    run'[s].at # "rest"
             PROVE  pc'[s] = "cycle"
  BY DEF InCycle
<1> s \in Process /\ run \in [Process -> Run]
  BY DEF Process, QueueTypes
<1> pc \in [Replica -> {"idle", "insert", "cycle"}]
  BY DEF LeaseTypeOK
<1>1. CASE UNCHANGED vars
  BY <1>1 DEF vars, InCycle
<1>2. ASSUME NEW r \in Row, Produce(r) PROVE pc'[s] = "cycle"
  BY <1>2 DEF Produce, Stage, Propose, Confirm, LeaseIdle, leaseVars, InCycle
<1>3. ASSUME NEW t \in Replica, Cycle(t) PROVE pc'[s] = "cycle"
  <2> t \in Process
    BY DEF Process
  <2>1. CASE Acquire(t)
    <3>1. UNCHANGED run /\ pc[t] # "cycle"
      BY <2>1 DEF Acquire, AcquireUpdate, AcquireUpdateFails, AcquireInsert, AcquireInsertFails
    <3>2. s # t /\ pc[s] = "cycle"
      BY <3>1 DEF InCycle
    <3> QED
      BY <2>1, <3>2 DEF Acquire, AcquireUpdate, AcquireUpdateFails, AcquireInsert,
                        AcquireInsertFails, Goto
  <2>2. CASE EndCycle(t)
    <3>1. run'[t].at = "rest"
      BY <2>2, NotMine DEF EndCycle, Resting
    <3>2. s # t /\ run'[s] = run[s]
      BY <2>2, <3>1, NotMine DEF EndCycle
    <3> QED
      BY <2>2, <3>2 DEF EndCycle, Release, ReleaseFails, Goto, InCycle
  <2>3. CASE ~(Acquire(t) \/ EndCycle(t))
    <3>1. UNCHANGED pc /\ pc[t] = "cycle"
      BY <1>3, <2>3 DEF Cycle, ScanStalled, Reclaim, ScanFailed, Scan, Requeue, StartExecutors, Repeated,
                        LeaseIdle, leaseVars, FaultElsewhere, Renew, RenewFails, InCycle
    <3>2. \E r : SetRun(t, r) \/ UNCHANGED run
      BY <1>3, <2>3 DEF Cycle, ScanStalled, Reclaim, ScanFailed, Scan, Requeue, StartExecutors, Repeated
    <3>3. s # t => run'[s] = run[s]
      BY <3>2 DEF SetRun
    <3> QED
      BY <3>1, <3>3 DEF InCycle
  <2> QED
    BY <2>1, <2>2, <2>3
<1>4. ASSUME NEW p \in Loop, StartLoop(p) PROVE pc'[s] = "cycle"
  <2>1. p # s /\ run'[s] = run[s]
    BY <1>4, QueueAssumption DEF StartLoop, SetRun, Process
  <2> QED
    BY <1>4, <2>1 DEF StartLoop, LeaseIdle, leaseVars, InCycle
<1>5. ASSUME NEW p \in Process, Execute(p) PROVE pc'[s] = "cycle"
  <2>1. UNCHANGED pc /\ run[p].at # "rest"
    BY <1>5 DEF Execute, Select, Claim, Call, Close, Trail, Repeated, EndExecutor, LeaseIdle, leaseVars,
                FaultElsewhere, Renew, RenewFails
  <2>2. \E r : SetRun(p, r) \/ UNCHANGED run
    BY <1>5 DEF Execute, Select, Claim, Call, Close, Trail, Repeated, EndExecutor
  <2>3. s # p => run'[s] = run[s]
    BY <2>2 DEF SetRun
  <2> QED
    BY <2>1, <2>3 DEF InCycle
<1>6. ASSUME NEW p \in Process, Crash(p) PROVE pc'[s] = "cycle"
  <2>1. s # p /\ run'[s] = run[s]
    BY <1>6, NotMine DEF Crash, Resting
  <2> QED
    BY <1>6, <2>1 DEF Crash, LeaseCrash, FaultElsewhere, Goto, InCycle
<1>7. CASE Tick
  <2>1. run'[s].at = run[s].at
    BY <1>7 DEF Tick, Run
  <2> QED
    BY <1>7, <2>1 DEF Tick, LeaseTick, InCycle
<1> QED
  BY <1>1, <1>2, <1>3, <1>4, <1>5, <1>6, <1>7 DEF Next

(***************************************************************************)
(* A step that changes at most the row q (none if q = 0) keeps the budget  *)
(* if q is well afterwards and nobody is left with an old read of it.      *)
(***************************************************************************)
LEMMA OneRowChanges ==
    ASSUME QueueTypes, QueueTypes', Kept, NEW q \in Row \cup {0},
           \A r \in Row \ {q} : queue'[r] = queue[r] /\ writes'[r] = writes[r]
                                /\ reclaims'[r] = reclaims[r],
           \A p \in Process : \/ GoesOn(p)
                              \/ run'[p].at = "call" /\ run'[p].row = q
                              \/ run'[p].at \in Reading /\ p \in Replica /\ Fresh(p)',
           q \in Row => InHand(q)' /\ Paid(q)',
           \A s \in Replica : run'[s].at \in Reading =>
                                  Fresh(s)' \/ \A j \in run'[s].todo : j.row # q
    PROVE  Kept'
<1>1. ASSUME NEW r \in Row \ {q}, NEW p \in Process, Works(p, r)'
      PROVE  /\ GoesOn(p) /\ Works(p, r)
             /\ run'[p].at = "call" => run[p].at = "call"
             /\ Late(p) => Late(p)'
  BY <1>1 DEF Works, Working, GoesOn, Reading
<1>2. ASSUME NEW r \in Row \ {q} PROVE InHand(r)'
  BY <1>1, <1>2 DEF InHand, Kept
<1>3. ASSUME NEW r \in Row \ {q} PROVE Paid(r)'
  <2>1. Unspent(r)' => Unspent(r)
    BY <1>1 DEF Unspent, Works, Working
  <2> QED
    BY <2>1 DEF Paid, Kept
<1>4. ASSUME NEW s \in Replica PROVE Fresh(s)'
  <2>1. CASE run'[s].at \in Reading /\ ~Fresh(s)'
    <3>1. GoesOn(s)
      BY <2>1 DEF Process, Reading
    <3>2. run'[s].at = run[s].at /\ run'[s].todo \subseteq run[s].todo /\ Fresh(s)
      BY <2>1, <3>1 DEF GoesOn, Kept
    <3>3. \A j \in run'[s].todo : j.row \in Row \ {q}
      BY <2>1 DEF QueueTypes, Run, Read, Process
    <3> QED
      BY <2>1, <3>2, <3>3 DEF Fresh
  <2> QED
    BY <2>1 DEF Fresh
<1> QED
  BY <1>2, <1>3, <1>4 DEF Kept

\* A step that only moves processes, none of which takes anything up.
LEMMA OnlyRuns ==
    ASSUME QueueTypes, QueueTypes', Kept, UNCHANGED <<queue, writes, reclaims>>,
           \A p \in Process : GoesOn(p)
    PROVE  Kept'
<1>1. 0 \notin Row
  BY QueueAssumption
<1>2. \A s \in Replica : \A j \in run'[s].todo : j.row # 0
  BY <1>1 DEF QueueTypes, Run, Read, Process
<1> QED
  BY <1>1, <1>2, OneRowChanges

(***************************************************************************)
(* What a status write leaves of the rows.                                 *)
(***************************************************************************)
LEMMA RowWritten ==
    ASSUME QueueTypes, NEW q \in Row, NEW status \in Status,
           SetRow(q, [queue[q] EXCEPT !.status = status])
    PROVE  /\ queue'[q].status = status /\ queue'[q].attempts = queue[q].attempts
           /\ queue'[q].age = 0
           /\ \A r \in Row \ {q} : queue'[r] = queue[r]
  BY DEF SetRow, QueueTypes, QueueRow

\* Who has read a row for a pass, and that a row in hand is not among them.
LEMMA ReadOnce ==
    ASSUME Orderly, MutualExclusion, InCycle, Kept,
           NEW s \in Replica, NEW t \in Replica, NEW j \in run[s].todo, NEW k \in run[t].todo,
           run[s].at \in Reading, run[t].at \in Reading, j.row = k.row
    PROVE  s = t
<1>1. LockName[s] = LockName[t]
  BY ScopeAssumption DEF Kept, Fresh
<1> QED
  BY <1>1 DEF Orderly, MutualExclusion, InCycle, Reading

LEMMA ReadRow ==
    ASSUME QueueTypes, Kept, NEW s \in Replica, run[s].at \in Reading, NEW j \in run[s].todo
    PROVE  /\ queue[j.row].status \in {"processing", "failed"}
           /\ \A p \in Process : ~Works(p, j.row)
<1>1. j.row \in Row
  BY DEF QueueTypes, Run, Read, Process
<1>2. /\ queue[j.row].status \in {"processing", "failed"}
      /\ queue[j.row].status = "processing" => queue[j.row].age = Stall
  BY DEF Kept, Fresh, Reading
<1>3. Stall \in Nat
  BY QueueAssumption
<1> QED
  BY <1>1, <1>2, <1>3 DEF Kept, InHand

\* Two reads of one row in one pass are the same read.
LEMMA ReadsApart ==
    ASSUME QueueTypes, Kept, NEW s \in Replica, run[s].at \in Reading,
           NEW j \in run[s].todo, NEW k \in run[s].todo, j.row = k.row
    PROVE  j = k
<1>1. j.attempts = k.attempts
  BY DEF Kept, Fresh
<1>2. j \in [row : Row, attempts : Attempts] /\ k \in [row : Row, attempts : Attempts]
  BY DEF QueueTypes, Run, Read, Process
<1> QED
  BY <1>1, <1>2

LEMMA Counters ==
    ASSUME QueueTypes, NEW q \in Row
    PROVE  writes[q] \in Nat /\ reclaims[q] \in Nat /\ queue[q].attempts \in Nat
<1>1. MaxAttempts \in Nat
  BY QueueAssumption
<1>2. queue[q].attempts \in 0..(MaxAttempts - 1)
  BY DEF QueueTypes, QueueRow, Attempts
<1> QED
  BY <1>1, <1>2 DEF QueueTypes

\* A row nobody has in hand stays so as long as nobody takes anything up.
LEMMA NobodyHolds ==
    ASSUME NEW q, \A p \in Process : GoesOn(p) /\ ~Works(p, q)
    PROVE  InHand(q)' /\ \A p \in Process : ~Works(p, q)'
  BY DEF InHand, Works, GoesOn

(***************************************************************************)
(* The producers insert rows nobody has read, and confirm queued ones.     *)
(***************************************************************************)
LEMMA ProduceBudget ==
    ASSUME QueueTypes, QueueTypes', Kept, NEW q \in Row, Produce(q)
    PROVE  Kept'
<1>1. run' = run /\ writes' = writes /\ reclaims' = reclaims
  BY DEF Produce, Stage, Propose, Confirm, Counted
<1>2. queue[q].status \in {"absent", "queued"}
  BY DEF Produce, Stage, Propose, Confirm, Insertable
<1>3. /\ queue'[q].status = "queued"
      /\ IF queue[q].status = "absent" THEN queue'[q].attempts = 0
                                       ELSE queue'[q].attempts = queue[q].attempts
  <2>1. CASE Stage(q) \/ Propose(q)
    BY <2>1 DEF Stage, Propose, Insertable, SetRow, Absent, QueueTypes
  <2>2. CASE Confirm(q)
    <3>1. queue[q] \in QueueRow /\ queue[q].status = "queued"
      BY <2>2 DEF Confirm, QueueTypes
    <3> QED
      BY <2>2, <3>1 DEF Confirm, SetRow, QueueTypes, QueueRow
  <2> QED
    BY <2>1, <2>2 DEF Produce
<1>4. \A r \in Row \ {q} : queue'[r] = queue[r]
  BY DEF Produce, Stage, Propose, Confirm, SetRow, QueueTypes
<1>5. \A p \in Process : ~Works(p, q) /\ GoesOn(p)
  BY <1>1, <1>2, SameRun DEF Kept, InHand
<1>6. InHand(q)'
  BY <1>1, <1>5 DEF InHand, Works, Working, Late
<1>7. Paid(q)'
  <2>1. writes[q] \in Nat /\ reclaims[q] \in Nat /\ queue[q].attempts \in Nat
    BY Counters
  <2>2. writes[q] <= queue'[q].attempts + reclaims[q]
    BY <1>2, <1>3, <2>1 DEF Kept, Paid, Unspent
  <2>3. queue'[q].attempts \in Nat
    BY <1>3, <2>1
  <2> QED
    BY <1>1, <1>3, <2>1, <2>2, <2>3 DEF Paid
<1>8. \A s \in Replica : run'[s].at \in Reading => \A j \in run'[s].todo : j.row # q
  BY <1>1, <1>2, ReadRow
<1> QED
  BY <1>1, <1>4, <1>5, <1>6, <1>7, <1>8, OneRowChanges

(***************************************************************************)
(* The two passes of a cycle.                                              *)
(***************************************************************************)
LEMMA ScanBudget ==
    ASSUME QueueTypes, QueueTypes', Kept, NEW s \in Replica, ScanStalled(s) \/ ScanFailed(s)
    PROVE  Kept'
<1> s \in Process /\ run[s] \in Run
  BY DEF QueueTypes, Process
<1>1. UNCHANGED <<queue, writes, reclaims>>
  BY DEF ScanStalled, ScanFailed, Scan, Counted
<1>2. PICK place \in Reading, rows \in SUBSET Row :
        /\ \/ SetRun(s, [run[s] EXCEPT !.at = place, !.todo = Snapshot(rows)])
           \/ SetRun(s, [run[s] EXCEPT !.at = place, !.todo = {}])
        /\ place = "reclaim" => rows = Stalled(s)
        /\ place = "requeue" => rows = Rows(Scope[s], "failed")
  BY DEF ScanStalled, ScanFailed, Scan, Reading, Stalled, Rows
<1>3. /\ run'[s].at = place /\ run'[s].todo \in {Snapshot(rows), {}}
      /\ \A p \in Process \ {s} : GoesOn(p)
  <2>1. PICK todo \in {Snapshot(rows), {}} : SetRun(s, [run[s] EXCEPT !.at = place, !.todo = todo])
    BY <1>2
  <2>2. run'[s] = [run[s] EXCEPT !.at = place, !.todo = todo]
    BY <2>1, NotMine
  <2>3. \A p \in Process \ {s} : GoesOn(p)
    BY <2>1, NotMine
  <2> QED
    BY <2>2, <2>3 DEF Run
<1>4. Fresh(s)'
  <2>1. \A r \in rows : /\ TypeOf[r] \in Scope[s]
                        /\ place = "reclaim" => queue[r].status = "processing" /\ queue[r].age = Stall
                        /\ place = "requeue" => queue[r].status = "failed"
    BY <1>2 DEF Stalled, Rows, Reading
  <2>2. \A j \in run'[s].todo : j.row \in rows /\ j.attempts = queue[j.row].attempts
    BY <1>3 DEF Snapshot
  <2> QED
    BY <1>1, <1>3, <2>1, <2>2 DEF Fresh
<1>5. 0 \notin Row
  BY QueueAssumption
<1>6. \A t \in Replica : \A j \in run'[t].todo : j.row # 0
  BY <1>5 DEF QueueTypes, Run, Read, Process
<1> QED
  BY <1>1, <1>3, <1>4, <1>5, <1>6, OneRowChanges

\* Once a pass is done with a row, nobody has read it.
LEMMA DoneWith ==
    ASSUME QueueTypes, Orderly, MutualExclusion, InCycle, Kept, NEW s \in Replica,
           run[s].at \in Reading, NEW j \in run[s].todo,
           SetRun(s, [run[s] EXCEPT !.todo = @ \ {j}])
    PROVE  /\ \A p \in Process : GoesOn(p) /\ ~Works(p, j.row)
           /\ \A t \in Replica : run'[t].at \in Reading => \A k \in run'[t].todo : k.row # j.row
<1> s \in Process /\ run[s] \in Run
  BY DEF QueueTypes, Process
<1>1. /\ run'[s].at = run[s].at /\ run'[s].todo = run[s].todo \ {j}
      /\ \A p \in Process \ {s} : run'[p] = run[p] /\ GoesOn(p)
  <2>1. run'[s] = [run[s] EXCEPT !.todo = @ \ {j}]
    BY NotMine
  <2>2. \A p \in Process \ {s} : run'[p] = run[p] /\ GoesOn(p)
    BY NotMine
  <2> QED
    BY <2>1, <2>2 DEF Run
<1>2. GoesOn(s)
  BY <1>1 DEF GoesOn, Working, Late, Reading
<1>3. \A p \in Process : ~Works(p, j.row)
  BY ReadRow
<1>4. ASSUME NEW t \in Replica, run'[t].at \in Reading, NEW k \in run'[t].todo, k.row = j.row
      PROVE  FALSE
  <2>1. CASE t = s
    BY <1>1, <1>4, <2>1, ReadsApart
  <2>2. CASE t # s
    <3>1. run'[t] = run[t]
      BY <1>1, <2>2 DEF Process
    <3> QED
      BY <1>4, <2>2, <3>1, ReadOnce
  <2> QED
    BY <2>1, <2>2
<1> QED
  BY <1>1, <1>2, <1>3, <1>4

LEMMA ReclaimBudget ==
    ASSUME QueueTypes, QueueTypes', Orderly, MutualExclusion, InCycle, Kept,
           NEW s \in Replica, Reclaim(s)
    PROVE  Kept'
<1>1. run[s].at \in Reading /\ UNCHANGED writes
  BY DEF Reclaim, Reading
<1>2. PICK j \in run[s].todo :
        /\ SetRun(s, [run[s] EXCEPT !.todo = @ \ {j}])
        /\ \/ UNCHANGED <<queue, reclaims>>
           \/ /\ SetRow(j.row, [queue[j.row] EXCEPT !.status = "queued"])
              /\ reclaims' = [reclaims EXCEPT ![j.row] = @ + 1]
  BY DEF Reclaim, Repeated, Orderly
<1>3. /\ \A p \in Process : GoesOn(p) /\ ~Works(p, j.row)
      /\ \A t \in Replica : run'[t].at \in Reading => \A k \in run'[t].todo : k.row # j.row
  BY <1>1, <1>2, DoneWith
<1>4. CASE UNCHANGED <<queue, reclaims>>
  BY <1>1, <1>3, <1>4, OnlyRuns
<1>5. CASE /\ SetRow(j.row, [queue[j.row] EXCEPT !.status = "queued"])
           /\ reclaims' = [reclaims EXCEPT ![j.row] = @ + 1]
  <2> DEFINE q == j.row
  <2>1. q \in Row
    BY <1>2 DEF QueueTypes, Run, Read, Process
  <2>2. /\ queue'[q].status = "queued" /\ queue'[q].attempts = queue[q].attempts
        /\ \A r \in Row \ {q} : queue'[r] = queue[r]
    BY <1>5, <2>1, RowWritten DEF Status
  <2>3. /\ reclaims'[q] = reclaims[q] + 1
        /\ \A r \in Row \ {q} : reclaims'[r] = reclaims[r]
    BY <1>5, <2>1 DEF QueueTypes
  <2>4. InHand(q)'
    BY <1>3, NobodyHolds
  <2>5. Paid(q)'
    <3>1. writes[q] \in Nat /\ reclaims[q] \in Nat /\ queue[q].attempts \in Nat
      BY <2>1, Counters
    <3>2. writes[q] <= 1 + queue[q].attempts + reclaims[q]
      BY <2>1 DEF Kept, Paid
    <3> QED
      BY <1>1, <2>2, <2>3, <3>1, <3>2 DEF Paid
  <2> HIDE DEF q
  <2>6. \A t \in Replica : run'[t].at \in Reading => \A k \in run'[t].todo : k.row # q
    BY <1>3 DEF q
  <2> QED
    BY <1>1, <1>3, <2>1, <2>2, <2>3, <2>4, <2>5, <2>6, OneRowChanges
<1> QED
  BY <1>2, <1>4, <1>5

LEMMA RequeueBudget ==
    ASSUME QueueTypes, QueueTypes', Orderly, MutualExclusion, InCycle, Kept,
           NEW s \in Replica, Requeue(s)
    PROVE  Kept'
<1>1. run[s].at \in Reading /\ UNCHANGED <<writes, reclaims>>
  BY DEF Requeue, Reading, Counted
<1>2. PICK j \in run[s].todo :
        /\ SetRun(s, [run[s] EXCEPT !.todo = @ \ {j}])
        /\ UNCHANGED queue \/ SetRow(j.row, Retried(j, run[s].since))
  BY DEF Requeue, Repeated, Orderly
<1>3. /\ \A p \in Process : GoesOn(p) /\ ~Works(p, j.row)
      /\ \A t \in Replica : run'[t].at \in Reading => \A k \in run'[t].todo : k.row # j.row
  BY <1>1, <1>2, DoneWith
<1>4. CASE UNCHANGED queue
  BY <1>1, <1>3, <1>4, OnlyRuns
<1>5. CASE SetRow(j.row, Retried(j, run[s].since))
  <2> DEFINE q == j.row
  <2>1. q \in Row /\ j \in Read /\ run[s].since \in 0..BackoffCap
    BY <1>2 DEF QueueTypes, Run, Read, Process
  <2>2. MaxAttempts \in Nat \ {0, 1}
    BY QueueAssumption
  <2>3. queue[q] \in QueueRow /\ j.attempts \in 0..(MaxAttempts - 1) /\ j.attempts = queue[q].attempts
    BY <1>1, <1>2, <2>1 DEF QueueTypes, Read, Attempts, Kept, Fresh
  <2>4. /\ queue'[q].status = Retried(j, run[s].since).status
        /\ queue'[q].attempts = Retried(j, run[s].since).attempts
        /\ \A r \in Row \ {q} : queue'[r] = queue[r]
    <3>1. Retried(j, run[s].since) \in QueueRow
      BY <2>1, RetriedType DEF QueueTypes
    <3> QED
      BY <1>5, <2>1, <3>1 DEF SetRow, QueueTypes, QueueRow
  <2>5. \/ queue'[q].status = "dead" /\ queue'[q].attempts = MaxAttempts - 1
                                     /\ queue'[q].attempts = queue[q].attempts
        \/ queue'[q].status = "queued" /\ queue'[q].attempts = queue[q].attempts + 1
    <3>1. CASE j.attempts + 1 >= MaxAttempts
      <4>1. j.attempts = MaxAttempts - 1
        BY <2>2, <2>3, <3>1
      <4>2. Retried(j, run[s].since).status = "dead"
            /\ Retried(j, run[s].since).attempts = queue[q].attempts
        BY <2>3, <3>1 DEF Retried, QueueRow
      <4> QED
        BY <2>3, <2>4, <4>1, <4>2
    <3>2. CASE ~(j.attempts + 1 >= MaxAttempts)
      <4>1. Retried(j, run[s].since).status = "queued"
            /\ Retried(j, run[s].since).attempts = j.attempts + 1
        BY <2>3, <3>2 DEF Retried, QueueRow
      <4> QED
        BY <2>3, <2>4, <4>1
    <3> QED
      BY <3>1, <3>2
  <2>6. ~Unspent(q)' \/ queue'[q].status = "queued"
    BY <1>3 DEF Unspent, GoesOn, Works, Working
  <2>7. InHand(q)'
    BY <1>3, NobodyHolds
  <2>8. Paid(q)'
    <3>1. writes[q] \in Nat /\ reclaims[q] \in Nat /\ queue[q].attempts \in Nat
      BY <2>1, Counters
    <3>2. writes[q] <= 1 + queue[q].attempts + reclaims[q]
      BY <2>1 DEF Kept, Paid
    <3> QED
      BY <1>1, <2>5, <2>6, <3>1, <3>2 DEF Paid
  <2> HIDE DEF q
  <2>9. \A t \in Replica : run'[t].at \in Reading => \A k \in run'[t].todo : k.row # q
    BY <1>3 DEF q
  <2> QED
    BY <1>1, <1>3, <2>1, <2>4, <2>7, <2>8, <2>9, OneRowChanges
<1> QED
  BY <1>2, <1>4, <1>5

(***************************************************************************)
(* The executors.  Nobody but the claimer takes up a row, and the row of a *)
(* call or a close is in no pass.                                          *)
(***************************************************************************)
LEMMA ClaimBudget ==
    ASSUME QueueTypes, QueueTypes', Kept, NEW p \in Process, Claim(p)
    PROVE  Kept'
<1> run[p] \in Run /\ Stall \in Nat \ {0}
  BY QueueAssumption DEF QueueTypes
<1>1. run[p].at = "claim" /\ UNCHANGED <<writes, reclaims>>
  BY DEF Claim, Counted
<1>2. PICK j \in run[p].todo :
        \/ /\ queue[j.row].status = "queued"
           /\ SetRow(j.row, [queue[j.row] EXCEPT !.status = "processing"])
           /\ \/ SetRun(p, [run[p] EXCEPT !.todo = @ \ {j}, !.at = "call", !.row = j.row])
              \/ SetRun(p, [run[p] EXCEPT !.todo = @ \ {j}])
              \/ SetRun(p, Aborted(p))
        \/ /\ UNCHANGED queue
           /\ SetRun(p, [run[p] EXCEPT !.todo = @ \ {j}]) \/ SetRun(p, Aborted(p))
  BY DEF Claim, Claimable
<1>3. \A r \in Process \ {p} : run'[r] = run[r] /\ GoesOn(r)
  <2>1. \E r : SetRun(p, r)
    BY <1>2
  <2> QED
    BY <2>1, NotMine
<1>4. ASSUME SetRun(p, [run[p] EXCEPT !.todo = @ \ {j}]) \/ SetRun(p, Aborted(p))
      PROVE  GoesOn(p) /\ run'[p].at \notin {"call", "close", "trail"}
  <2>1. run'[p] = [run[p] EXCEPT !.todo = @ \ {j}] \/ run'[p] = Aborted(p)
    BY <1>4, NotMine
  <2>2. run'[p].at \in {"claim", "done"}
    BY <1>1, <2>1, AbortedType DEF QueueTypes, Run
  <2> QED
    BY <2>2, LetGo
<1>5. CASE UNCHANGED queue /\ (SetRun(p, [run[p] EXCEPT !.todo = @ \ {j}]) \/ SetRun(p, Aborted(p)))
  BY <1>1, <1>3, <1>4, <1>5, OnlyRuns
<1>6. CASE queue[j.row].status = "queued"
           /\ SetRow(j.row, [queue[j.row] EXCEPT !.status = "processing"])
  <2>1. PICK q \in Row : q = j.row
    BY <1>2 DEF QueueTypes, Run, Read
  <2>2. /\ queue'[q].status = "processing" /\ queue'[q].attempts = queue[q].attempts
        /\ queue'[q].age = 0
        /\ \A r \in Row \ {q} : queue'[r] = queue[r]
    BY <1>6, <2>1, RowWritten DEF Status
  <2>3. \A r \in Process : ~Works(r, q)
    BY <1>6, <2>1 DEF Kept, InHand
  <2>4. GoesOn(p) \/ (run'[p].at = "call" /\ run'[p].row = q)
    <3>1. CASE SetRun(p, [run[p] EXCEPT !.todo = @ \ {j}, !.at = "call", !.row = j.row])
      <4>1. run'[p] = [run[p] EXCEPT !.todo = @ \ {j}, !.at = "call", !.row = j.row]
        BY <3>1, NotMine
      <4> QED
        BY <2>1, <4>1 DEF Run
    <3> QED
      BY <1>2, <1>4, <3>1
  <2>5. \A r \in Process \ {p} : ~Works(r, q)'
    BY <1>3, <2>3 DEF Works, Working
  <2>6. InHand(q)'
    BY <2>2, <2>5 DEF InHand
  <2>7. Paid(q)'
    <3>1. writes[q] \in Nat /\ reclaims[q] \in Nat /\ queue[q].attempts \in Nat
      BY Counters
    <3>2. writes[q] <= queue[q].attempts + reclaims[q]
      BY <1>6, <2>1 DEF Kept, Paid, Unspent
    <3> QED
      BY <1>1, <2>2, <3>1, <3>2 DEF Paid
  <2>8. \A s \in Replica : run'[s].at \in Reading => \A k \in run'[s].todo : k.row # q
    <3>1. ASSUME NEW s \in Replica, run'[s].at \in Reading PROVE s # p /\ run'[s] = run[s]
      <4>1. s # p
        BY <1>1, <1>4, <2>4, <3>1 DEF GoesOn, Reading
      <4> QED
        BY <1>3, <4>1 DEF Process
    <3> QED
      BY <1>6, <2>1, <3>1, ReadRow
  <2> QED
    BY <1>1, <1>3, <2>2, <2>4, <2>6, <2>7, <2>8, OneRowChanges
<1> QED
  BY <1>2, <1>5, <1>6

\* The row of a process at work is in no pass, now or after its step.
LEMMA WorkedRow ==
    ASSUME QueueTypes, Kept, NEW p \in Process, run[p].at \in {"call", "close"},
           NEW r, SetRun(p, r) \/ UNCHANGED run, r.at \notin Reading
    PROVE  \A s \in Replica : run'[s].at \in Reading => \A k \in run'[s].todo : k.row # run[p].row
<1>1. ASSUME NEW s \in Replica, run'[s].at \in Reading PROVE run'[s] = run[s]
  <2>1. CASE UNCHANGED run
    BY <2>1
  <2>2. CASE SetRun(p, r)
    BY <1>1, <2>2, NotMine DEF Process
  <2> QED
    BY <2>1, <2>2
<1>2. Works(p, run[p].row)
  BY DEF Works, Working
<1> QED
  BY <1>1, <1>2, ReadRow

LEMMA CallBudget ==
    ASSUME QueueTypes, QueueTypes', Kept, NEW p \in Process, Call(p)
    PROVE  Kept'
<1> run[p] \in Run
  BY DEF QueueTypes
<1> PICK q \in Row : q = run[p].row
  BY DEF Call, QueueTypes, RowAtWork, OnRow
<1>1. run[p].at = "call" /\ UNCHANGED <<queue, reclaims>>
  BY DEF Call
<1>2. PICK outcome : SetRun(p, [run[p] EXCEPT !.at = "close", !.outcome = outcome])
  BY DEF Call
<1>3. /\ run'[p].at = "close" /\ run'[p].row = q
      /\ \A r \in Process \ {p} : run'[r] = run[r] /\ GoesOn(r)
  <2>1. run'[p] = [run[p] EXCEPT !.at = "close", !.outcome = outcome]
    BY <1>2, NotMine
  <2>2. \A r \in Process \ {p} : run'[r] = run[r] /\ GoesOn(r)
    BY <1>2, NotMine
  <2> QED
    BY <2>1, <2>2 DEF Run
<1>4. GoesOn(p)
  BY <1>1, <1>3 DEF GoesOn, Working, Late, Reading
<1>5. writes' = writes \/ writes' = [writes EXCEPT ![q] = @ + 1]
  BY DEF Call
<1>6. writes'[q] \in {writes[q], writes[q] + 1} /\ \A r \in Row \ {q} : writes'[r] = writes[r]
  BY <1>1, <1>5 DEF QueueTypes
<1>7. /\ queue[q].status = "processing" /\ queue[q].age < Stall
      /\ \A r \in Process : Works(r, q) => r = p
  BY <1>1 DEF Kept, InHand, Works, Working, Late
<1>8. InHand(q)'
  <2>1. \A r \in Process : Works(r, q)' => Works(r, q)
    BY <1>1, <1>3 DEF Works, Working
  <2> QED
    BY <1>1, <1>7, <2>1 DEF InHand
<1>9. Paid(q)'
  <2>1. writes[q] \in Nat /\ reclaims[q] \in Nat /\ queue[q].attempts \in Nat
    BY <1>1, Counters
  <2>3. ~Unspent(q)'
    <3>1. \A r \in Process \ {p} : ~Works(r, q)'
      BY <1>3, <1>7 DEF Works, Working
    <3> QED
      BY <1>1, <1>3, <1>7, <3>1 DEF Unspent, Works, Working
  <2>4. writes[q] <= queue[q].attempts + reclaims[q]
    BY <1>1 DEF Kept, Paid, Unspent
  <2> QED
    BY <1>1, <1>6, <1>7, <2>1, <2>3, <2>4 DEF Paid
<1>10. \A s \in Replica : run'[s].at \in Reading => \A k \in run'[s].todo : k.row # q
  <2>1. [run[p] EXCEPT !.at = "close", !.outcome = outcome].at \notin Reading
    BY DEF Run, Reading
  <2> QED
    BY <1>1, <1>2, <2>1, WorkedRow
<1> QED
  BY <1>1, <1>3, <1>4, <1>6, <1>8, <1>9, <1>10, OneRowChanges

LEMMA CloseBudget ==
    ASSUME QueueTypes, QueueTypes', Orderly, Kept, NEW p \in Process, Close(p)
    PROVE  Kept'
<1> DEFINE trail == [run[p] EXCEPT !.at = "trail"]
           error == [run[p] EXCEPT !.outcome = "error"]
<1> run[p] \in Run
  BY DEF QueueTypes
<1> PICK q \in Row : q = run[p].row
  BY DEF Close, QueueTypes, RowAtWork, OnRow
<1>1. run[p].at = "close" /\ UNCHANGED <<writes, reclaims>>
  BY DEF Close, Counted
<1>2. \/ /\ SetRow(q, [queue[q] EXCEPT !.status = Final(run[p].outcome)])
         /\ SetRun(p, trail) \/ SetRun(p, Onward(p))
      \/ /\ UNCHANGED queue
         /\ \/ SetRun(p, trail) \/ SetRun(p, Onward(p)) \/ SetRun(p, Aborted(p))
            \/ SetRun(p, error) /\ ~InExcept(p)
  BY DEF Close, Repeated, Orderly
<1>3. \A r \in Process \ {p} : run'[r] = run[r] /\ GoesOn(r)
  <2>1. \E r : SetRun(p, r)
    BY <1>2
  <2> QED
    BY <2>1, NotMine
<1>4. /\ trail.at = "trail" /\ trail.row = run[p].row /\ trail.outcome = run[p].outcome
      /\ error.at = "close" /\ error.row = run[p].row
      /\ Onward(p).at = "claim" /\ Aborted(p).at \in {"claim", "done"}
  BY <1>1, OnwardType, AbortedType DEF QueueTypes, Run
<1> HIDE DEF trail, error
<1>5. GoesOn(p)
  <2>1. CASE SetRun(p, Onward(p)) \/ SetRun(p, Aborted(p))
    <3>1. run'[p].at \in {"claim", "done"}
      BY <1>4, <2>1, NotMine
    <3> QED
      BY <3>1, LetGo
  <2>2. CASE SetRun(p, trail)
    <3>1. run'[p] = trail
      BY <2>2, NotMine
    <3> QED
      BY <1>1, <1>4, <3>1 DEF GoesOn, Working, Late, Reading
  <2>3. CASE SetRun(p, error) /\ ~InExcept(p)
    <3>1. run'[p] = error
      BY <2>3, NotMine
    <3>2. ~Late(p)
      BY <1>1, <2>3 DEF Late, InExcept
    <3> QED
      BY <1>1, <1>4, <3>1, <3>2 DEF GoesOn, Working, Reading
  <2> QED
    BY <1>2, <2>1, <2>2, <2>3
<1>6. CASE UNCHANGED queue
  BY <1>1, <1>3, <1>5, <1>6, OnlyRuns
<1>7. CASE /\ SetRow(q, [queue[q] EXCEPT !.status = Final(run[p].outcome)])
           /\ SetRun(p, trail) \/ SetRun(p, Onward(p))
  <2>1. /\ queue'[q].status = Final(run[p].outcome) /\ queue'[q].attempts = queue[q].attempts
        /\ \A r \in Row \ {q} : queue'[r] = queue[r]
    BY <1>1, <1>7, RowWritten DEF Status, Final
  <2>2. \A r \in Process : Works(r, q) => r = p
    BY <1>1 DEF Kept, InHand, Works, Working
  <2>3. run'[p] \in {trail, Onward(p)}
    BY <1>7, NotMine
  <2>4. \A r \in Process : Works(r, q)' => r = p
    BY <1>3, <2>2 DEF Works, Working
  <2>5. Works(p, q)' => queue'[q].status = "completed" /\ Late(p)'
    BY <1>4, <2>1, <2>3 DEF Works, Working, Late, Final
  <2>6. InHand(q)'
    BY <2>4, <2>5 DEF InHand
  <2>7. Paid(q)'
    <3>1. queue'[q].status \in {"completed", "failed"}
      BY <2>1 DEF Final
    <3>2. \A r \in Process : ~(run'[r].at = "call" /\ run'[r].row = q)
      BY <1>4, <2>3, <2>4 DEF Works, Working
    <3>3. ~Unspent(q)'
      BY <3>1, <3>2 DEF Unspent
    <3> QED
      BY <1>1, <2>1, <3>1, <3>3 DEF Kept, Paid
  <2>8. \A s \in Replica : run'[s].at \in Reading => \A k \in run'[s].todo : k.row # q
    <3>1. trail.at \notin Reading /\ Onward(p).at \notin Reading
      BY <1>4 DEF Reading
    <3> QED
      BY <1>1, <1>7, <3>1, WorkedRow
  <2> QED
    BY <1>1, <1>3, <1>5, <2>1, <2>6, <2>7, <2>8, OneRowChanges
<1> QED
  BY <1>2, <1>6, <1>7

\* The trail of a completed job may bring its process back to the row.
LEMMA TrailBudget ==
    ASSUME QueueTypes, QueueTypes', Orderly, Kept, NEW p \in Process, Trail(p)
    PROVE  Kept'
<1> DEFINE lost == [run[p] EXCEPT !.at = "close", !.outcome = "lost"]
<1> run[p] \in Run
  BY DEF QueueTypes
<1>1. run[p].at = "trail" /\ UNCHANGED <<queue, writes, reclaims>>
  BY DEF Trail, Counted
<1>2. \/ SetRun(p, Onward(p)) \/ SetRun(p, Aborted(p))
      \/ SetRun(p, lost) /\ run[p].outcome = "completed"
  BY DEF Trail, Orderly
<1>3. /\ lost.at = "close" /\ lost.outcome = "lost" /\ lost.row = run[p].row
      /\ Onward(p).at = "claim" /\ Aborted(p).at \in {"claim", "done"}
  BY OnwardType, AbortedType DEF QueueTypes, Run
<1> HIDE DEF lost
<1>4. GoesOn(p)
  <2>1. CASE SetRun(p, Onward(p)) \/ SetRun(p, Aborted(p))
    <3>1. run'[p].at \in {"claim", "done"}
      BY <1>3, <2>1, NotMine
    <3> QED
      BY <3>1, LetGo
  <2>2. CASE SetRun(p, lost) /\ run[p].outcome = "completed"
    <3>1. run'[p] = lost
      BY <2>2, NotMine
    <3> QED
      BY <1>1, <1>3, <2>2, <3>1 DEF GoesOn, Working, Late, Reading
  <2> QED
    BY <1>2, <2>1, <2>2
<1>5. \A r \in Process \ {p} : GoesOn(r)
  BY <1>2, NotMine
<1> QED
  BY <1>1, <1>4, <1>5, OnlyRuns

(***************************************************************************)
(* The other steps move processes only, none of which takes anything up.   *)
(***************************************************************************)
LEMMA MoveBudget ==
    ASSUME QueueTypes, QueueTypes', Kept, NEW p \in Process,
           \/ p \in Replica /\ (Acquire(p) \/ StartExecutors(p) \/ EndCycle(p))
           \/ p \in Loop /\ StartLoop(p)
           \/ Select(p) \/ EndExecutor(p) \/ Crash(p)
    PROVE  Kept'
<1> run[p] \in Run
  BY DEF QueueTypes
<1>1. UNCHANGED <<queue, writes, reclaims>>
  BY DEF Acquire, StartExecutors, EndCycle, StartLoop, Select, EndExecutor, Crash, Counted
<1>2. ASSUME NEW r, SetRun(p, r), r.at \notin {"call", "close", "trail", "reclaim", "requeue"}
      PROVE  \A q \in Process : GoesOn(q)
  <2>1. GoesOn(p)
    BY <1>2, NotMine, LetGo
  <2> QED
    BY <1>2, <2>1, NotMine
<1>3. CASE UNCHANGED run
  BY <1>1, <1>3, SameRun, OnlyRuns
<1>4. CASE SetRun(p, Resting) \/ SetRun(p, [Resting EXCEPT !.at = "select", !.step = 1])
  <2>1. /\ Resting.at \notin {"call", "close", "trail", "reclaim", "requeue"}
        /\ [Resting EXCEPT !.at = "select", !.step = 1].at \notin {"call", "close", "trail", "reclaim", "requeue"}
    BY DEF Resting
  <2> QED
    BY <1>1, <1>2, <1>4, <2>1, OnlyRuns
<1>5. CASE Select(p)
  <2>1. CASE SetRun(p, Aborted(p))
    <3>1. Aborted(p).at \notin {"call", "close", "trail", "reclaim", "requeue"}
      BY AbortedType DEF QueueTypes
    <3> QED
      BY <1>1, <1>2, <2>1, <3>1, OnlyRuns
  <2>2. CASE ~SetRun(p, Aborted(p))
    <3> DEFINE r == [run[p] EXCEPT !.at = "claim",
                        !.todo = Snapshot(Oldest(Eligible(Drains(p)), Batch))]
    <3>1. SetRun(p, r)
      BY <1>5, <2>2 DEF Select
    <3>2. r.at \notin {"call", "close", "trail", "reclaim", "requeue"}
      BY DEF Run
    <3> HIDE DEF r
    <3> QED
      BY <1>1, <1>2, <3>1, <3>2, OnlyRuns
  <2> QED
    BY <2>1, <2>2
<1>6. CASE EndExecutor(p)
  <2>1. PICK r : /\ SetRun(p, r)
                 /\ r \in {[Resting EXCEPT !.at = "select", !.step = run[p].step + 1],
                           [Resting EXCEPT !.at = "done"], Resting}
    BY <1>6 DEF EndExecutor
  <2>2. /\ [Resting EXCEPT !.at = "select", !.step = run[p].step + 1].at = "select"
        /\ [Resting EXCEPT !.at = "done"].at = "done" /\ Resting.at = "rest"
    BY DEF Resting
  <2>3. r.at \in {"select", "done", "rest"}
    BY <2>1, <2>2
  <2> QED
    BY <1>1, <1>2, <2>1, <2>3, OnlyRuns
<1> QED
  BY <1>3, <1>4, <1>5, <1>6 DEF Acquire, StartExecutors, EndCycle, StartLoop, Crash

(***************************************************************************)
(* Time: no job in hand becomes stalled, and what is stalled stays so.     *)
(***************************************************************************)
LEMMA TickBudget ==
    ASSUME QueueTypes, Orderly, Kept, Tick
    PROVE  Kept'
<1>1. Stall \in Nat \ {0}
  BY QueueAssumption
<1>2. UNCHANGED <<writes, reclaims>>
  BY DEF Tick, Counted
<1>3. ASSUME NEW p \in Process
      PROVE  /\ run'[p].at = run[p].at /\ run'[p].row = run[p].row
             /\ run'[p].todo = run[p].todo /\ run'[p].outcome = run[p].outcome
  BY DEF Tick, QueueTypes, Run
<1>4. ASSUME NEW r \in Row
      PROVE  /\ queue'[r].status = queue[r].status /\ queue'[r].attempts = queue[r].attempts
             /\ queue[r].status = "processing" => queue'[r].age = AtMost(queue[r].age + 1, Stall)
  BY DEF Tick, QueueTypes, QueueRow
<1>5. ASSUME NEW r \in Row PROVE InHand(r)'
  <2>1. \A p \in Process : (Works(p, r)' <=> Works(p, r)) /\ (Late(p)' <=> Late(p))
    BY <1>3 DEF Works, Working, Late
  <2>2. SUFFICES ASSUME NEW p \in Process, Works(p, r)
                 PROVE  \/ queue'[r].status = "processing" /\ queue'[r].age < Stall
                        \/ queue'[r].status = "completed" /\ Late(p)
    BY <2>1 DEF Kept, InHand
  <2>3. CASE queue[r].status = "processing"
    <3>1. queue[r].age < Stall - 1
      BY <2>2 DEF Tick, JobsInTime, Orderly, Works, Working
    <3>2. queue[r].age \in 0..Stall
      BY DEF QueueTypes, QueueRow
    <3>3. queue'[r].age < Stall
      BY <1>1, <1>4, <2>3, <3>1, <3>2 DEF AtMost
    <3> QED
      BY <1>4, <2>3, <3>3
  <2>4. CASE queue[r].status = "completed" /\ Late(p)
    BY <1>4, <2>4
  <2> QED
    BY <2>2, <2>3, <2>4 DEF Kept, InHand
<1>6. ASSUME NEW r \in Row PROVE Paid(r)'
  BY <1>2, <1>3, <1>4 DEF Kept, Paid, Unspent
<1>7. ASSUME NEW s \in Replica PROVE Fresh(s)'
  <2>1. run'[s].at = run[s].at /\ run'[s].todo = run[s].todo
    BY <1>3 DEF Process
  <2>2. \A j \in run[s].todo : j.row \in Row
    BY DEF QueueTypes, Run, Read, Process
  <2>3. AtMost(Stall + 1, Stall) = Stall
    BY <1>1 DEF AtMost
  <2> QED
    BY <1>4, <2>1, <2>2, <2>3 DEF Kept, Fresh
<1> QED
  BY <1>5, <1>6, <1>7 DEF Kept

LEMMA BudgetStep ==
    QueueTypes /\ MutualExclusion /\ InCycle /\ BudgetInv /\ [Next]_vars => BudgetInv'
<1> SUFFICES ASSUME QueueTypes, MutualExclusion, InCycle, Kept, Orderly, [Next]_vars PROVE Kept'
  BY DEF BudgetInv, Orderly
<1>1. QueueTypes'
  BY QueueTypeStep
<1>2. CASE UNCHANGED vars
  BY <1>1, <1>2, SameRun, OnlyRuns DEF vars
<1>3. ASSUME NEW s \in Replica, Cycle(s) PROVE Kept'
  BY <1>1, <1>3, ScanBudget, ReclaimBudget, RequeueBudget, MoveBudget DEF Cycle, Process
<1>4. ASSUME NEW p \in Process, Execute(p) PROVE Kept'
  BY <1>1, <1>4, ClaimBudget, CallBudget, CloseBudget, TrailBudget, MoveBudget DEF Execute
<1> QED
  BY <1>1, <1>2, <1>3, <1>4, ProduceBudget, MoveBudget, TickBudget DEF Next, Process

LEMMA InitBudget == Init => InCycle /\ BudgetInv
<1> SUFFICES ASSUME Init PROVE InCycle /\ Kept
  BY DEF BudgetInv
<1>1. \A p \in Process : run[p].at = "rest"
  BY DEF Init, Resting
<1>2. \A r \in Row : queue[r].status = "absent" /\ queue[r].attempts = 0 /\ writes[r] = 0
                     /\ reclaims[r] = 0
  BY DEF Init, Absent
<1> QED
  BY <1>1, <1>2 DEF InCycle, Kept, Fresh, InHand, Paid, Unspent, Works, Working, Reading, Process

\* What the proofs of the budget rest on, in one invariant.
QueueInv == QueueTypes /\ LeaseInv /\ InCycle /\ BudgetInv

THEOREM SchedulerQueueInvariant == Spec => []QueueInv
<1>1. Init => QueueTypes /\ InCycle /\ BudgetInv
  BY InitTypes, InitBudget
<1>2. Spec => []LeaseInv /\ []MutualExclusion
  BY SchedulerImplementsLease, LeaseInvariant, SchedulerMutualExclusion, PTL DEF LeaseProtocol
<1>3. LeaseInv => LeaseTypeOK
  BY DEF LeaseInv
<1>4. QueueTypes /\ LeaseTypeOK /\ MutualExclusion /\ InCycle /\ BudgetInv /\ [Next]_vars
        => QueueTypes' /\ InCycle' /\ BudgetInv'
  BY QueueTypeStep, InCycleStep, BudgetStep
<1> QED
  BY <1>1, <1>2, <1>3, <1>4, PTL DEF Spec, QueueInv

\* Each row is worked by one process at a time, within the budget of its
\* attempts, and dead-lettered only when it is spent (BudgetKept).
THEOREM SchedulerBudgetKept == Spec => []BudgetKept
<1>1. \A p \in Process, r \in Row : Holds(p, r) => Works(p, r)
  BY DEF Holds, Works, Working
<1>2. BudgetInv /\ (\A p \in Process, r \in Row : Holds(p, r) => Works(p, r)) => BudgetKept
  BY DEF BudgetInv, Kept, InHand, Paid, BudgetKept, OneExecutorPerRow, WritesWithinAttempts,
         DeadMeansExhausted
<1>3. QueueInv => BudgetKept
  BY <1>1, <1>2 DEF QueueInv
<1> QED
  BY <1>3, SchedulerQueueInvariant, PTL

(***************************************************************************)
(* A pass writes rows in processing or failed, a claim queued ones and a   *)
(* close the row in hand: only the executor that completed a row writes it *)
(* again, when it has lost the trail.                                      *)
(***************************************************************************)
LEMMA CompletedStep ==
    ASSUME QueueTypes, Orderly, Kept, Next, NEW r \in Row, queue[r].status = "completed"
    PROVE  queue'[r].status = "completed" \/ LostTrail(r)
<1>1. ASSUME NEW q \in Row, Produce(q) PROVE queue'[r] = queue[r]
  <2>1. q # r
    BY <1>1 DEF Produce, Stage, Propose, Confirm, Insertable
  <2> QED
    BY <1>1, <2>1 DEF Produce, Stage, Propose, Confirm, SetRow, QueueTypes
<1>2. ASSUME NEW s \in Replica, Cycle(s) PROVE queue'[r] = queue[r]
  <2>1. CASE Reclaim(s) \/ Requeue(s)
    <3>1. PICK j \in run[s].todo :
            \/ SetRow(j.row, [queue[j.row] EXCEPT !.status = "queued"])
            \/ SetRow(j.row, Retried(j, run[s].since))
            \/ UNCHANGED queue
      BY <2>1 DEF Reclaim, Requeue
    <3>2. run[s].at \in Reading
      BY <2>1 DEF Reclaim, Requeue, Reading
    <3>3. j.row # r
      BY <3>2, ReadRow
    <3> QED
      BY <3>1, <3>3 DEF SetRow, QueueTypes
  <2>2. CASE ~(Reclaim(s) \/ Requeue(s))
    BY <1>2, <2>2 DEF Cycle, Acquire, ScanStalled, ScanFailed, Scan, StartExecutors, EndCycle
  <2> QED
    BY <2>1, <2>2
<1>3. ASSUME NEW p \in Process, Execute(p) PROVE queue'[r] = queue[r] \/ LostTrail(r)
  <2>1. CASE Claim(p)
    <3>1. PICK j \in run[p].todo :
            \/ queue[j.row].status = "queued"
               /\ SetRow(j.row, [queue[j.row] EXCEPT !.status = "processing"])
            \/ UNCHANGED queue
      BY <2>1 DEF Claim, Claimable
    <3> QED
      BY <3>1 DEF SetRow, QueueTypes
  <2>2. CASE Close(p)
    <3>1. run[p].row \in Row /\ run[p].at = "close"
      BY <2>2 DEF Close, QueueTypes, RowAtWork, OnRow
    <3>2. CASE run[p].row = r
      <4>1. Works(p, r)
        BY <3>1, <3>2 DEF Works, Working
      <4>2. Late(p)
        BY <4>1 DEF Kept, InHand
      <4> QED
        BY <3>1, <3>2, <4>2 DEF Late, LostTrail
    <3>3. CASE run[p].row # r
      <4>1. \/ SetRow(run[p].row, [queue[run[p].row] EXCEPT !.status = Final(run[p].outcome)])
            \/ UNCHANGED queue
        BY <2>2 DEF Close
      <4> QED
        BY <3>3, <4>1 DEF SetRow, QueueTypes
    <3> QED
      BY <3>2, <3>3
  <2>3. CASE ~(Claim(p) \/ Close(p))
    BY <1>3, <2>3 DEF Execute, Select, Call, Trail, EndExecutor
  <2> QED
    BY <2>1, <2>2, <2>3
<1>4. CASE Tick
  BY <1>4 DEF Tick, QueueTypes, QueueRow
<1>5. ASSUME NEW p \in Process, Crash(p) \/ StartLoop(p) PROVE queue'[r] = queue[r]
  BY <1>5 DEF Crash, StartLoop
<1> QED
  BY <1>1, <1>2, <1>3, <1>4, <1>5 DEF Next, Process

\* A completed job is reopened by nobody but its own executor, when the trail is lost
\* (CompletedStays).
THEOREM SchedulerCompletedStays == Spec => CompletedStays
<1> DEFINE Stays == Orderly => \A r \in Row :
                queue[r].status = "completed" => queue'[r].status = "completed" \/ LostTrail(r)
<1>1. QueueInv /\ [Next]_vars => [Stays]_vars
  BY CompletedStep DEF QueueInv, BudgetInv
<1> HIDE DEF Stays
<1>2. Spec => [][Stays]_vars
  BY <1>1, SchedulerQueueInvariant, PTL DEF Spec
<1> QED
  BY <1>2 DEF CompletedStays, Stays
=============================================================================
