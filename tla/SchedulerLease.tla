--------------------------- MODULE SchedulerLease ---------------------------
(***************************************************************************)
(* The lease that elects the replica which may run a scheduler cycle       *)
(* (hermes/scheduler/locks.py, class SchedulerLock, as it is used by       *)
(* run_one_cycle and run_service_cycle in hermes/scheduler/runner.py).     *)
(*                                                                         *)
(* A lease is one row of scheduler_locks.  It is only touched through      *)
(* conditional PATCH requests and one INSERT, so every request is an       *)
(* action of its own, and every request may fail in either of the two ways *)
(* a client cannot tell apart: it never arrived, or it was applied and its *)
(* answer was lost.                                                        *)
(*                                                                         *)
(* Time is the number of ticks a lease has left; expires_at < now() is     *)
(* left = 0.  release() sets expires_at to now(), that is left to 0.       *)
(***************************************************************************)
EXTENDS Integers

CONSTANTS
    Replica,     \* scheduler processes; each is one owner id while it lives
    Lock,        \* lock names: one, or one per service in a split deployment
    LockName,    \* LockName[s] is the lock replica s works under
    TTL,         \* ticks a lease lives unless it is renewed
    MaxFaults,   \* bound on lost requests, lost answers and crashes
    Timely,      \* TRUE: time never passes so fast that a cycle outlives its lease
    NoOne        \* the owner of a row that no living process can match

ASSUME LeaseAssumption ==
    /\ LockName \in [Replica -> Lock]
    /\ TTL \in Nat \ {0}
    /\ MaxFaults \in Nat
    /\ Timely \in BOOLEAN
    /\ NoOne \notin Replica

VARIABLES
    lease,       \* lease[l]: the row of scheduler_locks for lock l
    pc,          \* where each replica is: idle, insert or cycle (_held is pc = cycle)
    faults       \* faults used so far

leaseVars == <<lease, pc, faults>>

LeaseRow == [exists : BOOLEAN, owner : Replica \cup {NoOne}, left : 0..TTL]

LeaseTypeOK ==
    /\ lease \in [Lock -> LeaseRow]
    /\ pc \in [Replica -> {"idle", "insert", "cycle"}]
    /\ faults \in 0..MaxFaults

LeaseInit ==
    /\ lease = [l \in Lock |-> [exists |-> FALSE, owner |-> NoOne, left |-> 0]]
    /\ pc = [s \in Replica |-> "idle"]
    /\ faults = 0

-----------------------------------------------------------------------------
(* The two filtered writes of the lock protocol.                           *)

\* Two faulty filters: one without the expiry test, one that only re-takes.
TakeableLive(s) == lease[LockName[s]].exists
TakeableOwn(s) == lease[LockName[s]].exists /\ lease[LockName[s]].owner = s

\* acquire(): the filter of the conditional update, expired or already ours.
Takeable(s) ==
    LET row == lease[LockName[s]]
    IN  row.exists /\ (row.left = 0 \/ row.owner = s)

\* renew() and release() only match a row that still names this owner.
Owns(s) == lease[LockName[s]].exists /\ lease[LockName[s]].owner = s

Granted(s) == [lease EXCEPT ![LockName[s]] =
                   [exists |-> TRUE, owner |-> s, left |-> TTL]]

Goto(s, where) == pc' = [pc EXCEPT ![s] = where]

Fault == faults < MaxFaults /\ faults' = faults + 1

-----------------------------------------------------------------------------
(* acquire()                                                               *)

\* The conditional update is answered: the lease is ours, or try the insert.
AcquireUpdate(s) ==
    /\ pc[s] = "idle"
    /\ \/ /\ Takeable(s)
          /\ lease' = Granted(s)
          /\ Goto(s, "cycle")
       \/ /\ ~Takeable(s)
          /\ Goto(s, "insert")
          /\ UNCHANGED lease
    /\ UNCHANGED faults

\* The update raises: it was not applied, or it was and the answer is lost.
AcquireUpdateFails(s) ==
    /\ pc[s] = "idle"
    /\ Fault
    /\ Goto(s, "insert")
    /\ \/ UNCHANGED lease
       \/ Takeable(s) /\ lease' = Granted(s)

\* The primary key lets only the first insert of a lock name succeed.
AcquireInsert(s) ==
    /\ pc[s] = "insert"
    /\ \/ /\ ~lease[LockName[s]].exists
          /\ lease' = Granted(s)
          /\ Goto(s, "cycle")
       \/ /\ lease[LockName[s]].exists
          /\ Goto(s, "idle")
          /\ UNCHANGED lease
    /\ UNCHANGED faults

AcquireInsertFails(s) ==
    /\ pc[s] = "insert"
    /\ Fault
    /\ Goto(s, "idle")
    /\ \/ UNCHANGED lease
       \/ ~lease[LockName[s]].exists /\ lease' = Granted(s)

-----------------------------------------------------------------------------
(* While a cycle runs                                                      *)

\* renew(): the cycle ignores the result, so a lease that was lost to another
\* replica does not stop it.
Renew(s) ==
    /\ pc[s] = "cycle"
    /\ lease' = IF Owns(s) THEN [lease EXCEPT ![LockName[s]].left = TTL] ELSE lease
    /\ UNCHANGED <<pc, faults>>

RenewFails(s) ==
    /\ pc[s] = "cycle"
    /\ Fault
    /\ UNCHANGED <<lease, pc>>

\* release(): the row expires now if it is still ours; _held is cleared anyway.
Release(s) ==
    /\ pc[s] = "cycle"
    /\ lease' = IF Owns(s) THEN [lease EXCEPT ![LockName[s]].left = 0] ELSE lease
    /\ Goto(s, "idle")
    /\ UNCHANGED faults

ReleaseFails(s) ==
    /\ pc[s] = "cycle"
    /\ Fault
    /\ Goto(s, "idle")
    /\ UNCHANGED lease

\* The process dies.  Its restart draws a new owner id, so the row it may have
\* left behind names an owner that nobody is any more.
LeaseCrash(s) ==
    /\ Fault
    /\ Goto(s, "idle")
    /\ lease' = IF Owns(s) THEN [lease EXCEPT ![LockName[s]].owner = NoOne] ELSE lease

-----------------------------------------------------------------------------
(* Time                                                                    *)

\* Timely deployments finish a cycle, with its renewals, within the lease.
InTime == Timely => \A s \in Replica : pc[s] = "cycle" => lease[LockName[s]].left > 1

Countdown(n) == IF n > 0 THEN n - 1 ELSE 0

LeaseTick ==
    /\ InTime
    /\ lease' = [l \in Lock |-> [lease[l] EXCEPT !.left = Countdown(@)]]
    /\ UNCHANGED <<pc, faults>>

-----------------------------------------------------------------------------
LeaseStep(s) ==
    \/ AcquireUpdate(s) \/ AcquireInsert(s) \/ Renew(s) \/ Release(s)
    \/ AcquireUpdateFails(s) \/ AcquireInsertFails(s)
    \/ RenewFails(s) \/ ReleaseFails(s) \/ LeaseCrash(s)

\* A cycle also makes requests that do not concern the lease and may fail.
FaultElsewhere == Fault /\ UNCHANGED <<lease, pc>>

LeaseNext == LeaseTick \/ FaultElsewhere \/ \E s \in Replica : LeaseStep(s)

LeaseSpec == LeaseInit /\ [][LeaseNext]_leaseVars

\* run_scheduler_loop runs a cycle every interval until the process is told to
\* stop, and a cycle always reaches its finally clause: each replica keeps
\* taking the requests of its loop, and time passes.
LeaseFairness ==
    /\ WF_leaseVars(LeaseTick)
    /\ \A s \in Replica : /\ WF_leaseVars(AcquireUpdate(s) \/ AcquireInsert(s))
                          /\ WF_leaseVars(Release(s))

LeaseFairSpec == LeaseSpec /\ LeaseFairness

-----------------------------------------------------------------------------
(* What the lease promises                                                 *)

\* The inductive invariant: in a timely deployment a replica in a cycle still
\* owns a live lease, which is what mutual exclusion rests on.
LeaseInv ==
    /\ LeaseTypeOK
    /\ Timely => \A s \in Replica :
          pc[s] = "cycle" => Owns(s) /\ lease[LockName[s]].left > 0

\* In a timely deployment two replicas of one lock are never in a cycle at the
\* same time, whatever requests are lost and whoever crashes (locks.py: "Only
\* the current lease holder runs a scheduler cycle").
MutualExclusion ==
    Timely => \A s, t \in Replica :
        pc[s] = "cycle" /\ pc[t] = "cycle" /\ LockName[s] = LockName[t] => s = t

\* Nobody but its owner takes a live lease away or shortens it: not a replica
\* that acquires, and not one whose own lease ran out and that renews or
\* releases late.  Only time does, and the owner's own step.
Undisturbed(t) ==
    LET row == lease[LockName[t]]
        new == lease'[LockName[t]]
    IN  row.exists /\ row.owner = t /\ row.left > 1 =>
          \/ new.owner = t /\ new.left >= row.left - 1
          \/ new.owner = NoOne /\ new.left = row.left
          \/ pc'[t] # pc[t] /\ \A s \in Replica \ {t} : pc'[s] = pc[s]

OnlyOwnerEndsLease == [][\A t \in Replica : Undisturbed(t)]_leaseVars

\* A lease nobody owns any more, because its holder died or because no cycle
\* ever ran, does not stop the cycles: some replica of that lock runs one.
DeadHolderReplaced ==
    \A l \in Lock :
        (lease[l].owner = NoOne /\ \E s \in Replica : LockName[s] = l)
            ~> (\E s \in Replica : LockName[s] = l /\ pc[s] = "cycle")
=============================================================================
