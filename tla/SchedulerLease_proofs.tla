------------------------ MODULE SchedulerLease_proofs ------------------------
(***************************************************************************)
(* Theorems of SchedulerLease, for any number of replicas and locks, any   *)
(* lease duration and any number of faults.                                *)
(***************************************************************************)
EXTENDS SchedulerLease, TLAPS

(***************************************************************************)
(* Granting a lease keeps the table well-typed, leaves the rows of other   *)
(* locks alone and makes the replica the owner of a live lease.            *)
(***************************************************************************)
LEMMA GrantedRow ==
    ASSUME LeaseTypeOK, NEW s \in Replica
    PROVE  /\ Granted(s) \in [Lock -> LeaseRow]
           /\ Granted(s)[LockName[s]] = [exists |-> TRUE, owner |-> s, left |-> TTL]
           /\ \A l \in Lock \ {LockName[s]} : Granted(s)[l] = lease[l]
    BY LeaseAssumption DEF LeaseTypeOK, LeaseRow, Granted

(***************************************************************************)
(* Using up a fault and moving a replica keep the types of their variables. *)
(***************************************************************************)
LEMMA FaultAndGoto ==
    ASSUME LeaseTypeOK
    PROVE  /\ Fault => faults' \in 0..MaxFaults
           /\ \A s \in Replica : \A where \in {"idle", "insert", "cycle"} :
                 Goto(s, where) => pc' \in [Replica -> {"idle", "insert", "cycle"}]
<1>1. Fault => faults' \in 0..MaxFaults
  BY LeaseAssumption DEF LeaseTypeOK, Fault
<1>2. ASSUME NEW s \in Replica, NEW where \in {"idle", "insert", "cycle"}, Goto(s, where)
      PROVE  pc' \in [Replica -> {"idle", "insert", "cycle"}]
  BY <1>2 DEF LeaseTypeOK, Goto
<1> QED
  BY <1>1, <1>2

(***************************************************************************)
(* Type correctness, on its own: the table, the places and the fault       *)
(* counter keep their types in every deployment.                           *)
(***************************************************************************)
LEMMA LeaseTypeStep ==
    ASSUME LeaseTypeOK, [LeaseNext]_leaseVars
    PROVE  LeaseTypeOK'
<1> USE LeaseAssumption
<1>1. ASSUME NEW s \in Replica, AcquireUpdate(s) PROVE LeaseTypeOK'
  BY <1>1, GrantedRow, FaultAndGoto DEF AcquireUpdate, LeaseTypeOK
<1>2. ASSUME NEW s \in Replica, AcquireUpdateFails(s) PROVE LeaseTypeOK'
  BY <1>2, GrantedRow, FaultAndGoto DEF AcquireUpdateFails, LeaseTypeOK
<1>3. ASSUME NEW s \in Replica, AcquireInsert(s) PROVE LeaseTypeOK'
  BY <1>3, GrantedRow, FaultAndGoto DEF AcquireInsert, LeaseTypeOK
<1>4. ASSUME NEW s \in Replica, AcquireInsertFails(s) PROVE LeaseTypeOK'
  BY <1>4, GrantedRow, FaultAndGoto DEF AcquireInsertFails, LeaseTypeOK
<1>5. ASSUME NEW s \in Replica, Renew(s) PROVE LeaseTypeOK'
  BY <1>5 DEF Renew, LeaseTypeOK, LeaseRow
<1>6. ASSUME NEW s \in Replica, RenewFails(s) PROVE LeaseTypeOK'
  BY <1>6, FaultAndGoto DEF RenewFails, LeaseTypeOK
<1>7. ASSUME NEW s \in Replica, Release(s) PROVE LeaseTypeOK'
  BY <1>7, FaultAndGoto DEF Release, LeaseTypeOK, LeaseRow
<1>8. ASSUME NEW s \in Replica, ReleaseFails(s) PROVE LeaseTypeOK'
  BY <1>8, FaultAndGoto DEF ReleaseFails, LeaseTypeOK
<1>9. ASSUME NEW s \in Replica, LeaseCrash(s) PROVE LeaseTypeOK'
  BY <1>9, FaultAndGoto DEF LeaseCrash, LeaseTypeOK, LeaseRow
<1>10. ASSUME LeaseTick PROVE LeaseTypeOK'
  <2>1. ASSUME NEW n \in 0..TTL PROVE Countdown(n) \in 0..TTL
    BY DEF Countdown
  <2>2. ASSUME NEW l \in Lock PROVE [lease[l] EXCEPT !.left = Countdown(@)] \in LeaseRow
    <3>1. lease[l] \in LeaseRow
      BY DEF LeaseTypeOK
    <3>2. Countdown(lease[l].left) \in 0..TTL
      BY <2>1, <3>1 DEF LeaseRow
    <3> QED
      BY <3>1, <3>2 DEF LeaseRow
  <2>3. lease' \in [Lock -> LeaseRow]
    BY <1>10, <2>2 DEF LeaseTick
  <2> QED
    BY <1>10, <2>3 DEF LeaseTick, LeaseTypeOK
<1>11. ASSUME FaultElsewhere PROVE LeaseTypeOK'
  BY <1>11, FaultAndGoto DEF FaultElsewhere, LeaseTypeOK
<1>12. CASE UNCHANGED leaseVars
  BY <1>12 DEF leaseVars, LeaseTypeOK
<1> QED
  BY <1>1, <1>2, <1>3, <1>4, <1>5, <1>6, <1>7, <1>8, <1>9, <1>10, <1>11, <1>12
     DEF LeaseNext, LeaseStep

THEOREM LeaseTypeCorrect == LeaseSpec => []LeaseTypeOK
<1>1. LeaseInit => LeaseTypeOK
  BY LeaseAssumption DEF LeaseInit, LeaseTypeOK, LeaseRow
<1>2. LeaseTypeOK /\ [LeaseNext]_leaseVars => LeaseTypeOK'
  BY LeaseTypeStep
<1> QED
  BY <1>1, <1>2, PTL DEF LeaseSpec

-----------------------------------------------------------------------------
(***************************************************************************)
(* Mutual exclusion.  It is not inductive by itself: what keeps a second   *)
(* replica out is that the first one still owns a live row, and what keeps *)
(* the row live is that time waits for a cycle (InTime).                   *)
(***************************************************************************)
Covered(s) == pc[s] = "cycle" => Owns(s) /\ lease[LockName[s]].left > 0

LEMMA LeaseInvStep ==
    ASSUME LeaseInv, [LeaseNext]_leaseVars
    PROVE  LeaseInv'
<1> USE LeaseAssumption
<1>1. LeaseTypeOK /\ LeaseTypeOK'
  BY LeaseTypeStep DEF LeaseInv
<1> SUFFICES ASSUME Timely, NEW t \in Replica, pc'[t] = "cycle"
             PROVE  Owns(t)' /\ (lease[LockName[t]].left > 0)'
  BY <1>1 DEF LeaseInv
<1>2. \A s \in Replica : Covered(s)
  BY DEF LeaseInv, Covered
<1>3. ASSUME NEW s \in Replica, pc[s] = "idle" \/ pc[s] = "insert", lease' = Granted(s), s = t
      PROVE  Owns(t)' /\ (lease[LockName[t]].left > 0)'
  <2>1. lease'[LockName[t]] = [exists |-> TRUE, owner |-> t, left |-> TTL]
    BY <1>1, <1>3, GrantedRow
  <2> QED
    BY <2>1 DEF Owns
<1>4. ASSUME NEW s \in Replica, lease' = Granted(s), pc[t] = "cycle", s # t,
             Takeable(s) \/ ~lease[LockName[s]].exists
      PROVE  Owns(t)' /\ (lease[LockName[t]].left > 0)'
  <2>1. LockName[s] # LockName[t]
    BY <1>1, <1>2, <1>4 DEF Covered, Owns, Takeable, LeaseTypeOK, LeaseRow
  <2>2. lease'[LockName[t]] = lease[LockName[t]]
    BY <1>1, <1>4, <2>1, GrantedRow
  <2> QED
    BY <1>2, <1>4, <2>2 DEF Covered, Owns
<1>5. ASSUME NEW s \in Replica,
             AcquireUpdate(s) \/ AcquireUpdateFails(s) \/ AcquireInsert(s) \/ AcquireInsertFails(s)
      PROVE  Owns(t)' /\ (lease[LockName[t]].left > 0)'
  <2>1. pc[s] \in {"idle", "insert"}
    BY <1>5 DEF AcquireUpdate, AcquireUpdateFails, AcquireInsert, AcquireInsertFails
  <2>2. CASE s = t
    <3>1. lease' = Granted(s)
      BY <1>1, <1>5, <2>2 DEF AcquireUpdate, AcquireUpdateFails, AcquireInsert,
                              AcquireInsertFails, Goto, LeaseTypeOK
    <3> QED
      BY <1>3, <2>1, <2>2, <3>1
  <2>3. CASE s # t
    <3>1. pc[t] = "cycle"
      BY <1>1, <1>5, <2>3 DEF AcquireUpdate, AcquireUpdateFails, AcquireInsert,
                              AcquireInsertFails, Goto, LeaseTypeOK
    <3>2. CASE lease' = lease
      BY <1>2, <3>1, <3>2 DEF Covered, Owns
    <3>3. CASE lease' = Granted(s) /\ (Takeable(s) \/ ~lease[LockName[s]].exists)
      BY <1>4, <2>3, <3>1, <3>3
    <3> QED
      BY <1>5, <3>2, <3>3 DEF AcquireUpdate, AcquireUpdateFails, AcquireInsert, AcquireInsertFails
  <2> QED
    BY <2>2, <2>3
<1>6. ASSUME NEW s \in Replica, Renew(s)
      PROVE  Owns(t)' /\ (lease[LockName[t]].left > 0)'
  BY <1>1, <1>2, <1>6 DEF Covered, Owns, Renew, LeaseTypeOK, LeaseRow
<1>7. ASSUME NEW s \in Replica, RenewFails(s)
      PROVE  Owns(t)' /\ (lease[LockName[t]].left > 0)'
  BY <1>2, <1>7 DEF Covered, Owns, RenewFails
<1>8. ASSUME NEW s \in Replica, Release(s) \/ ReleaseFails(s) \/ LeaseCrash(s)
      PROVE  Owns(t)' /\ (lease[LockName[t]].left > 0)'
  <2>1. s # t /\ pc[t] = "cycle"
    BY <1>1, <1>8 DEF Release, ReleaseFails, LeaseCrash, Goto, LeaseTypeOK
  <2>2. lease'[LockName[t]] = lease[LockName[t]]
    BY <1>1, <1>2, <1>8, <2>1 DEF Covered, Owns, Release, ReleaseFails, LeaseCrash, LeaseTypeOK, LeaseRow
  <2> QED
    BY <1>2, <2>1, <2>2 DEF Covered, Owns
<1>9. CASE LeaseTick
  BY <1>1, <1>2, <1>9 DEF Covered, Owns, LeaseTick, InTime, Countdown, LeaseTypeOK, LeaseRow
<1>10. CASE UNCHANGED leaseVars \/ FaultElsewhere
  BY <1>2, <1>10 DEF Covered, Owns, leaseVars, FaultElsewhere
<1> QED
  BY <1>5, <1>6, <1>7, <1>8, <1>9, <1>10 DEF LeaseNext, LeaseStep

THEOREM LeaseInvariant == LeaseSpec => []LeaseInv
<1>1. LeaseInit => LeaseInv
  BY LeaseAssumption DEF LeaseInit, LeaseInv, LeaseTypeOK, LeaseRow
<1>2. LeaseInv /\ [LeaseNext]_leaseVars => LeaseInv'
  BY LeaseInvStep
<1> QED
  BY <1>1, <1>2, PTL DEF LeaseSpec

\* Two replicas of one lock are never in a cycle at once: a row has one owner.
THEOREM LeaseMutualExclusion == LeaseSpec => []MutualExclusion
<1>1. LeaseInv => MutualExclusion
  BY DEF LeaseInv, MutualExclusion, Owns
<1> QED
  BY <1>1, LeaseInvariant, PTL

-----------------------------------------------------------------------------
(***************************************************************************)
(* A lease with time left is ended by nobody but its owner, in every       *)
(* deployment: every write of another replica is filtered by the owner or  *)
(* by the expiry.                                                          *)
(***************************************************************************)
LEMMA UndisturbedStep ==
    ASSUME LeaseTypeOK, LeaseNext, NEW t \in Replica
    PROVE  Undisturbed(t)
<1> USE LeaseAssumption
<1> DEFINE row == lease[LockName[t]]
<1> SUFFICES ASSUME row.exists, row.owner = t, row.left > 1
             PROVE  \/ lease'[LockName[t]].owner = t /\ lease'[LockName[t]].left >= row.left - 1
                    \/ lease'[LockName[t]].owner = NoOne /\ lease'[LockName[t]].left = row.left
                    \/ pc'[t] # pc[t] /\ \A s \in Replica \ {t} : pc'[s] = pc[s]
  BY DEF Undisturbed
<1>1. row \in LeaseRow /\ row.left \in 0..TTL
  BY DEF LeaseTypeOK, LeaseRow
<1>2. ASSUME NEW s \in Replica, lease' = Granted(s), Takeable(s) \/ ~lease[LockName[s]].exists
      PROVE  lease'[LockName[t]].owner = t /\ lease'[LockName[t]].left >= row.left - 1
  <2>1. CASE LockName[s] = LockName[t]
    <3>1. s = t
      BY <1>1, <1>2, <2>1 DEF Takeable
    <3>2. lease'[LockName[t]] = [exists |-> TRUE, owner |-> t, left |-> TTL]
      BY <1>2, <3>1, GrantedRow
    <3> QED
      BY <1>1, <3>2
  <2>2. CASE LockName[s] # LockName[t]
    <3>1. lease'[LockName[t]] = row
      BY <1>2, <2>2, GrantedRow
    <3> QED
      BY <1>1, <3>1
  <2> QED
    BY <2>1, <2>2
<1>3. ASSUME NEW s \in Replica,
             AcquireUpdate(s) \/ AcquireUpdateFails(s) \/ AcquireInsert(s) \/ AcquireInsertFails(s)
      PROVE  lease'[LockName[t]].owner = t /\ lease'[LockName[t]].left >= row.left - 1
  <2>1. CASE lease' = lease
    BY <1>1, <2>1
  <2>2. CASE lease' = Granted(s) /\ (Takeable(s) \/ ~lease[LockName[s]].exists)
    BY <1>2, <2>2
  <2> QED
    BY <1>3, <2>1, <2>2 DEF AcquireUpdate, AcquireUpdateFails, AcquireInsert, AcquireInsertFails
<1>4. ASSUME NEW s \in Replica, Renew(s) \/ RenewFails(s)
      PROVE  lease'[LockName[t]].owner = t /\ lease'[LockName[t]].left >= row.left - 1
  BY <1>1, <1>4 DEF Renew, RenewFails, Owns, LeaseTypeOK, LeaseRow
<1>5. ASSUME NEW s \in Replica, Release(s) \/ ReleaseFails(s)
      PROVE  \/ lease'[LockName[t]].owner = t /\ lease'[LockName[t]].left >= row.left - 1
             \/ pc'[t] # pc[t] /\ \A u \in Replica \ {t} : pc'[u] = pc[u]
  <2>1. CASE s = t
    BY <1>5, <2>1 DEF Release, ReleaseFails, Goto, LeaseTypeOK
  <2>2. CASE s # t
    BY <1>1, <1>5, <2>2 DEF Release, ReleaseFails, Owns, LeaseTypeOK
  <2> QED
    BY <2>1, <2>2
<1>6. ASSUME NEW s \in Replica, LeaseCrash(s)
      PROVE  \/ lease'[LockName[t]].owner = t /\ lease'[LockName[t]].left >= row.left - 1
             \/ lease'[LockName[t]].owner = NoOne /\ lease'[LockName[t]].left = row.left
  BY <1>1, <1>6 DEF LeaseCrash, Owns, LeaseTypeOK, LeaseRow
<1>7. ASSUME LeaseTick
      PROVE  lease'[LockName[t]].owner = t /\ lease'[LockName[t]].left >= row.left - 1
  BY <1>1, <1>7 DEF LeaseTick, Countdown, LeaseTypeOK, LeaseRow
<1>8. ASSUME FaultElsewhere
      PROVE  lease'[LockName[t]].owner = t /\ lease'[LockName[t]].left >= row.left - 1
  BY <1>1, <1>8 DEF FaultElsewhere
<1> QED
  BY <1>3, <1>4, <1>5, <1>6, <1>7, <1>8 DEF LeaseNext, LeaseStep

\* Only its owner, its crash and time end a live lease (OnlyOwnerEndsLease).
THEOREM LeaseEndedByOwner == LeaseSpec => OnlyOwnerEndsLease
<1>1. LeaseTypeOK /\ [LeaseNext]_leaseVars => [\A t \in Replica : Undisturbed(t)]_leaseVars
  BY UndisturbedStep
<1> QED
  BY <1>1, LeaseTypeCorrect, PTL DEF LeaseSpec, OnlyOwnerEndsLease
=============================================================================
