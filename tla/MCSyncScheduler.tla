--------------------------- MODULE MCSyncScheduler ---------------------------
(* Small instances of SyncScheduler.                                          *)
EXTENDS SyncScheduler, TLC

CONSTANTS s1, s2, worker, kick, lockA, lockB, k1, k2

OneLock == {lockA}
LocksOfReplicas == [s \in Replica |-> lockA]
AllTypes == [s \in Replica |-> Type]

\* One renewal job; a scheduler replica or two and a renewal worker loop.
OneRow == {1}
OneRenewal == [r \in Row |-> "renewal"]
SameKey == [r \in Row |-> k1]
NoRow == {}

\* Two jobs of different types.
TwoRows == {1, 2}
OwnKeys == [r \in Row |-> IF r = 1 THEN k1 ELSE k2]
RenewalAndQuote == [r \in Row |-> IF r = 1 THEN "renewal" ELSE "quote"]
HubPipeline == [p \in Process |-> <<"renewal", "quote">>]

\* A split deployment: the renewals worker and the hub worker, each with a lock
\* and object types of its own.
SplitLocks == {lockA, lockB}
SplitLockName == [s \in Replica |-> IF s = s1 THEN lockA ELSE lockB]
SplitTypes == [s \in Replica |->
    IF s = s1 THEN {"renewal"} ELSE {"quote", "opportunity_writeback"}]
SplitPipeline == [p \in Process |->
    IF p = s2 THEN <<"quote", "opportunity_writeback">> ELSE <<"renewal">>]
RowOne == {1}
=============================================================================
