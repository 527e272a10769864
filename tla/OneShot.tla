------------------------------- MODULE OneShot -------------------------------
(***************************************************************************)
(* What a row of outbound_sync_queue that is never retried promises: an    *)
(* approval is taken up once, has at most one effect in NowCerts, and says *)
(* completed only if it had.  A row may say completed while its executor   *)
(* has not heard so (it is doubted): then it may yet say failed; a row     *)
(* that is completed without a doubt stays so.  WonDeals implements it for *)
(* its won rows.                                                           *)
(***************************************************************************)
EXTENDS Naturals

CONSTANT Entry

VARIABLES
    status,    \* status[j] of the row j
    effects    \* effects[j]: what it has done in NowCerts

vars == <<status, effects>>

Init == status = [j \in Entry |-> "absent"] /\ effects = [j \in Entry |-> 0]

Set(j, from, to) == status[j] = from /\ status' = [status EXCEPT ![j] = to]

Approve(j) == Set(j, "absent", "queued") /\ UNCHANGED effects
Claim(j) == Set(j, "queued", "processing") /\ UNCHANGED effects

Effect(j) ==
    /\ status[j] = "processing" /\ effects[j] = 0
    /\ effects' = [effects EXCEPT ![j] = 1] /\ UNCHANGED status

Complete(j) ==
    /\ effects[j] = 1 /\ UNCHANGED effects
    /\ Set(j, "processing", "completed") \/ Set(j, "processing", "doubted")

Settle(j) == Set(j, "doubted", "completed") /\ UNCHANGED effects
Fail(j) == (Set(j, "processing", "failed") \/ Set(j, "doubted", "failed")) /\ UNCHANGED effects

Next == \E j \in Entry : Approve(j) \/ Claim(j) \/ Effect(j) \/ Complete(j) \/ Settle(j) \/ Fail(j)

Spec == Init /\ [][Next]_vars
=============================================================================
