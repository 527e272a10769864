-------------------------- MODULE OfficeDesk_proofs --------------------------
(***************************************************************************)
(* Theorems of the components that work on renewals, reports and copies of *)
(* the book, each for every value of its constants.                        *)
(***************************************************************************)
EXTENDS MCOfficeDesk, FiniteSetTheorems, SequenceTheorems, TLAPS

-----------------------------------------------------------------------------
(* RenewalWrites: what a renewal job writes and what its receipt says.     *)

SeenPolicy == [value: {"old", "approved", "other"}, status: {"Active", "Cancelled", "Superseded"}, active: BOOLEAN, copies: 1..2]

Reasons == {"not authorized", "renewal lookup failed", "read", "missing mapping", "duplicate policies",
            "drift since approval", "no-op", "execute", "verification", "verified", "crash"}
EndStep == {"receipt", "status", "trail"}
JobRun == [step: {"none", "validate", "read"}]
              \cup [step: {"revalidate", "execute"}, before: SeenPolicy]
              \cup [step: {"verify"}, made: BOOLEAN]
              \cup [step: EndStep, outcome: {"completed", "blocked", "failed"}, why: Reasons]

RenewalWritesTypeOK ==
    /\ amsPolicy \in SeenPolicy /\ jobRun \in JobRun
    /\ jobReceipts \in Seq([outcome: {"completed", "blocked", "failed"}, held: BOOLEAN])
    /\ held \in BOOLEAN /\ livedOn \in BOOLEAN /\ wroteDead \in BOOLEAN

\* While a run is under way its two memories are at least as old as what the AMS shows, and
\* what it read before is covered by them.
MemoriesHold ==
    jobRun.step # "none" => /\ amsPolicy.value = "approved" => held
                            /\ InForceNow(amsPolicy) => livedOn

ReadIsRemembered ==
    jobRun.step \in {"revalidate", "execute"} => /\ jobRun.before.value = "approved" => held
                                                 /\ InForceNow(jobRun.before) => livedOn

PassedTheGate == jobRun.step = "execute" => InForceNow(jobRun.before)

EndIsTrue == jobRun.step \in EndStep /\ jobRun.outcome = "completed" /\ renewalJob.action = "update_ams" => held

RenewalWritesInv ==
    /\ RenewalWritesTypeOK /\ MemoriesHold /\ ReadIsRemembered /\ PassedTheGate /\ EndIsTrue
    /\ RenewalWritesSafe

(***************************************************************************)
(* Where a run is says which fields its record has.                        *)
(***************************************************************************)
LEMMA JobRunShapes ==
    ASSUME jobRun \in JobRun
    PROVE  /\ jobRun.step \in {"revalidate", "execute"} => jobRun \in [step: {"revalidate", "execute"}, before: SeenPolicy]
           /\ jobRun.step \in EndStep =>
                 jobRun \in [step: EndStep, outcome: {"completed", "blocked", "failed"}, why: Reasons]
           /\ jobRun.step = "verify" => jobRun \in [step: {"verify"}, made: BOOLEAN]
    BY DEF JobRun, EndStep

(***************************************************************************)
(* Steps that only move the run from one place to the next: when the run   *)
(* ends well for an update of the AMS, the approved values were there.     *)
(***************************************************************************)
LEMMA EndKeeps ==
    ASSUME RenewalWritesInv, jobRun.step # "none", Fixed, QuietAms, UNCHANGED jobReceipts,
           NEW outcome \in {"completed", "blocked", "failed"}, NEW why \in Reasons, EndAs(outcome, why),
           outcome = "completed" /\ renewalJob.action = "update_ams" => held
    PROVE  RenewalWritesInv'
<1>1. jobRun' = [step |-> "receipt", outcome |-> outcome, why |-> why]
  BY DEF EndAs, RunTo
<1>2. RenewalWritesTypeOK'
  BY <1>1 DEF RenewalWritesInv, RenewalWritesTypeOK, QuietAms, JobRun, EndStep
<1>3. MemoriesHold' /\ ReadIsRemembered' /\ PassedTheGate' /\ EndIsTrue'
  BY <1>1 DEF RenewalWritesInv, MemoriesHold, ReadIsRemembered, PassedTheGate, EndIsTrue, QuietAms, Fixed, InForceNow,
              EndStep
<1>4. RenewalWritesSafe'
  BY DEF RenewalWritesInv, RenewalWritesSafe, ReceiptMeansHeld, NothingForTheDead, QuietAms, Fixed
<1> QED
  BY <1>2, <1>3, <1>4 DEF RenewalWritesInv

(***************************************************************************)
(* What a finalizer leaves of the run: the next step of its end, or the    *)
(* end of a crash, or nothing.                                             *)
(***************************************************************************)
EndGoesOn ==
    \/ jobRun' \in [step: EndStep, outcome: {jobRun.outcome}, why: Reasons]
    \/ jobRun' \in [step: EndStep, outcome: {"failed"}, why: Reasons]
    \/ jobRun' = [step |-> "none"]

LEMMA CrashGoesOn == ASSUME Crashes PROVE EndGoesOn
<1>1. [step |-> "receipt", outcome |-> "failed", why |-> "crash"] \in [step: EndStep, outcome: {"failed"}, why: Reasons]
  BY DEF EndStep, Reasons
<1> QED
  BY <1>1 DEF Crashes, EndAs, RunTo, NotRunning, EndGoesOn

LEMMA EndGoesOnKeeps ==
    ASSUME RenewalWritesInv, jobRun.step \in EndStep, EndGoesOn, Fixed, QuietAms,
           jobReceipts' \in Seq([outcome: {"completed", "blocked", "failed"}, held: BOOLEAN]), ReceiptMeansHeld'
    PROVE  RenewalWritesInv'
<1>1. jobRun \in [step: EndStep, outcome: {"completed", "blocked", "failed"}, why: Reasons]
  BY JobRunShapes DEF RenewalWritesInv, RenewalWritesTypeOK
<1>2. jobRun' \in JobRun
  BY <1>1 DEF EndGoesOn, JobRun
<1>3. jobRun'.step \in EndStep \cup {"none"}
  BY DEF EndGoesOn
<1>4. jobRun'.step \in EndStep /\ jobRun'.outcome = "completed" => jobRun.outcome = "completed"
  BY DEF EndGoesOn, EndStep
<1>5. RenewalWritesTypeOK'
  BY <1>2 DEF RenewalWritesInv, RenewalWritesTypeOK, QuietAms
<1>6. MemoriesHold' /\ ReadIsRemembered' /\ PassedTheGate' /\ EndIsTrue'
  BY <1>3, <1>4 DEF RenewalWritesInv, MemoriesHold, ReadIsRemembered, PassedTheGate, EndIsTrue, QuietAms, Fixed,
                    InForceNow, EndStep
<1> QED
  BY <1>5, <1>6 DEF RenewalWritesInv, RenewalWritesSafe, NothingForTheDead, QuietAms

(***************************************************************************)
(* No step of the executor, of the people in the AMS or of the network     *)
(* breaks the invariant.                                                   *)
(***************************************************************************)
LEMMA RenewalWritesStep ==
    ASSUME RenewalWritesInv, [RenewalWritesNext]_renewalWriteVars
    PROVE  RenewalWritesInv'
<1>0. /\ RenewalWritesTypeOK /\ MemoriesHold /\ ReadIsRemembered /\ PassedTheGate /\ EndIsTrue
      /\ ReceiptMeansHeld /\ NothingForTheDead
  BY DEF RenewalWritesInv, RenewalWritesSafe
<1> USE DEF QuietAms, QuietRecord, Fixed, RunTo
<1>1. CASE ClaimRenewal
  <2>1. RenewalWritesTypeOK'
    BY <1>0, <1>1 DEF ClaimRenewal, RenewalWritesTypeOK, JobRun, NotRunning, InForceNow
  <2>2. MemoriesHold' /\ ReadIsRemembered' /\ PassedTheGate' /\ EndIsTrue'
    BY <1>0, <1>1 DEF ClaimRenewal, MemoriesHold, ReadIsRemembered, PassedTheGate, EndIsTrue, EndStep, InForceNow
  <2>3. RenewalWritesSafe'
    BY <1>0, <1>1 DEF ClaimRenewal, RenewalWritesSafe, ReceiptMeansHeld, NothingForTheDead
  <2> QED
    BY <2>1, <2>2, <2>3 DEF RenewalWritesInv
<1>2. CASE ValidateJob
  <2>1. CASE RunTo([step |-> "read"])
    <3>1. RenewalWritesTypeOK' /\ MemoriesHold' /\ ReadIsRemembered' /\ PassedTheGate' /\ EndIsTrue'
      BY <1>0, <1>2, <2>1 DEF ValidateJob, RenewalWritesTypeOK, JobRun, MemoriesHold, ReadIsRemembered, PassedTheGate,
                              EndIsTrue, EndStep, InForceNow
    <3> QED
      BY <1>0, <1>2, <3>1 DEF ValidateJob, RenewalWritesInv, RenewalWritesSafe, ReceiptMeansHeld, NothingForTheDead
  <2>2. CASE EndAs("blocked", "not authorized") \/ EndAs("blocked", "renewal lookup failed") \/ EndAs("failed", "crash")
    BY <1>2, <2>2, EndKeeps DEF Reasons, ValidateJob
  <2> QED
    BY <1>2, <2>1, <2>2 DEF ValidateJob
<1>3. CASE ReadBefore
  <2>1. CASE RunTo([step |-> "revalidate", before |-> amsPolicy])
    <3>1. RenewalWritesTypeOK' /\ MemoriesHold' /\ ReadIsRemembered' /\ PassedTheGate' /\ EndIsTrue'
      BY <1>0, <1>3, <2>1 DEF ReadBefore, RenewalWritesTypeOK, JobRun, MemoriesHold, ReadIsRemembered, PassedTheGate,
                              EndIsTrue, EndStep, InForceNow
    <3> QED
      BY <1>0, <1>3, <3>1 DEF ReadBefore, RenewalWritesInv, RenewalWritesSafe, ReceiptMeansHeld, NothingForTheDead
  <2>2. CASE EndAs("failed", "read") \/ EndAs("blocked", "missing mapping") \/ EndAs("blocked", "duplicate policies")
    BY <1>3, <2>2, EndKeeps DEF Reasons, ReadBefore
  <2> QED
    BY <1>3, <2>1, <2>2 DEF ReadBefore
<1>4. CASE Revalidate
  <2>1. jobRun \in [step: {"revalidate", "execute"}, before: SeenPolicy] /\ jobRun.step = "revalidate"
    BY <1>0, <1>4, JobRunShapes DEF RenewalWritesTypeOK, Revalidate
  <2>2. PICK active \in {amsPolicy.active, TRUE} :
           IF ~PassesGate(jobRun.before, active) THEN EndAs("blocked", "drift since approval")
           ELSE IF IsNoop(renewalJob, jobRun.before) THEN EndAs("completed", "no-op")
           ELSE RunTo([jobRun EXCEPT !.step = "execute"])
    BY <1>4 DEF Revalidate
  <2>3. CASE EndAs("blocked", "drift since approval")
    BY <1>4, <2>3, EndKeeps DEF Reasons, Revalidate
  <2>4. CASE IsNoop(renewalJob, jobRun.before) /\ EndAs("completed", "no-op")
    BY <1>0, <1>4, <2>1, <2>4, EndKeeps DEF Reasons, Revalidate, IsNoop, ReadIsRemembered
  <2>5. CASE PassesGate(jobRun.before, active) /\ RunTo([jobRun EXCEPT !.step = "execute"])
    <3>1. InForceNow(jobRun.before)
      BY <2>5 DEF PassesGate, InForceNow
    <3>2. /\ jobRun' \in [step: {"revalidate", "execute"}, before: SeenPolicy]
          /\ jobRun'.step = "execute" /\ jobRun'.before = jobRun.before
      BY <2>1, <2>5
    <3>3. RenewalWritesTypeOK' /\ MemoriesHold' /\ ReadIsRemembered' /\ PassedTheGate' /\ EndIsTrue'
      BY <1>0, <1>4, <2>1, <3>1, <3>2 DEF Revalidate, RenewalWritesTypeOK, JobRun, MemoriesHold, ReadIsRemembered,
                                          PassedTheGate, EndIsTrue, EndStep, InForceNow
    <3> QED
      BY <1>0, <1>4, <3>3 DEF Revalidate, RenewalWritesInv, RenewalWritesSafe, ReceiptMeansHeld, NothingForTheDead
  <2> QED
    BY <2>2, <2>3, <2>4, <2>5
<1>5. CASE Execute
  <2>1. jobRun \in [step: {"revalidate", "execute"}, before: SeenPolicy] /\ jobRun.step = "execute"
    BY <1>0, <1>5, JobRunShapes DEF RenewalWritesTypeOK, Execute
  <2>2. livedOn
    BY <1>0, <2>1 DEF ReadIsRemembered, PassedTheGate
  <2>3. PICK lands, answered \in BOOLEAN :
          /\ amsPolicy' = IF lands /\ Mutates(renewalJob) THEN [amsPolicy EXCEPT !.value = "approved"] ELSE amsPolicy
          /\ held' = (held \/ (lands /\ Mutates(renewalJob)))
          /\ wroteDead' = (wroteDead \/ (lands /\ renewalJob.action # "prepare_options" /\ ~livedOn))
          /\ IF renewalJob.action = "prepare_options" \/ answered
             THEN RunTo([step |-> "verify", made |-> lands])
             ELSE EndAs("failed", "execute")
    BY <1>5 DEF Execute
  <2>4. amsPolicy' \in SeenPolicy /\ amsPolicy'.value \in {"approved", amsPolicy.value}
        /\ (amsPolicy'.value = "approved" => held') /\ held' \in BOOLEAN /\ (held => held')
        /\ livedOn' = livedOn /\ wroteDead' = wroteDead /\ wroteDead = FALSE
    BY <1>0, <1>5, <2>1, <2>2, <2>3 DEF Execute, RenewalWritesTypeOK, SeenPolicy, MemoriesHold, NothingForTheDead
  <2>5. jobRun' = [step |-> "verify", made |-> lands] \/ jobRun' = [step |-> "receipt", outcome |-> "failed", why |-> "execute"]
    BY <2>3 DEF EndAs
  <2>6. RenewalWritesTypeOK'
    <3>1. jobRun' \in JobRun
      <4>1. [step |-> "verify", made |-> lands] \in [step: {"verify"}, made: BOOLEAN]
        BY <2>3
      <4>2. [step |-> "receipt", outcome |-> "failed", why |-> "execute"]
               \in [step: EndStep, outcome: {"completed", "blocked", "failed"}, why: Reasons]
        BY DEF EndStep, Reasons
      <4> QED
        BY <2>5, <4>1, <4>2 DEF JobRun
    <3>2. jobReceipts' = jobReceipts
      BY <1>5 DEF Execute
    <3> QED
      BY <1>0, <2>4, <3>1, <3>2 DEF RenewalWritesTypeOK
  <2>7. MemoriesHold' /\ ReadIsRemembered' /\ PassedTheGate' /\ EndIsTrue'
    BY <1>0, <2>2, <2>4, <2>5 DEF MemoriesHold, ReadIsRemembered, PassedTheGate, EndIsTrue, EndStep
  <2> QED
    BY <1>0, <1>5, <2>4, <2>6, <2>7 DEF Execute, RenewalWritesInv, RenewalWritesSafe, ReceiptMeansHeld, NothingForTheDead
<1>6. CASE VerifyWrite
  <2>1. CASE EndAs("failed", "verification")
    BY <1>6, <2>1, EndKeeps DEF Reasons, VerifyWrite
  <2>2. CASE \E read \in Reads : Verified(read) /\ EndAs("completed", "verified")
    <3>1. renewalJob.action = "update_ams" => held
      BY <1>0, <1>6, <2>2 DEF Verified, Mutates, MemoriesHold, VerifyWrite
    <3> QED
      BY <1>6, <2>2, <3>1, EndKeeps DEF Reasons, VerifyWrite
  <2> QED
    BY <1>6, <2>1, <2>2 DEF VerifyWrite
<1>7. CASE WriteReceipt
  <2>1. jobRun \in [step: EndStep, outcome: {"completed", "blocked", "failed"}, why: Reasons] /\ jobRun.step = "receipt"
    BY <1>0, <1>7, JobRunShapes DEF RenewalWritesTypeOK, WriteReceipt, EndStep
  <2>2. EndGoesOn
    <3>1. CASE RunTo([jobRun EXCEPT !.step = "status"])
      BY <2>1, <3>1 DEF EndGoesOn, EndStep
    <3> QED
      BY <1>7, <3>1, CrashGoesOn DEF WriteReceipt
  <2>3. jobReceipts' \in {jobReceipts, Append(jobReceipts, [outcome |-> jobRun.outcome, held |-> held])}
    BY <1>7 DEF WriteReceipt
  <2>4. /\ jobReceipts' \in Seq([outcome: {"completed", "blocked", "failed"}, held: BOOLEAN])
        /\ ReceiptMeansHeld'
    <3>1. renewalJob.action = "update_ams" /\ jobRun.outcome = "completed" => held
      BY <1>0, <2>1 DEF EndIsTrue, EndStep
    <3>2. [outcome |-> jobRun.outcome, held |-> held] \in [outcome: {"completed", "blocked", "failed"}, held: BOOLEAN]
      BY <1>0, <2>1 DEF RenewalWritesTypeOK
    <3>3. CASE jobReceipts' = jobReceipts
      BY <1>0, <1>7, <3>3 DEF WriteReceipt, RenewalWritesTypeOK, ReceiptMeansHeld
    <3>4. CASE jobReceipts' = Append(jobReceipts, [outcome |-> jobRun.outcome, held |-> held])
      <4>1. /\ jobReceipts' \in Seq([outcome: {"completed", "blocked", "failed"}, held: BOOLEAN])
            /\ DOMAIN jobReceipts = 1..Len(jobReceipts) /\ DOMAIN jobReceipts' = 1..Len(jobReceipts) + 1
            /\ Len(jobReceipts) \in Nat
            /\ \A i \in 1..Len(jobReceipts) : jobReceipts'[i] = jobReceipts[i]
            /\ jobReceipts'[Len(jobReceipts) + 1] = [outcome |-> jobRun.outcome, held |-> held]
        BY <1>0, <3>2, <3>4, AppendProperties DEF RenewalWritesTypeOK
      <4>2. renewalJob' = renewalJob
        BY <1>7 DEF WriteReceipt
      <4> QED
        BY <1>0, <3>1, <4>1, <4>2 DEF ReceiptMeansHeld
    <3> QED
      BY <2>3, <3>3, <3>4
  <2> QED
    BY <1>7, <2>1, <2>2, <2>4, EndGoesOnKeeps DEF WriteReceipt, EndStep
<1>8. CASE SetQueueStatus
  <2>1. jobRun \in [step: EndStep, outcome: {"completed", "blocked", "failed"}, why: Reasons] /\ jobRun.step = "status"
    BY <1>0, <1>8, JobRunShapes DEF RenewalWritesTypeOK, SetQueueStatus, EndStep
  <2>2. EndGoesOn
    <3>1. CASE RunTo([jobRun EXCEPT !.step = "trail"])
      BY <2>1, <3>1 DEF EndGoesOn, EndStep
    <3> QED
      BY <1>8, <3>1, CrashGoesOn DEF SetQueueStatus
  <2>3. UNCHANGED <<jobReceipts, renewalJob>>
    BY <1>8 DEF SetQueueStatus
  <2>4. ReceiptMeansHeld' /\ jobReceipts' \in Seq([outcome: {"completed", "blocked", "failed"}, held: BOOLEAN])
    BY <1>0, <2>3 DEF ReceiptMeansHeld, RenewalWritesTypeOK
  <2> QED
    BY <1>8, <2>1, <2>2, <2>4, EndGoesOnKeeps DEF SetQueueStatus, EndStep
<1>9. CASE LogTrail
  <2>1. jobRun.step \in EndStep
    BY <1>9 DEF LogTrail, EndStep
  <2>2. EndGoesOn
    <3>1. CASE RunTo(NotRunning)
      BY <3>1 DEF EndGoesOn, NotRunning
    <3> QED
      BY <1>9, <3>1, CrashGoesOn DEF LogTrail
  <2>3. UNCHANGED <<jobReceipts, renewalJob>>
    BY <1>9 DEF LogTrail
  <2>4. ReceiptMeansHeld' /\ jobReceipts' \in Seq([outcome: {"completed", "blocked", "failed"}, held: BOOLEAN])
    BY <1>0, <2>3 DEF ReceiptMeansHeld, RenewalWritesTypeOK
  <2> QED
    BY <1>9, <2>1, <2>2, <2>4, EndGoesOnKeeps DEF LogTrail
<1>12. CASE DieAndReclaim
  <2>1. jobRun' = [step |-> "none"] /\ UNCHANGED <<amsPolicy, held, livedOn, wroteDead, jobReceipts, renewalJob>>
    BY <1>12 DEF DieAndReclaim, NotRunning
  <2>2. RenewalWritesTypeOK' /\ MemoriesHold' /\ ReadIsRemembered' /\ PassedTheGate' /\ EndIsTrue'
    BY <1>0, <2>1 DEF RenewalWritesTypeOK, JobRun, MemoriesHold, ReadIsRemembered, PassedTheGate, EndIsTrue, EndStep
  <2> QED
    BY <1>0, <2>1, <2>2 DEF RenewalWritesInv, RenewalWritesSafe, ReceiptMeansHeld, NothingForTheDead
<1>10. CASE EditPolicy
  <2>1. /\ amsPolicy' \in SeenPolicy
        /\ held' = (held \/ amsPolicy'.value = "approved") /\ livedOn' = (livedOn \/ InForceNow(amsPolicy'))
        /\ UNCHANGED <<renewalJob, jobRun, wroteDead, jobReceipts>>
    BY <1>0, <1>10 DEF EditPolicy, RenewalWritesTypeOK, SeenPolicy
  <2>2. RenewalWritesTypeOK'
    BY <1>0, <2>1 DEF RenewalWritesTypeOK, InForceNow
  <2>3. MemoriesHold' /\ ReadIsRemembered' /\ PassedTheGate' /\ EndIsTrue'
    BY <1>0, <2>1 DEF RenewalWritesTypeOK, MemoriesHold, ReadIsRemembered, PassedTheGate, EndIsTrue, InForceNow
  <2> QED
    BY <1>0, <2>1, <2>2, <2>3 DEF RenewalWritesInv, RenewalWritesSafe, ReceiptMeansHeld, NothingForTheDead
<1>11. CASE UNCHANGED renewalWriteVars
  BY <1>11, <1>0 DEF renewalWriteVars, RenewalWritesInv, RenewalWritesTypeOK, MemoriesHold, ReadIsRemembered, PassedTheGate,
                     EndIsTrue, RenewalWritesSafe, ReceiptMeansHeld, NothingForTheDead, InForceNow
<1> QED
  BY <1>1, <1>2, <1>3, <1>4, <1>5, <1>6, <1>7, <1>8, <1>9, <1>10, <1>11, <1>12 DEF RenewalWritesNext

(***************************************************************************)
(* However its runs die, are reclaimed and repeated, and whatever people   *)
(* do to the record meanwhile, a renewal job writes to policies in force   *)
(* only, and its receipt is no promise but what the AMS held.              *)
(***************************************************************************)
THEOREM RenewalWritesAreSafe == RenewalWritesSpec => []RenewalWritesSafe
<1>1. RenewalWritesInit => RenewalWritesInv
  <2> SUFFICES ASSUME RenewalWritesInit PROVE RenewalWritesInv
    OBVIOUS
  <2>1. jobRun = [step |-> "none"] /\ jobRun \in JobRun /\ amsPolicy \in SeenPolicy
    BY DEF RenewalWritesInit, NotRunning, JobRun, SeenPolicy
  <2>2. jobReceipts = <<>> /\ held = FALSE /\ livedOn = FALSE /\ wroteDead = FALSE
    BY DEF RenewalWritesInit
  <2>3. RenewalWritesTypeOK
    <3>1. jobReceipts \in Seq([outcome: {"completed", "blocked", "failed"}, held: BOOLEAN])
      BY <2>2
    <3>2. held \in BOOLEAN /\ livedOn \in BOOLEAN /\ wroteDead \in BOOLEAN
      BY <2>2
    <3> QED
      BY <2>1, <3>1, <3>2 DEF RenewalWritesTypeOK
  <2> QED
    BY <2>1, <2>2, <2>3 DEF RenewalWritesInv, MemoriesHold, ReadIsRemembered, PassedTheGate, EndIsTrue,
                      EndStep, RenewalWritesSafe, ReceiptMeansHeld, NothingForTheDead
<1>2. RenewalWritesInv /\ [RenewalWritesNext]_renewalWriteVars => RenewalWritesInv'
  BY RenewalWritesStep
<1>3. RenewalWritesInv => RenewalWritesSafe
  BY DEF RenewalWritesInv
<1> QED
  BY <1>1, <1>2, <1>3, PTL DEF RenewalWritesSpec

-----------------------------------------------------------------------------
(* RenewalCases: one case for each renewal event.                          *)

\* What a process is doing: the record of Resting, with any values in it.
WorkShape(w) == w \in [at: {w.at}, event: {w.event}, case: {w.case}, left: {w.left}, found: {w.found}]

AtWork ==
    /\ DOMAIN caseWork = Asker \cup Sentinel
    /\ \A p \in Asker \cup Sentinel : WorkShape(caseWork[p])

\* uq_renewal_case_details_identity
OneDetail == \A c, d \in details : c.event = d.event => c = d

\* Whoever has got past the insert of the detail holds the case of the table.
LoggedIsKept ==
    \A p \in Asker \cup Sentinel :
        caseWork[p].at = "log" => [event |-> caseWork[p].event, case |-> caseWork[p].case] \in details

ToldIsKept == \A t \in told : \E d \in details : d.event = t.event /\ d.case = t.case

CasesInv == AtWork /\ OneDetail /\ LoggedIsKept /\ ToldIsKept

(***************************************************************************)
(* Setting fields of the record leaves it one, and the other fields alone. *)
(***************************************************************************)
LEMMA WorkAt ==
    ASSUME NEW w, WorkShape(w), NEW at
    PROVE  /\ WorkShape([w EXCEPT !.at = at]) /\ [w EXCEPT !.at = at].at = at
           /\ [w EXCEPT !.at = at].event = w.event /\ [w EXCEPT !.at = at].case = w.case
    BY DEF WorkShape

LEMMA WorkAtCase ==
    ASSUME NEW w, WorkShape(w), NEW at, NEW c
    PROVE  WorkShape([w EXCEPT !.at = at, !.case = c]) /\ [w EXCEPT !.at = at, !.case = c].at = at
    BY DEF WorkShape

LEMMA WorkOpens ==
    ASSUME NEW w, WorkShape(w), NEW e
    PROVE  WorkShape(Opening(w, e)) /\ Opening(w, e).at = "find"
    BY DEF WorkShape, Opening

LEMMA WorkLeft ==
    ASSUME NEW w, WorkShape(w), NEW left
    PROVE  WorkShape([w EXCEPT !.left = left]) /\ [w EXCEPT !.left = left].at = w.at
    BY DEF WorkShape

LEMMA WorkFound ==
    ASSUME NEW w, WorkShape(w), NEW left, NEW found
    PROVE  /\ WorkShape([w EXCEPT !.left = left, !.found = found])
           /\ [w EXCEPT !.left = left, !.found = found].at = w.at
    BY DEF WorkShape

(***************************************************************************)
(* A process that goes on to work that is not at the log, while nobody is  *)
(* told anything and no detail is written, breaks nothing.                 *)
(***************************************************************************)
LEMMA WorkMoves ==
    ASSUME CasesInv, NEW p \in Asker \cup Sentinel, NEW w, CaseWork(p, w), WorkShape(w), w.at # "log",
           details' = details, told' = told
    PROVE  CasesInv'
<1>1. /\ caseWork'[p] = w /\ DOMAIN caseWork' = Asker \cup Sentinel
      /\ \A q \in (Asker \cup Sentinel) \ {p} : caseWork'[q] = caseWork[q]
  BY DEF CaseWork, CasesInv, AtWork
<1>2. AtWork'
  BY <1>1 DEF CasesInv, AtWork, WorkShape
<1>3. LoggedIsKept'
  BY <1>1 DEF CasesInv, LoggedIsKept
<1> QED
  BY <1>2, <1>3 DEF CasesInv, OneDetail, ToldIsKept

(***************************************************************************)
(* Where a process goes when a case is done or has failed.                 *)
(***************************************************************************)
LEMMA NextWork ==
    ASSUME CasesInv, NEW p \in Asker \cup Sentinel
    PROVE  /\ WorkShape(Resting) /\ Resting.at # "log"
           /\ NextFinding(p) => \E w : CaseWork(p, w) /\ WorkShape(w) /\ w.at # "log"
           /\ CaseFails(p) => told' = told /\ \E w : CaseWork(p, w) /\ WorkShape(w) /\ w.at # "log"
<1>1. WorkShape(Resting) /\ Resting.at # "log"
  BY DEF Resting, WorkShape
<1>2. ASSUME NextFinding(p) PROVE \E w : CaseWork(p, w) /\ WorkShape(w) /\ w.at # "log"
  <2> DEFINE v == caseWork[p]
             u == [Opening(v, Head(v.left)) EXCEPT !.left = Tail(v.left)]
  <2>1. WorkShape(v)
    BY DEF CasesInv, AtWork
  <2>2. WorkShape(u) /\ u.at = "find"
    <3>1. WorkShape(Opening(v, Head(v.left))) /\ Opening(v, Head(v.left)).at = "find"
      BY <2>1, WorkOpens
    <3> QED
      BY <3>1, WorkLeft
  <2>3. CaseWork(p, Resting) \/ CaseWork(p, u)
    BY <1>2 DEF NextFinding
  <2> QED
    BY <1>1, <2>2, <2>3
<1> QED
  BY <1>1, <1>2 DEF CaseFails

(***************************************************************************)
(* Answering the case that the table holds for the event.                  *)
(***************************************************************************)
LEMMA AnswerKeeps ==
    ASSUME CasesInv, NEW p \in Asker \cup Sentinel, NEW d \in details, d.event = caseWork[p].event,
           AfterCase(p, d.case), details' = details
    PROVE  CasesInv'
<1>1. CASE p \in Sentinel
  BY <1>1, NextWork, WorkMoves DEF AfterCase
<1>2. CASE p \notin Sentinel
  <2>1. told' = told \cup {[event |-> d.event, case |-> d.case]} /\ CaseWork(p, Resting)
    BY <1>2 DEF AfterCase
  <2>2. /\ caseWork'[p] = Resting /\ DOMAIN caseWork' = Asker \cup Sentinel
        /\ \A q \in (Asker \cup Sentinel) \ {p} : caseWork'[q] = caseWork[q]
    BY <2>1 DEF CaseWork, CasesInv, AtWork
  <2>3. AtWork' /\ LoggedIsKept'
    BY <2>2, NextWork DEF CasesInv, AtWork, WorkShape, LoggedIsKept
  <2>4. ToldIsKept'
    BY <2>1 DEF CasesInv, ToldIsKept
  <2> QED
    BY <2>3, <2>4 DEF CasesInv, OneDetail
<1> QED
  BY <1>1, <1>2

LEMMA CasesStep ==
    ASSUME CasesInv, [CasesNext]_caseVars
    PROVE  CasesInv'
<1>1. CASE CloseCase \/ RuleAgain
  BY <1>1 DEF CloseCase, RuleAgain, CasesInv, AtWork, WorkShape, OneDetail, LoggedIsKept, ToldIsKept
<1>2. ASSUME NEW p \in Asker, Ask(p) PROVE CasesInv'
  <2>1. PICK e \in Event : CaseWork(p, Opening(Resting, e))
    BY <1>2 DEF Ask
  <2>2. WorkShape(Opening(Resting, e)) /\ Opening(Resting, e).at # "log"
    BY NextWork, WorkOpens DEF Resting, WorkShape
  <2> QED
    BY <1>2, <2>1, <2>2, WorkMoves DEF Ask
<1>3. ASSUME NEW p \in Sentinel, Scan(p) PROVE CasesInv'
  <2>1. PICK found \in Orders(Slipped) :
           LET selected == SubSeq(found, 1, Shorter(Cap, Len(found)))
           IN  CaseWork(p, [Opening(Resting, selected[1]) EXCEPT !.left = Tail(selected), !.found = found])
    BY <1>3 DEF Scan
  <2> DEFINE selected == SubSeq(found, 1, Shorter(Cap, Len(found)))
             w == [Opening(Resting, selected[1]) EXCEPT !.left = Tail(selected), !.found = found]
  <2>2. WorkShape(w) /\ w.at # "log"
    <3>1. WorkShape(Resting)
      BY DEF Resting, WorkShape
    <3>2. WorkShape(Opening(Resting, selected[1])) /\ Opening(Resting, selected[1]).at = "find"
      BY <3>1, WorkOpens
    <3> QED
      BY <3>2, WorkFound
  <2>3. CaseWork(p, w)
    BY <2>1
  <2> HIDE DEF w
  <2> QED
    BY <1>3, <2>2, <2>3, WorkMoves DEF Scan
<1>4. ASSUME NEW p \in Asker \cup Sentinel, FindCase(p) PROVE CasesInv'
  <2>1. CASE \E d \in DetailsOf(caseWork[p].event) : AfterCase(p, d.case)
    BY <1>4, <2>1, AnswerKeeps DEF FindCase, DetailsOf
  <2>2. CASE CaseWork(p, [caseWork[p] EXCEPT !.at = "insert"]) /\ UNCHANGED told
    <3>1. WorkShape([caseWork[p] EXCEPT !.at = "insert"]) /\ [caseWork[p] EXCEPT !.at = "insert"].at # "log"
      BY WorkAt DEF CasesInv, AtWork
    <3> QED
      BY <1>4, <2>2, <3>1, WorkMoves DEF FindCase
  <2> QED
    BY <1>4, <2>1, <2>2 DEF FindCase
<1>5. ASSUME NEW p \in Asker \cup Sentinel, InsertCase(p) PROVE CasesInv'
  <2> DEFINE w == [caseWork[p] EXCEPT !.at = "detail", !.case = Len(cases')]
  <2>1. WorkShape(w) /\ w.at # "log"
    <3>1. WorkShape(caseWork[p])
      BY DEF CasesInv, AtWork
    <3> DEFINE c == Len(cases')
    <3> HIDE DEF c
    <3>2. WorkShape([caseWork[p] EXCEPT !.at = "detail", !.case = c])
          /\ [caseWork[p] EXCEPT !.at = "detail", !.case = c].at = "detail"
      BY <3>1, WorkAtCase
    <3> QED
      BY <3>2 DEF c
  <2>2. CaseWork(p, w)
    BY <1>5 DEF InsertCase
  <2> HIDE DEF w
  <2> QED
    BY <1>5, <2>1, <2>2, WorkMoves DEF InsertCase
<1>6. ASSUME NEW p \in Asker \cup Sentinel, InsertDetails(p) PROVE CasesInv'
  <2> DEFINE e == caseWork[p].event
             row == [event |-> e, case |-> caseWork[p].case]
             w == [caseWork[p] EXCEPT !.at = "log"]
  <2>1. CASE CaseFails(p) /\ UNCHANGED details
    BY <2>1, NextWork, WorkMoves
  <2>2. CASE ~IdentityTaken(e) /\ details' = details \cup {row} /\ CaseWork(p, w) /\ UNCHANGED told
    <3>1. WorkShape(w) /\ w.at = "log" /\ w.event = e /\ w.case = caseWork[p].case
      BY WorkAt DEF CasesInv, AtWork
    <3>2. /\ caseWork'[p] = w /\ DOMAIN caseWork' = Asker \cup Sentinel
          /\ \A q \in (Asker \cup Sentinel) \ {p} : caseWork'[q] = caseWork[q]
      BY <2>2 DEF CaseWork, CasesInv, AtWork
    <3>3. AtWork'
      BY <3>1, <3>2 DEF CasesInv, AtWork, WorkShape
    <3>4. OneDetail'
      BY <2>2 DEF CasesInv, OneDetail, IdentityTaken, DetailsOf
    <3>5. LoggedIsKept'
      BY <2>2, <3>1, <3>2 DEF CasesInv, LoggedIsKept
    <3>6. ToldIsKept'
      BY <2>2 DEF CasesInv, ToldIsKept
    <3> QED
      BY <3>3, <3>4, <3>5, <3>6 DEF CasesInv
  <2> QED
    BY <1>6, <2>1, <2>2 DEF InsertDetails
<1>7. ASSUME NEW p \in Asker \cup Sentinel, LogOpened(p) PROVE CasesInv'
  <2>1. [event |-> caseWork[p].event, case |-> caseWork[p].case] \in details
    BY <1>7 DEF CasesInv, LoggedIsKept, LogOpened
  <2> QED
    BY <1>7, <2>1, AnswerKeeps DEF LogOpened
<1>8. ASSUME NEW p \in Asker \cup Sentinel, CaseFault(p) PROVE CasesInv'
  BY <1>8, NextWork, WorkMoves DEF CaseFault
<1>9. CASE UNCHANGED caseVars
  BY <1>9 DEF caseVars, CasesInv, AtWork, WorkShape, OneDetail, LoggedIsKept, ToldIsKept
<1> QED
  BY <1>1, <1>2, <1>3, <1>4, <1>5, <1>6, <1>7, <1>8, <1>9 DEF CasesNext

(***************************************************************************)
(* Whichever commands and sentinel runs race for an event and wherever     *)
(* they die, everybody who is told its case is told the same one: the      *)
(* insert that names the event has at most one winner, and only the        *)
(* winner and those who read its row answer.                               *)
(***************************************************************************)
THEOREM CasesAnswersAgree == CasesSpec => []AnswersAgree
<1>1. CasesInit => CasesInv
  BY DEF CasesInit, CasesInv, AtWork, WorkShape, Resting, OneDetail, LoggedIsKept, ToldIsKept
<1>2. CasesInv /\ [CasesNext]_caseVars => CasesInv'
  BY CasesStep
<1>3. CasesInv => AnswersAgree
  BY DEF CasesInv, OneDetail, ToldIsKept, AnswersAgree
<1> QED
  BY <1>1, <1>2, <1>3, PTL DEF CasesSpec

-----------------------------------------------------------------------------
(* Briefings: what is posted, what is remembered as posted, what the       *)
(* health check says.                                                      *)

Posting == [job: Jobs, key: Int, partial: BOOLEAN, clean: BOOLEAN]
Report == {Idle} \cup [step: {"check", "posted"}, job: Jobs, key: Int, forced: BOOLEAN, said: Posting]

BriefingTypeOK == day \in Nat /\ reports \in [Runs -> Report] /\ sentFile \in [Jobs -> Int] /\ messages \subseteq Posting

\* A run says what it is about, and the sentinel is never about a day to come.
SaysItsKey ==
    \A r \in Runs :
        reports[r] # Idle => /\ reports[r].said.job = reports[r].job /\ reports[r].said.key = reports[r].key
                             /\ reports[r].job = "sentinel" => reports[r].key <= day

PostedIsOut == \A r \in Runs : reports[r].step = "posted" => reports[r].said \in messages

NotAhead == \A m \in messages : m.job = "sentinel" => m.key <= day

BriefingInv == BriefingTypeOK /\ SaysItsKey /\ PostedIsOut /\ NotAhead /\ SkipMeansPosted

(***************************************************************************)
(* A run is idle or has the fields of a report.                            *)
(***************************************************************************)
LEMMA ReportShape ==
    ASSUME BriefingTypeOK, NEW r \in Runs
    PROVE  /\ reports[r].step \in {"check", "posted"} =>
                 /\ reports[r] # Idle
                 /\ reports[r] \in [step: {"check", "posted"}, job: Jobs, key: Int, forced: BOOLEAN, said: Posting]
           /\ reports[r] # Idle => reports[r].step \in {"check", "posted"}
    BY DEF BriefingTypeOK, Report, Idle

(***************************************************************************)
(* A run that ends leaves every other run what it was.                     *)
(***************************************************************************)
LEMMA RunEnds ==
    ASSUME BriefingInv, NEW r \in Runs, reports' = [reports EXCEPT ![r] = Idle], UNCHANGED <<day, messages>>
    PROVE  reports' \in [Runs -> Report] /\ SaysItsKey' /\ PostedIsOut' /\ NotAhead'
<1>1. reports' \in [Runs -> Report]
  BY DEF BriefingInv, BriefingTypeOK, Report
<1>2. reports'[r] = Idle /\ \A q \in Runs \ {r} : reports'[q] = reports[q]
  BY DEF BriefingInv, BriefingTypeOK
<1>3. Idle.step # "posted"
  BY DEF Idle
<1> QED
  BY <1>1, <1>2, <1>3 DEF BriefingInv, SaysItsKey, PostedIsOut, NotAhead

LEMMA BriefingStep ==
    ASSUME BriefingInv, [BriefingNext]_briefingVars
    PROVE  BriefingInv'
<1> USE BriefingAssumption
<1>0. BriefingTypeOK /\ SaysItsKey /\ PostedIsOut /\ NotAhead /\ SkipMeansPosted
  BY DEF BriefingInv
<1>1. ASSUME NEW r \in Runs, NEW j \in ReportJobs, ReadTables(r, j) PROVE BriefingInv'
  <2>1. PICK unread \in SUBSET TablesOf(j), forced \in BOOLEAN :
           reports' = [reports EXCEPT ![r] = [step |-> "check", job |-> j, key |-> KeyOf(j, day),
                                              forced |-> forced, said |-> Message(j, KeyOf(j, day), unread)]]
    BY <1>1 DEF ReadTables
  <2> DEFINE new == [step |-> "check", job |-> j, key |-> KeyOf(j, day),
                     forced |-> forced, said |-> Message(j, KeyOf(j, day), unread)]
  <2>2. KeyOf(j, day) \in Int /\ (j = "sentinel" => KeyOf(j, day) = day) /\ j \in Jobs
    BY <1>0 DEF KeyOf, Month, BriefingTypeOK
  <2>3. /\ Message(j, KeyOf(j, day), unread) \in Posting
        /\ Message(j, KeyOf(j, day), unread).job = j /\ Message(j, KeyOf(j, day), unread).key = KeyOf(j, day)
    BY <2>2 DEF Message, Posting
  <2>4. /\ new \in [step: {"check", "posted"}, job: Jobs, key: Int, forced: BOOLEAN, said: Posting]
        /\ new.step = "check" /\ new.job = j /\ new.key = KeyOf(j, day) /\ new.said = Message(j, KeyOf(j, day), unread)
    BY <2>2, <2>3
  <2>5. reports' = [reports EXCEPT ![r] = new] /\ UNCHANGED <<day, anomalies, sentFile, messages, losses>>
    BY <1>1, <2>1 DEF ReadTables
  <2> HIDE DEF new
  <2>6. reports' \in [Runs -> Report] /\ reports'[r] = new /\ \A q \in Runs \ {r} : reports'[q] = reports[q]
    BY <1>0, <2>4, <2>5 DEF BriefingTypeOK, Report
  <2>7. SaysItsKey' /\ PostedIsOut'
    BY <1>0, <2>2, <2>3, <2>4, <2>5, <2>6 DEF SaysItsKey, PostedIsOut, BriefingTypeOK
  <2> QED
    BY <1>0, <2>5, <2>6, <2>7 DEF BriefingInv, BriefingTypeOK, NotAhead, SkipMeansPosted
<1>2. ASSUME NEW r \in Runs, Skip(r) \/ PostFails(r) \/ StateUnwritten(r) PROVE BriefingInv'
  BY <1>0, <1>2, RunEnds DEF Skip, PostFails, AfterFailedPost, StateUnwritten, BriefingInv, BriefingTypeOK, SkipMeansPosted
<1>3. ASSUME NEW r \in Runs, Post(r) PROVE BriefingInv'
  <2>1. /\ reports[r] \in [step: {"check", "posted"}, job: Jobs, key: Int, forced: BOOLEAN, said: Posting]
        /\ reports[r] # Idle
    BY <1>0, <1>3, ReportShape DEF Post
  <2> DEFINE new == [reports[r] EXCEPT !.step = "posted"]
  <2>2. /\ new \in [step: {"check", "posted"}, job: Jobs, key: Int, forced: BOOLEAN, said: Posting]
        /\ new.job = reports[r].job /\ new.key = reports[r].key /\ new.said = reports[r].said
    BY <2>1
  <2>3. /\ reports' = [reports EXCEPT ![r] = new] /\ messages' = messages \cup {reports[r].said}
        /\ UNCHANGED <<day, sentFile>>
    BY <1>3 DEF Post
  <2> HIDE DEF new
  <2>4. reports' \in [Runs -> Report] /\ reports'[r] = new /\ \A q \in Runs \ {r} : reports'[q] = reports[q]
    BY <1>0, <2>2, <2>3 DEF BriefingTypeOK, Report
  <2>5. BriefingTypeOK'
    BY <1>0, <2>1, <2>3, <2>4 DEF BriefingTypeOK
  <2>6. SaysItsKey' /\ PostedIsOut'
    BY <1>0, <2>1, <2>2, <2>3, <2>4 DEF SaysItsKey, PostedIsOut
  <2>7. NotAhead' /\ SkipMeansPosted'
    <3>1. NotAhead'
      <4>1. /\ reports[r].said.job = reports[r].job /\ reports[r].said.key = reports[r].key
            /\ reports[r].job = "sentinel" => reports[r].key <= day
        BY <1>0, <2>1 DEF SaysItsKey
      <4> QED
        BY <1>0, <2>3, <4>1 DEF NotAhead
    <3> QED
      BY <1>0, <2>3, <3>1 DEF SkipMeansPosted
  <2> QED
    BY <2>5, <2>6, <2>7 DEF BriefingInv
<1>4. ASSUME NEW r \in Runs, WriteState(r) PROVE BriefingInv'
  <2>1. /\ reports[r] \in [step: {"check", "posted"}, job: Jobs, key: Int, forced: BOOLEAN, said: Posting]
        /\ reports[r] # Idle /\ reports[r].said \in messages
    BY <1>0, <1>4, ReportShape DEF WriteState, PostedIsOut
  <2>2. sentFile' \in [Jobs -> Int] /\ SkipMeansPosted'
    <3>1. sentFile' = [sentFile EXCEPT ![reports[r].job] = reports[r].key] /\ messages' = messages
      BY <1>4 DEF WriteState
    <3>2. sentFile' \in [Jobs -> Int] /\ \A j \in Jobs : j # reports[r].job => sentFile'[j] = sentFile[j]
      BY <1>0, <2>1, <3>1 DEF BriefingTypeOK
    <3>3. sentFile'[reports[r].job] = reports[r].said.key /\ reports[r].said.job = reports[r].job
      <4>1. reports[r].said.job = reports[r].job /\ reports[r].said.key = reports[r].key
        BY <1>0, <2>1 DEF SaysItsKey
      <4>2. reports[r].job \in Jobs
        BY <2>1
      <4> QED
        BY <1>0, <3>1, <4>1, <4>2 DEF BriefingTypeOK
    <3> QED
      BY <1>0, <2>1, <3>1, <3>2, <3>3 DEF SkipMeansPosted
  <2> QED
    BY <1>0, <1>4, <2>2, RunEnds DEF WriteState, BriefingInv, BriefingTypeOK
<1>5. ASSUME NEW j \in ReportJobs, LoseState(j) PROVE BriefingInv'
  BY <1>0, <1>5 DEF LoseState, BriefingInv, BriefingTypeOK, SaysItsKey, PostedIsOut, NotAhead, SkipMeansPosted
<1>6. CASE Midnight
  <2>1. day' \in Nat /\ day' = day + 1
    BY <1>0, <1>6 DEF Midnight, BriefingTypeOK
  <2>2. \A r \in Runs : reports[r] # Idle => reports[r].key \in Int
    BY <1>0, ReportShape
  <2>3. \A m \in messages : m.key \in Int
    BY <1>0 DEF BriefingTypeOK, Posting
  <2>4. SaysItsKey' /\ NotAhead'
    BY <1>0, <1>6, <2>1, <2>2, <2>3 DEF Midnight, SaysItsKey, NotAhead, BriefingTypeOK
  <2> QED
    BY <1>0, <1>6, <2>1, <2>4 DEF Midnight, BriefingInv, BriefingTypeOK, PostedIsOut, SkipMeansPosted
<1>7. CASE UNCHANGED briefingVars
  BY <1>0, <1>7 DEF briefingVars, BriefingInv, BriefingTypeOK, SaysItsKey, PostedIsOut, NotAhead, SkipMeansPosted
<1> QED
  BY <1>1, <1>2, <1>3, <1>4, <1>5, <1>6, <1>7 DEF BriefingNext

(***************************************************************************)
(* Between the latest working day and today there are week-end days only.  *)
(***************************************************************************)
LEMMA OnlyWeekendSince ==
    ASSUME NEW d \in Nat, NEW k \in Int, k >= LatestBusinessDay(d), NEW e \in 0..d, e > k
    PROVE  Weekday(e) > 4
    BY DEF LatestBusinessDay, Weekday

(***************************************************************************)
(* However runs overlap, die, fail to post or lose their state files: a    *)
(* run skips only what was posted, and the health check passes only when   *)
(* the sentinel has posted since the last working day began.               *)
(***************************************************************************)
THEOREM BriefingsAreSafe ==
    ASSUME NEW CONSTANT found
    PROVE  BriefingSpec(found) => []BriefingsSafe
<1>1. BriefingInit(found) => BriefingInv
  <2> SUFFICES ASSUME BriefingInit(found) PROVE BriefingInv
    OBVIOUS
  <2>1. BriefingTypeOK
    BY BriefingAssumption DEF BriefingInit, BriefingTypeOK, Report
  <2>2. \A r \in Runs : reports[r] = Idle /\ reports[r].step = "idle"
    BY DEF BriefingInit, Idle
  <2> QED
    BY <2>1, <2>2 DEF BriefingInit, BriefingInv, SaysItsKey, PostedIsOut, NotAhead, SkipMeansPosted
<1>2. BriefingInv /\ [BriefingNext]_briefingVars => BriefingInv'
  BY BriefingStep
<1>3. ASSUME BriefingInv PROVE BriefingsSafe
  <2>1. ASSUME Healthy PROVE \E m \in messages : /\ m.job = "sentinel" /\ m.key <= day
                                                 /\ \A d \in 0..day : d > m.key => Weekday(d) > 4
    <3>1. PICK m \in messages : m.job = "sentinel" /\ m.key = sentFile["sentinel"]
      BY <1>3, <2>1 DEF BriefingInv, SkipMeansPosted, Healthy, Jobs
    <3>2. m.key \in Int /\ m.key <= day /\ day \in Nat
      BY <1>3, <3>1 DEF BriefingInv, BriefingTypeOK, Posting, NotAhead
    <3>3. m.key >= LatestBusinessDay(day)
      BY <2>1, <3>1 DEF Healthy
    <3> QED
      BY <3>1, <3>2, <3>3, OnlyWeekendSince
  <2> QED
    BY <1>3, <2>1 DEF BriefingsSafe, BriefingInv, HealthyMeansPosted
<1> QED
  BY <1>1, <1>2, <1>3, PTL DEF BriefingSpec

-----------------------------------------------------------------------------
(* ApiClients: what threads that share a client do to its token, its lock  *)
(* and the other side.                                                     *)

TokenSteps == {"token", "wait", "locked", "grant", "relock", "regrant"}
OverSteps == {"done", "lost", "raised"}
CallSteps == {"rest", "send"} \cup TokenSteps \cup OverSteps
ApiCall == [at: CallSteps, client: {"nowcerts", "zoho", "supabase"}, does: {"read", "post", "claim"}, tries: Nat \ {0}, again: BOOLEAN]

CallsShaped == apiCalls \in [Threads -> ApiCall \cup {AtRest}]

\* Only the clients that have a token ask for one, only Zoho's takes the lock for it again.
KnowsItsToken(t) ==
    /\ apiCalls[t].at \in TokenSteps => apiCalls[t].client \in {"nowcerts", "zoho"}
    /\ apiCalls[t].at = "relock" => apiCalls[t].client = "zoho"

\* Under the lock, and out of it only with a client that has had its first token.
HoldsLock(t) ==
    /\ apiCalls[t].at \in {"locked", "grant"} \/ (apiCalls[t].at = "regrant" /\ apiCalls[t].client = "zoho")
          => authLocks[apiCalls[t].client] = t
    /\ apiCalls[t].at = "grant" => tokens[apiCalls[t].client] = "none"
    /\ apiCalls[t].at = "regrant" /\ apiCalls[t].client = "nowcerts" => tokens["nowcerts"] # "none"

\* What a call has left on the other side, by where it is.
HasLanded(t) ==
    apiCalls[t].at # "rest" =>
        /\ apiCalls[t].does = "read" => landings[t] = 0
        /\ apiCalls[t].does = "claim" => /\ apiCalls[t].client = "supabase"
                                         /\ landings[t] = IF claimedBy = t THEN 1 ELSE 0
        /\ apiCalls[t].does = "post" /\ apiCalls[t].client # "zoho" =>
              landings[t] <= 1 /\ (apiCalls[t].at \notin OverSteps => landings[t] = 0)

ApiInv ==
    /\ ApiTypeOK /\ CallsShaped
    /\ \A t \in Threads : KnowsItsToken(t) /\ HoldsLock(t) /\ HasLanded(t)

(***************************************************************************)
(* Moving a call along changes nothing else of it.                         *)
(***************************************************************************)
LEMMA CallMoves ==
    ASSUME NEW c \in ApiCall, NEW at \in CallSteps
    PROVE  /\ [c EXCEPT !.at = at] \in ApiCall /\ [c EXCEPT !.at = at].at = at
           /\ [c EXCEPT !.at = at].client = c.client /\ [c EXCEPT !.at = at].does = c.does
    BY DEF ApiCall

LEMMA CallTries ==
    ASSUME NEW c \in ApiCall, NEW at \in CallSteps
    PROVE  LET n == [c EXCEPT !.at = at, !.tries = @ + 1]
           IN  n \in ApiCall /\ n.at = at /\ n.client = c.client /\ n.does = c.does
<1>1. PICK k \in Nat \ {0} : k = c.tries + 1
  BY DEF ApiCall
<1>2. LET n == [c EXCEPT !.at = at, !.tries = k]
      IN  n \in ApiCall /\ n.at = at /\ n.client = c.client /\ n.does = c.does
  BY <1>1 DEF ApiCall
<1> QED
  BY <1>1, <1>2

LEMMA CallAgain ==
    ASSUME NEW c \in ApiCall, NEW at \in CallSteps
    PROVE  LET n == [c EXCEPT !.at = at, !.again = TRUE]
           IN  n \in ApiCall /\ n.at = at /\ n.client = c.client /\ n.does = c.does
    BY DEF ApiCall

(***************************************************************************)
(* A call that is under way has all its fields.                            *)
(***************************************************************************)
LEMMA UnderWay ==
    ASSUME CallsShaped, NEW t \in Threads, apiCalls[t].at # "rest"
    PROVE  apiCalls[t] \in ApiCall
    BY DEF CallsShaped, AtRest

(***************************************************************************)
(* One call takes a place of its own; the others are what they were.       *)
(***************************************************************************)
LEMMA OneCallMoves ==
    ASSUME CallsShaped, NEW t \in Threads, NEW n \in ApiCall, apiCalls' = [apiCalls EXCEPT ![t] = n]
    PROVE  CallsShaped' /\ apiCalls'[t] = n /\ \A u \in Threads \ {t} : apiCalls'[u] = apiCalls[u]
    BY DEF CallsShaped

(***************************************************************************)
(* A call that goes from one place to another, with nothing landing and no *)
(* token or lock changing, where its new place asks no more than it has.   *)
(***************************************************************************)
LEMMA QuietMove ==
    ASSUME ApiInv, ApiTypeOK', NEW t \in Threads, apiCalls[t].at # "rest",
           NEW n \in ApiCall, n.client = apiCalls[t].client, n.does = apiCalls[t].does,
           apiCalls' = [apiCalls EXCEPT ![t] = n],
           UNCHANGED <<tokens, authLocks, landings, claimedBy>>,
           n.at \in {"locked", "grant"} \/ (n.at = "regrant" /\ n.client = "zoho") => authLocks[n.client] = t,
           n.at = "grant" => tokens[n.client] = "none",
           n.at = "regrant" /\ n.client = "nowcerts" => tokens["nowcerts"] # "none",
           n.at \in TokenSteps => n.client \in {"nowcerts", "zoho"},
           n.at = "relock" => n.client = "zoho",
           n.at \in OverSteps \cup {"rest"} \/ apiCalls[t].at \notin OverSteps
    PROVE  ApiInv'
<1>1. CallsShaped' /\ apiCalls'[t] = n /\ \A u \in Threads \ {t} : apiCalls'[u] = apiCalls[u]
  BY OneCallMoves DEF ApiInv
<1>2. ASSUME NEW u \in Threads \ {t} PROVE KnowsItsToken(u)' /\ HoldsLock(u)' /\ HasLanded(u)'
  BY <1>1, <1>2 DEF ApiInv, KnowsItsToken, HoldsLock, HasLanded
<1>3. KnowsItsToken(t)' /\ HoldsLock(t)'
  BY <1>1 DEF KnowsItsToken, HoldsLock
<1>4. HasLanded(t)'
  BY <1>1 DEF ApiInv, HasLanded
<1> QED
  BY <1>1, <1>2, <1>3, <1>4 DEF ApiInv

(***************************************************************************)
(* Threads that take no part keep what they have while a thread gets the   *)
(* token or releases the lock it holds.                                    *)
(***************************************************************************)
LEMMA Releases ==
    ASSUME ApiInv, NEW t \in Threads, authLocks' = Unlocked(t)
    PROVE  /\ authLocks' \in [{"nowcerts", "zoho"} -> Threads \cup {NoThread}]
           /\ \A c \in {"nowcerts", "zoho"}, u \in Threads \ {t} : authLocks[c] = u => authLocks'[c] = u
    BY ApiAssumption DEF ApiInv, ApiTypeOK, Unlocked

LEMMA ApiStartStep ==
    ASSUME ApiInv, NEW t \in Threads, NEW kind \in CallKinds, StartCall(t, kind)
    PROVE  ApiInv'
<1> USE ApiAssumption
<1> DEFINE n == [at |-> IF Tokened(kind) THEN "token" ELSE "send", client |-> kind.client,
                 does |-> kind.does, tries |-> 1, again |-> FALSE]
<1>1. /\ kind.client \in {"nowcerts", "zoho", "supabase"} /\ kind.does \in {"read", "post", "claim"}
      /\ kind.does = "claim" => kind.client = "supabase"
  BY DEF CallKinds
<1>2. /\ n \in ApiCall /\ n.at \in {"token", "send"} /\ n.client = kind.client /\ n.does = kind.does
      /\ n.at = "token" => n.client \in {"nowcerts", "zoho"}
  BY <1>1 DEF ApiCall, CallSteps, TokenSteps, Tokened
<1>3. /\ apiCalls' = [apiCalls EXCEPT ![t] = n] /\ landings' = [landings EXCEPT ![t] = 0]
      /\ claimedBy' = (IF claimedBy = t THEN NoThread ELSE claimedBy)
      /\ callCount < MaxCalls /\ callCount' = callCount + 1 /\ UNCHANGED <<tokens, authLocks, hiccups>>
  BY DEF StartCall
<1> HIDE DEF n
<1>4. CallsShaped' /\ apiCalls'[t] = n /\ \A u \in Threads \ {t} : apiCalls'[u] = apiCalls[u]
  BY <1>2, <1>3, OneCallMoves DEF ApiInv
<1>5. ApiTypeOK'
  BY <1>3 DEF ApiInv, ApiTypeOK
<1>6. landings'[t] = 0 /\ claimedBy' # t /\ \A u \in Threads \ {t} : landings'[u] = landings[u] /\ (claimedBy' = u <=> claimedBy = u)
  BY <1>3 DEF ApiInv, ApiTypeOK
<1>7. KnowsItsToken(t)' /\ HoldsLock(t)'
  BY <1>2, <1>4 DEF KnowsItsToken, HoldsLock, TokenSteps
<1>8. HasLanded(t)'
  BY <1>1, <1>2, <1>4, <1>6 DEF HasLanded
<1>9. ASSUME NEW u \in Threads \ {t} PROVE KnowsItsToken(u)' /\ HoldsLock(u)' /\ HasLanded(u)'
  BY <1>3, <1>4, <1>6, <1>9 DEF ApiInv, KnowsItsToken, HoldsLock, HasLanded
<1> QED
  BY <1>4, <1>5, <1>7, <1>8, <1>9 DEF ApiInv

(***************************************************************************)
(* The first and the second look for a token, and taking the lock.         *)
(***************************************************************************)
LEMMA ApiTokenStep ==
    ASSUME ApiInv, NEW t \in Threads, LookForToken(t) \/ TakeAuthLock(t) \/ LookAgain(t)
    PROVE  ApiInv'
<1> USE ApiAssumption
<1> DEFINE c == apiCalls[t]
<1>1. c \in ApiCall /\ c.at \in {"token", "wait", "relock", "locked"} /\ c.client \in {"nowcerts", "zoho"}
  BY UnderWay DEF LookForToken, TakeAuthLock, LookAgain, ApiInv, KnowsItsToken, TokenSteps
<1>2. ASSUME NEW at \in CallSteps, ApiAt(t, at)
      PROVE  /\ [c EXCEPT !.at = at] \in ApiCall /\ [c EXCEPT !.at = at].at = at
             /\ [c EXCEPT !.at = at].client = c.client /\ [c EXCEPT !.at = at].does = c.does
             /\ apiCalls' = [apiCalls EXCEPT ![t] = [c EXCEPT !.at = at]]
  BY <1>1, <1>2, CallMoves DEF ApiAt
<1>3. CASE LookForToken(t)
  <2>1. PICK at \in {"wait", "send"} : ApiAt(t, at)
    BY <1>3 DEF LookForToken
  <2>2. ApiTypeOK' /\ c.at = "token"
    BY <1>3 DEF LookForToken, ApiInv, ApiTypeOK
  <2>3. at \in CallSteps
    BY <2>1 DEF CallSteps, TokenSteps
  <2> DEFINE n == [c EXCEPT !.at = at]
  <2>4. /\ n \in ApiCall /\ n.at = at /\ n.client = c.client /\ n.does = c.does
        /\ apiCalls' = [apiCalls EXCEPT ![t] = n]
    BY <1>2, <2>1, <2>3
  <2> HIDE DEF n
  <2> QED
    BY <1>1, <1>3, <2>1, <2>2, <2>4, QuietMove DEF LookForToken, OverSteps
<1>4. CASE TakeAuthLock(t)
  <2>1. PICK at \in {"locked", "regrant"} : ApiAt(t, at) /\ at = (IF c.at = "wait" THEN "locked" ELSE "regrant")
    BY <1>4 DEF TakeAuthLock
  <2>2. at \in CallSteps
    BY <2>1 DEF CallSteps, TokenSteps
  <2> DEFINE n == [c EXCEPT !.at = at]
  <2>3. /\ n \in ApiCall /\ n.at = at /\ n.client = c.client /\ n.does = c.does
        /\ apiCalls' = [apiCalls EXCEPT ![t] = n]
    BY <1>2, <2>1, <2>2
  <2> HIDE DEF n
  <2>4. CallsShaped' /\ apiCalls'[t] = n /\ \A u \in Threads \ {t} : apiCalls'[u] = apiCalls[u]
    BY <2>3, OneCallMoves DEF ApiInv
  <2>5. /\ authLocks[c.client] = NoThread /\ authLocks' = [authLocks EXCEPT ![c.client] = t]
        /\ UNCHANGED <<tokens, landings, claimedBy, callCount, hiccups>> /\ c.at \in {"wait", "relock"}
    BY <1>4 DEF TakeAuthLock, Lock
  <2>6. ApiTypeOK' /\ authLocks'[c.client] = t
        /\ \A k \in {"nowcerts", "zoho"}, u \in Threads \ {t} : authLocks[k] = u => authLocks'[k] = u
    BY <1>1, <2>5 DEF ApiInv, ApiTypeOK
  <2>7. at = "regrant" => c.client = "zoho"
    BY <1>1, <2>1, <2>5 DEF ApiInv, KnowsItsToken
  <2>8. KnowsItsToken(t)' /\ HoldsLock(t)'
    BY <1>1, <2>1, <2>3, <2>4, <2>6, <2>7 DEF KnowsItsToken, HoldsLock
  <2>9. HasLanded(t)'
    BY <2>1, <2>3, <2>4, <2>5 DEF ApiInv, HasLanded, OverSteps
  <2>10. ASSUME NEW u \in Threads \ {t} PROVE KnowsItsToken(u)' /\ HoldsLock(u)' /\ HasLanded(u)'
    <3>1. HoldsLock(u)'
      BY <2>4, <2>5, <2>6, <2>10 DEF ApiInv, KnowsItsToken, HoldsLock, TokenSteps
    <3> QED
      BY <2>4, <2>5, <2>10, <3>1 DEF ApiInv, KnowsItsToken, HasLanded
  <2> QED
    BY <2>4, <2>6, <2>8, <2>9, <2>10 DEF ApiInv
<1>5. CASE LookAgain(t)
  <2>1. PICK at \in {"grant", "send"} : ApiAt(t, at) /\ (at = "grant" <=> tokens[c.client] = "none")
    BY <1>5 DEF LookAgain, NeedsGrant, TokenOf
  <2>2. at \in CallSteps /\ c.at = "locked"
    BY <1>5, <2>1 DEF CallSteps, TokenSteps, LookAgain
  <2> DEFINE n == [c EXCEPT !.at = at]
  <2>3. /\ n \in ApiCall /\ n.at = at /\ n.client = c.client /\ n.does = c.does
        /\ apiCalls' = [apiCalls EXCEPT ![t] = n]
    BY <1>2, <2>1, <2>2
  <2> HIDE DEF n
  <2>4. CallsShaped' /\ apiCalls'[t] = n /\ \A u \in Threads \ {t} : apiCalls'[u] = apiCalls[u]
    BY <2>3, OneCallMoves DEF ApiInv
  <2>5. /\ authLocks' = (IF at = "grant" THEN authLocks ELSE [authLocks EXCEPT ![c.client] = NoThread])
        /\ UNCHANGED <<tokens, landings, claimedBy, callCount, hiccups>> /\ authLocks[c.client] = t
    BY <1>5, <2>1, <2>2 DEF LookAgain, NeedsGrant, TokenOf, ApiInv, HoldsLock
  <2>6. ApiTypeOK' /\ (at = "grant" => authLocks'[c.client] = t)
        /\ \A k \in {"nowcerts", "zoho"}, u \in Threads \ {t} : authLocks[k] = u => authLocks'[k] = u
    BY <1>1, <2>5 DEF ApiInv, ApiTypeOK
  <2>7. KnowsItsToken(t)' /\ HoldsLock(t)'
    BY <1>1, <2>1, <2>3, <2>4, <2>5, <2>6 DEF KnowsItsToken, HoldsLock
  <2>8. HasLanded(t)'
    BY <2>1, <2>2, <2>3, <2>4, <2>5 DEF ApiInv, HasLanded, OverSteps
  <2>9. ASSUME NEW u \in Threads \ {t} PROVE KnowsItsToken(u)' /\ HoldsLock(u)' /\ HasLanded(u)'
    <3>1. HoldsLock(u)'
      BY <2>4, <2>5, <2>6, <2>9 DEF ApiInv, KnowsItsToken, HoldsLock, TokenSteps
    <3> QED
      BY <2>4, <2>5, <2>9, <3>1 DEF ApiInv, KnowsItsToken, HasLanded
  <2> QED
    BY <2>4, <2>6, <2>7, <2>8, <2>9 DEF ApiInv
<1> QED
  BY <1>3, <1>4, <1>5

(***************************************************************************)
(* A token is granted or is not, or expires.                               *)
(***************************************************************************)
LEMMA ApiGrantStep ==
    ASSUME ApiInv, NEW t \in Threads, Granted(t) \/ GrantFails(t)
    PROVE  ApiInv'
<1> USE ApiAssumption
<1> DEFINE c == apiCalls[t]
<1>1. c \in ApiCall /\ c.at \in {"grant", "regrant"} /\ c.client \in {"nowcerts", "zoho"}
  BY UnderWay DEF Granted, GrantFails, ApiInv, KnowsItsToken, TokenSteps
<1>2. /\ authLocks' \in [{"nowcerts", "zoho"} -> Threads \cup {NoThread}]
      /\ \A k \in {"nowcerts", "zoho"}, u \in Threads \ {t} : authLocks[k] = u => authLocks'[k] = u
      /\ UNCHANGED <<landings, claimedBy, callCount>>
  BY Releases DEF Granted, GrantFails
<1>3. PICK n \in ApiCall : /\ n.at \in {"send", "token", "raised"} /\ n.client = c.client /\ n.does = c.does
                           /\ apiCalls' = [apiCalls EXCEPT ![t] = n]
  <2>1. ASSUME NEW at \in {"send", "raised"}, ApiAt(t, at)
        PROVE  \E n \in ApiCall : /\ n.at \in {"send", "token", "raised"} /\ n.client = c.client /\ n.does = c.does
                                  /\ apiCalls' = [apiCalls EXCEPT ![t] = n]
    <3>1. at \in CallSteps
      BY DEF CallSteps, OverSteps
    <3>2. apiCalls' = [apiCalls EXCEPT ![t] = [c EXCEPT !.at = at]]
      BY <2>1 DEF ApiAt
    <3> QED
      BY <1>1, <3>1, <3>2, CallMoves
  <2>2. ASSUME apiCalls' = [apiCalls EXCEPT ![t].at = "token", ![t].tries = @ + 1]
        PROVE  \E n \in ApiCall : /\ n.at \in {"send", "token", "raised"} /\ n.client = c.client /\ n.does = c.does
                                  /\ apiCalls' = [apiCalls EXCEPT ![t] = n]
    <3>1. "token" \in CallSteps
      BY DEF CallSteps, TokenSteps
    <3>2. apiCalls' = [apiCalls EXCEPT ![t] = [c EXCEPT !.at = "token", !.tries = @ + 1]]
      BY <2>2 DEF ApiInv, CallsShaped
    <3> QED
      BY <1>1, <3>1, <3>2, CallTries
  <2> QED
    BY <2>1, <2>2 DEF Granted, GrantFails
<1>4. CallsShaped' /\ apiCalls'[t] = n /\ \A u \in Threads \ {t} : apiCalls'[u] = apiCalls[u]
  BY <1>3, OneCallMoves DEF ApiInv
<1>5. \/ tokens' = [tokens EXCEPT ![c.client] = "live"] /\ hiccups' = hiccups
      \/ tokens' = tokens /\ hiccups < MaxHiccups /\ hiccups' = hiccups + 1
  BY DEF Granted, GrantFails
<1>6. tokens' \in [{"nowcerts", "zoho"} -> {"none", "stale", "live"}] /\ tokens'[c.client] \in {tokens[c.client], "live"}
      /\ \A k \in {"nowcerts", "zoho"} \ {c.client} : tokens'[k] = tokens[k]
  BY <1>1, <1>5 DEF ApiInv, ApiTypeOK
<1>7. ApiTypeOK'
  BY <1>2, <1>5, <1>6 DEF ApiInv, ApiTypeOK
<1>8. KnowsItsToken(t)' /\ HoldsLock(t)'
  BY <1>1, <1>3, <1>4 DEF KnowsItsToken, HoldsLock
<1>9. HasLanded(t)'
  BY <1>1, <1>2, <1>3, <1>4 DEF ApiInv, HasLanded, OverSteps
<1>10. ASSUME NEW u \in Threads \ {t} PROVE KnowsItsToken(u)' /\ HoldsLock(u)' /\ HasLanded(u)'
  <2>1. KnowsItsToken(u)' /\ HasLanded(u)'
    BY <1>2, <1>4, <1>10 DEF ApiInv, KnowsItsToken, HasLanded
  <2> DEFINE d == apiCalls[u]
  <2>2. d.at \in TokenSteps => d.client \in {"nowcerts", "zoho"}
    BY DEF ApiInv, KnowsItsToken
  <2>3. d.at \in {"locked", "grant"} \/ (d.at = "regrant" /\ d.client = "zoho") => authLocks'[d.client] = u
    BY <1>2, <2>2 DEF ApiInv, HoldsLock, TokenSteps
  <2>4. ASSUME d.at = "grant" PROVE tokens'[d.client] = "none"
    <3>1. authLocks[d.client] = u /\ tokens[d.client] = "none" /\ d.client \in {"nowcerts", "zoho"}
      BY <2>2, <2>4 DEF ApiInv, HoldsLock, TokenSteps
    <3>2. c.client # d.client
      BY <1>1, <3>1 DEF ApiInv, HoldsLock
    <3> QED
      BY <1>6, <3>1, <3>2
  <2>5. ASSUME d.at = "regrant", d.client = "nowcerts" PROVE tokens'["nowcerts"] # "none"
    BY <1>6, <2>5 DEF ApiInv, HoldsLock
  <2> QED
    BY <1>4, <2>1, <2>3, <2>4, <2>5 DEF HoldsLock
<1> QED
  BY <1>4, <1>7, <1>8, <1>9, <1>10 DEF ApiInv

LEMMA ApiExpireStep ==
    ASSUME ApiInv, NEW c \in {"nowcerts", "zoho"}, Expire(c)
    PROVE  ApiInv'
<1>1. PICK new \in {"none", "stale"} : tokens' = [tokens EXCEPT ![c] = new] /\ (new = "none" => c = "zoho")
  BY DEF Expire
<1>2. /\ tokens[c] = "live" /\ hiccups < MaxHiccups /\ hiccups' = hiccups + 1
      /\ UNCHANGED <<authLocks, apiCalls, landings, claimedBy, callCount>>
  BY DEF Expire
<1>3. ApiTypeOK'
  BY <1>1, <1>2, ApiAssumption DEF ApiInv, ApiTypeOK
<1>4. ASSUME NEW u \in Threads PROVE HoldsLock(u)'
  <2>1. tokens'["nowcerts"] = "none" => tokens["nowcerts"] = "none"
    BY <1>1, <1>2 DEF ApiInv, ApiTypeOK
  <2>2. \A k \in {"nowcerts", "zoho"} : tokens[k] = "none" => tokens'[k] = "none"
    BY <1>1, <1>2 DEF ApiInv, ApiTypeOK
  <2> QED
    BY <1>2, <1>4, <2>1, <2>2 DEF ApiInv, HoldsLock, KnowsItsToken, TokenSteps
<1> QED
  BY <1>2, <1>3, <1>4 DEF ApiInv, CallsShaped, KnowsItsToken, HasLanded

LEMMA ApiRefusedStep ==
    ASSUME ApiInv, NEW t \in Threads, TokenRefused(t)
    PROVE  ApiInv'
<1> DEFINE c == apiCalls[t]
<1>1. c \in ApiCall /\ c.at = "send" /\ c.client \in {"nowcerts", "zoho"} /\ tokens[c.client] = "stale"
  <2>1. c \in ApiCall /\ c.at = "send"
    BY UnderWay DEF TokenRefused, ApiInv
  <2> QED
    BY <2>1 DEF TokenRefused, Tokened, TokenOf, ApiCall
<1>2. ApiTypeOK' /\ UNCHANGED <<tokens, authLocks, landings, claimedBy>>
  BY DEF TokenRefused, ApiInv, ApiTypeOK
<1>3. {"raised", "regrant", "relock"} \subseteq CallSteps
  BY DEF CallSteps, TokenSteps, OverSteps
<1>4. CASE c.client = "nowcerts"
  <2>1. PICK at \in {"raised", "regrant"} : apiCalls' = [apiCalls EXCEPT ![t].at = at, ![t].again = TRUE]
    BY <1>4 DEF TokenRefused
  <2> DEFINE n == [c EXCEPT !.at = at, !.again = TRUE]
  <2>2. apiCalls' = [apiCalls EXCEPT ![t] = n]
    BY <2>1 DEF ApiInv, CallsShaped
  <2>3. n \in ApiCall /\ n.at = at /\ n.client = c.client /\ n.does = c.does
    <3>1. c \in ApiCall /\ at \in CallSteps
      BY <1>1, <1>3, <2>1
    <3> QED
      BY <3>1, CallAgain
  <2> HIDE DEF n
  <2> QED
    BY <1>1, <1>2, <1>4, <2>1, <2>2, <2>3, QuietMove DEF OverSteps
<1>5. CASE c.client = "zoho"
  <2>1. PICK at \in {"raised", "relock"} : apiCalls' = [apiCalls EXCEPT ![t].at = at, ![t].tries = @ + 1]
    BY <1>5 DEF TokenRefused
  <2> DEFINE n == [c EXCEPT !.at = at, !.tries = @ + 1]
  <2>2. apiCalls' = [apiCalls EXCEPT ![t] = n]
    BY <2>1 DEF ApiInv, CallsShaped
  <2>3. n \in ApiCall /\ n.at = at /\ n.client = c.client /\ n.does = c.does
    <3>1. c \in ApiCall /\ at \in CallSteps
      BY <1>1, <1>3, <2>1
    <3> QED
      BY <3>1, CallTries
  <2> HIDE DEF n
  <2> QED
    BY <1>1, <1>2, <1>5, <2>1, <2>2, <2>3, QuietMove, ZenonT(60) DEF OverSteps
<1> QED
  BY <1>1, <1>4, <1>5

(***************************************************************************)
(* A request is carried out or is not, and the call is over or goes on.  A *)
(* call that may not be repeated does not go on.                           *)
(***************************************************************************)
LEMMA ApiSendStep ==
    ASSUME ApiInv, NEW t \in Threads, CallAnswered(t) \/ Unanswered(t)
    PROVE  ApiInv'
<1> USE ApiAssumption
<1> DEFINE c == apiCalls[t]
<1>1. c \in ApiCall /\ c.at = "send" /\ c.client \in {"nowcerts", "zoho", "supabase"} /\ c.tries \in Nat \ {0}
  <2>1. c \in ApiCall /\ c.at = "send"
    BY UnderWay DEF CallAnswered, Unanswered, Sendable, ApiInv
  <2> QED
    BY <2>1 DEF ApiCall
<1>2. /\ Lands(t) \/ UNCHANGED <<landings, claimedBy>>
      /\ UNCHANGED <<tokens, authLocks, callCount>>
      /\ hiccups' \in 0..MaxHiccups
  BY DEF CallAnswered, Unanswered, ApiInv, ApiTypeOK
<1>3. PICK n \in ApiCall : /\ n.at \in {"send", "token"} \cup OverSteps /\ n.client = c.client /\ n.does = c.does
                           /\ n.at \in {"send", "token"} => c.tries < Attempts(c)
                           /\ n.at = "token" => c.client \in {"nowcerts", "zoho"}
                           /\ apiCalls' = [apiCalls EXCEPT ![t] = n]
  <2>1. ASSUME NEW at \in OverSteps, ApiAt(t, at)
        PROVE  \E n \in ApiCall : /\ n.at \in {"send", "token"} \cup OverSteps /\ n.client = c.client /\ n.does = c.does
                                  /\ n.at \in {"send", "token"} => c.tries < Attempts(c)
                                  /\ n.at = "token" => c.client \in {"nowcerts", "zoho"}
                                  /\ apiCalls' = [apiCalls EXCEPT ![t] = n]
    <3>1. at \in CallSteps /\ at \notin {"send", "token"}
      BY DEF CallSteps, OverSteps
    <3>2. apiCalls' = [apiCalls EXCEPT ![t] = [c EXCEPT !.at = at]]
      BY <2>1 DEF ApiAt
    <3>3. /\ [c EXCEPT !.at = at] \in ApiCall /\ [c EXCEPT !.at = at].at = at
          /\ [c EXCEPT !.at = at].client = c.client /\ [c EXCEPT !.at = at].does = c.does
      BY <1>1, <3>1, CallMoves
    <3> QED
      BY <3>1, <3>2, <3>3
  <2>2. ASSUME c.tries < Attempts(c), NEW at \in {"token", "send"}, at = "token" => Tokened(c),
               apiCalls' = [apiCalls EXCEPT ![t].at = at, ![t].tries = @ + 1]
        PROVE  \E n \in ApiCall : /\ n.at \in {"send", "token"} \cup OverSteps /\ n.client = c.client /\ n.does = c.does
                                  /\ n.at \in {"send", "token"} => c.tries < Attempts(c)
                                  /\ n.at = "token" => c.client \in {"nowcerts", "zoho"}
                                  /\ apiCalls' = [apiCalls EXCEPT ![t] = n]
    <3> DEFINE n == [c EXCEPT !.at = at, !.tries = @ + 1]
    <3>1. at \in CallSteps /\ c \in ApiCall
      BY <1>1 DEF CallSteps, TokenSteps
    <3>2. apiCalls' = [apiCalls EXCEPT ![t] = n]
      BY <2>2 DEF ApiInv, CallsShaped
    <3>3. n \in ApiCall /\ n.at = at /\ n.client = c.client /\ n.does = c.does
      BY <3>1, CallTries
    <3> HIDE DEF n
    <3>4. at = "token" => c.client \in {"nowcerts", "zoho"}
      BY <1>1, <2>2 DEF Tokened
    <3> QED
      BY <2>2, <3>2, <3>3, <3>4
  <2>3. CASE CallAnswered(t)
    BY <2>1, <2>3 DEF CallAnswered, OverSteps
  <2>4. CASE Unanswered(t)
    <3>1. CASE c.tries < Attempts(c) /\ ~c.again
      <4>1. apiCalls' = [apiCalls EXCEPT ![t].at = IF Tokened(c) THEN "token" ELSE "send", ![t].tries = @ + 1]
        BY <2>4, <3>1 DEF Unanswered
      <4>2. PICK at \in {"token", "send"} : at = (IF Tokened(c) THEN "token" ELSE "send")
        OBVIOUS
      <4> QED
        BY <2>2, <3>1, <4>1, <4>2
    <3>2. CASE ~(c.tries < Attempts(c) /\ ~c.again)
      <4>1. ApiAt(t, "raised") /\ "raised" \in OverSteps
        BY <2>4, <3>2 DEF Unanswered, ApiAt, OverSteps
      <4> QED
        BY <2>1, <4>1
    <3> QED
      BY <3>1, <3>2
  <2> QED
    BY <2>3, <2>4
<1>4. CallsShaped' /\ apiCalls'[t] = n /\ \A u \in Threads \ {t} : apiCalls'[u] = apiCalls[u]
  BY <1>3, OneCallMoves DEF ApiInv
<1>5. /\ landings' \in [Threads -> Nat] /\ claimedBy' \in Threads \cup {NoThread}
      /\ \A u \in Threads \ {t} : landings'[u] = landings[u] /\ (claimedBy' = u <=> claimedBy = u)
      /\ c.does = "read" => landings'[t] = landings[t]
      /\ c.does = "post" => landings'[t] \in {landings[t], landings[t] + 1}
      /\ c.does = "claim" => \/ landings'[t] = landings[t] /\ claimedBy' = claimedBy
                             \/ landings'[t] = landings[t] + 1 /\ claimedBy = NoThread /\ claimedBy' = t
  BY <1>2 DEF Lands, Wins, ApiInv, ApiTypeOK
<1>6. ApiTypeOK'
  BY <1>2, <1>5 DEF ApiInv, ApiTypeOK
<1>7. KnowsItsToken(t)' /\ HoldsLock(t)'
  BY <1>3, <1>4 DEF KnowsItsToken, HoldsLock, OverSteps, TokenSteps
<1>8. HasLanded(t)'
  <2>1. landings[t] \in Nat /\ "send" \notin OverSteps
    BY DEF ApiInv, ApiTypeOK, OverSteps
  <2>2. ASSUME c.does = "post", c.client # "zoho" PROVE landings'[t] <= 1 /\ n.at \in OverSteps
    <3>1. Attempts(c) = 1
      BY <1>1, <2>2 DEF Attempts
    <3>2. landings[t] = 0
      BY <1>1, <2>1, <2>2 DEF ApiInv, HasLanded
    <3> QED
      BY <1>1, <1>3, <1>5, <2>2, <3>1, <3>2
  <2>3. ASSUME c.does = "claim" PROVE c.client = "supabase" /\ landings'[t] = IF claimedBy' = t THEN 1 ELSE 0
    BY <1>1, <1>5, <2>1, <2>3 DEF ApiInv, HasLanded
  <2>4. c.does = "read" => landings'[t] = 0
    BY <1>1, <1>5 DEF ApiInv, HasLanded
  <2> QED
    BY <1>3, <1>4, <2>2, <2>3, <2>4 DEF HasLanded
<1>9. ASSUME NEW u \in Threads \ {t} PROVE KnowsItsToken(u)' /\ HoldsLock(u)' /\ HasLanded(u)'
  BY <1>2, <1>4, <1>5, <1>9 DEF ApiInv, KnowsItsToken, HoldsLock, HasLanded
<1> QED
  BY <1>4, <1>6, <1>7, <1>8, <1>9 DEF ApiInv

LEMMA ApiOverStep ==
    ASSUME ApiInv, NEW t \in Threads, CallOver(t)
    PROVE  ApiInv'
<1> DEFINE n == [apiCalls[t] EXCEPT !.at = "rest"]
<1>1. apiCalls[t] \in ApiCall /\ apiCalls[t].at \in OverSteps /\ apiCalls[t].at # "rest"
  BY UnderWay DEF CallOver, ApiInv, OverSteps
<1>2. "rest" \in CallSteps
  BY DEF CallSteps
<1>3. n \in ApiCall /\ n.at = "rest" /\ n.client = apiCalls[t].client /\ n.does = apiCalls[t].does
  BY <1>1, <1>2, CallMoves
<1>4. apiCalls' = [apiCalls EXCEPT ![t] = n]
  BY DEF CallOver, ApiAt
<1> HIDE DEF n
<1>5. ApiTypeOK' /\ UNCHANGED <<tokens, authLocks, landings, claimedBy>>
  BY DEF CallOver, ApiInv, ApiTypeOK
<1> QED
  BY <1>1, <1>3, <1>4, <1>5, QuietMove DEF TokenSteps

(***************************************************************************)
(* However threads share the clients and whatever their requests meet: no  *)
(* write that may not be repeated lands twice, and a client without a      *)
(* token is asked for one by one thread at a time.                         *)
(***************************************************************************)
THEOREM ApiIsSafe == ApiSpec => []ApiSafe
<1> USE ApiAssumption
<1>1. ApiInit => ApiInv
  <2> SUFFICES ASSUME ApiInit PROVE ApiInv
    OBVIOUS
  <2>1. \A t \in Threads : apiCalls[t] = AtRest /\ apiCalls[t].at = "rest"
    BY DEF ApiInit, AtRest
  <2>2. ApiTypeOK /\ CallsShaped
    BY DEF ApiInit, ApiTypeOK, CallsShaped
  <2> QED
    BY <2>1, <2>2 DEF ApiInv, KnowsItsToken, HoldsLock, HasLanded, TokenSteps
<1>2. ApiInv /\ [ApiNext]_apiVars => ApiInv'
  <2> SUFFICES ASSUME ApiInv, [ApiNext]_apiVars PROVE ApiInv'
    OBVIOUS
  <2>1. CASE UNCHANGED apiVars
    BY <2>1 DEF apiVars, ApiInv, ApiTypeOK, CallsShaped, KnowsItsToken, HoldsLock, HasLanded
  <2> QED
    BY <2>1, ApiStartStep, ApiTokenStep, ApiGrantStep, ApiExpireStep, ApiRefusedStep, ApiSendStep, ApiOverStep DEF ApiNext
<1>3. ASSUME ApiInv PROVE ApiSafe
  <2>1. WritesLandOnce
    <3> SUFFICES ASSUME NEW t \in Threads, apiCalls[t].at # "rest", apiCalls[t].client # "zoho" PROVE landings[t] <= 1
      BY DEF WritesLandOnce
    <3>1. apiCalls[t].does \in {"read", "post", "claim"}
      BY <1>3, UnderWay DEF ApiInv, ApiCall
    <3> QED
      BY <1>3, <3>1 DEF ApiInv, HasLanded
  <2>2. ColdGrantOnce
    BY <1>3 DEF ApiInv, ColdGrantOnce, HoldsLock, TokenOf
  <2> QED
    BY <1>3, <2>1, <2>2 DEF ApiInv, ApiSafe
<1> QED
  BY <1>1, <1>2, <1>3, PTL DEF ApiSpec

-----------------------------------------------------------------------------
(* AgentTurn: what the assistant runs, writes and denies.                  *)

Entries == {"dispatch", "alias", "ask"}
Says == Outcomes \cup Results \cup {"confirm", "clarify", "nothing pending", ""}
OpenTurn == [at: {"route", "intent", "model", "tools"}, entry: Entries, text: Texts, confirm: BOOLEAN, desk: Desks,
             intent: BOOLEAN, model: {"strong", "default"}, left: Int, tool: Tools \cup {""}, unread: BOOLEAN,
             result: Says, reply: Says]
ToldTurn == [at: {"told"}, entry: Entries, tool: Tools \cup {""}, unread: BOOLEAN, result: Says, reply: Says]

TurnsShaped == turn \in [Callers -> OpenTurn \cup ToldTurn \cup {Quiet}]

\* What stands about an open turn: an Ask is confirmed by nobody and goes to no handler of
\* its own, and the last tool ran because it was allowed to.
OpenTurnOK(t) ==
    /\ t.entry = "ask" => ~t.confirm /\ t.at \in {"model", "tools"}
    /\ t.tool \notin Disabled
    /\ t.unread => t.tool \in HopefulTools

TurnOK(t) ==
    /\ t \in OpenTurn => OpenTurnOK(t)
    /\ t \in ToldTurn => (t.unread => t.tool \in HopefulTools)

AgentInv == TurnsShaped /\ (\A p \in Callers : TurnOK(turn[p])) /\ AskWritesNothing

(***************************************************************************)
(* What tells the kinds of turns apart.                                    *)
(***************************************************************************)
LEMMA TurnKinds ==
    ASSUME NEW t \in OpenTurn \cup ToldTurn \cup {Quiet}
    PROVE  /\ t.at \in {"route", "intent", "model", "tools"} => t \in OpenTurn
           /\ t.at = "told" => t \in ToldTurn
           /\ t \in OpenTurn => t.at \in {"route", "intent", "model", "tools"}
           /\ t \in ToldTurn => t.at = "told"
<1>1. t \in OpenTurn => t.at \in {"route", "intent", "model", "tools"}
  BY DEF OpenTurn
<1>2. t \in ToldTurn => t.at = "told"
  BY DEF ToldTurn
<1>3. t = Quiet => t.at = "idle"
  BY DEF Quiet
<1> QED
  BY <1>1, <1>2, <1>3

(***************************************************************************)
(* A turn takes a shape in which all stands; drafts of others than Ask may *)
(* come meanwhile.                                                         *)
(***************************************************************************)
LEMMA TurnTaken ==
    ASSUME AgentInv, NEW p \in Callers, NEW n, n \in OpenTurn \cup ToldTurn, TurnOK(n), TurnTo(p, n), AskWritesNothing'
    PROVE  AgentInv'
    BY DEF AgentInv, TurnsShaped, TurnTo

(***************************************************************************)
(* A reply to an open turn.                                                *)
(***************************************************************************)
LEMMA ReplyIsTold ==
    ASSUME NEW t \in OpenTurn, OpenTurnOK(t), NEW r \in Says
    PROVE  Reply(t, r) \in ToldTurn /\ TurnOK(Reply(t, r))
<1>1. Answered(t, r) \in ToldTurn /\ (Answered(t, r).unread => Answered(t, r).tool \in HopefulTools)
  BY DEF Answered, OpenTurn, ToldTurn, OpenTurnOK
<1>2. \A e \in Says : /\ [Answered(t, r) EXCEPT !.reply = e] \in ToldTurn
                      /\ [Answered(t, r) EXCEPT !.reply = e].unread = Answered(t, r).unread
                      /\ [Answered(t, r) EXCEPT !.reply = e].tool = Answered(t, r).tool
  BY <1>1 DEF ToldTurn
<1>3. "error" \in Says
  BY DEF Says, Results
<1>4. Reply(t, r) \in ToldTurn /\ (Reply(t, r).unread => Reply(t, r).tool \in HopefulTools)
  BY <1>1, <1>2, <1>3 DEF Reply
<1>5. Reply(t, r).at = "told"
  BY <1>4 DEF ToldTurn
<1> QED
  BY <1>4, <1>5, TurnKinds DEF TurnOK

(***************************************************************************)
(* Which tools take a request that failed for one that found nothing.      *)
(***************************************************************************)
LEMMA DenialIsHopeful ==
    ASSUME NEW tool \in Tools, NEW r \in [1..2 -> Outcomes], NEW closable \in BOOLEAN,
           Blind(tool, r), Answer(tool, r, closable) = "none"
    PROVE  tool \in HopefulTools
<1>1. r[1] \in Outcomes /\ r[2] \in Outcomes
  OBVIOUS
<1>2. CASE tool \in OneRequest
  BY <1>1, <1>2 DEF OneRequest, Blind, Answer, Outcomes, FindClient, ListCarriers, ListIntake, EmailSearch, CommissionSummary,
                    CommissionShortfalls, CarrierAppetite, CrmActivity
<1>3. CASE tool \in {"lookup_class_code", "appointments_by_line", "client_policies", "case_progress"}
  BY <1>1, <1>3 DEF OneRequest, Blind, Answer, Outcomes, ClassCode, Appointments, ClientPolicies, CaseProgress
<1>4. CASE tool \in {"web_research", "intake_lead", "run_report"}
  BY <1>4 DEF Answer
<1> QED
  BY <1>2, <1>3, <1>4 DEF Tools, OneRequest, HopefulTools

(***************************************************************************)
(* Every step of a request leaves its turn in one of the two shapes, with  *)
(* what stands about it.                                                   *)
(***************************************************************************)
LEMMA AgentOpens ==
    ASSUME AgentInv, NEW p \in Callers, NEW entry \in Entries, NEW x \in Texts, NEW c \in BOOLEAN, NEW desk \in Desks,
           NEW at \in {"route", "model"}, entry = "ask" => c = FALSE /\ at = "model"
    PROVE  /\ LET t == [FreshTurn(entry, x, c, desk) EXCEPT !.at = at] IN t \in OpenTurn /\ OpenTurnOK(t)
           /\ entry # "ask" => FreshTurn(entry, x, c, desk) \in OpenTurn /\ OpenTurnOK(FreshTurn(entry, x, c, desk))
<1> DEFINE f == FreshTurn(entry, x, c, desk)
<1>1. f \in OpenTurn
  <2>1. "" \in Says
    BY DEF Says
  <2>2. "" \in Tools \cup {""}
    OBVIOUS
  <2> QED
    <3>1. "route" \in {"route", "intent", "model", "tools"} /\ "strong" \in {"strong", "default"} /\ 0 \in Int
      OBVIOUS
    <3>2. TRUE \in BOOLEAN /\ FALSE \in BOOLEAN /\ c \in BOOLEAN
      OBVIOUS
    <3> QED
      BY <2>1, <2>2, <3>1, <3>2, Zenon DEF FreshTurn, OpenTurn
<1>2. f.entry = entry /\ f.confirm = c /\ f.tool = "" /\ ~f.unread
  BY DEF FreshTurn
<1> HIDE DEF f
<1> DEFINE t == [f EXCEPT !.at = at]
<1>3. t \in OpenTurn /\ t.at = at /\ t.entry = entry /\ t.confirm = c /\ t.tool = "" /\ t.unread = f.unread
  BY <1>1, <1>2 DEF OpenTurn
<1>4. OpenTurnOK(t)
  BY <1>2, <1>3, AgentAssumption DEF OpenTurnOK
<1>5. entry # "ask" => OpenTurnOK(f)
  BY <1>2, AgentAssumption DEF OpenTurnOK
<1> QED
  BY <1>1, <1>3, <1>4, <1>5 DEF f

\* What the steps of an open turn set, one lemma for each form.
LEMMA TurnAt ==
    ASSUME NEW t \in OpenTurn, OpenTurnOK(t), NEW at \in {"intent", "model"}, t.entry = "ask" => at = "model"
    PROVE  [t EXCEPT !.at = at] \in OpenTurn /\ OpenTurnOK([t EXCEPT !.at = at])
<1> DEFINE n == [t EXCEPT !.at = at]
<1>1. n \in OpenTurn /\ n.at = at /\ n.entry = t.entry /\ n.confirm = t.confirm /\ n.tool = t.tool /\ n.unread = t.unread
  BY DEF OpenTurn
<1> QED
  BY <1>1 DEF OpenTurnOK

LEMMA TurnRoutes ==
    ASSUME NEW t \in OpenTurn, OpenTurnOK(t), t.entry # "ask", NEW x \in Texts
    PROVE  LET n == [t EXCEPT !.at = "route", !.text = x, !.intent = FALSE] IN n \in OpenTurn /\ OpenTurnOK(n)
<1> DEFINE n == [t EXCEPT !.at = "route", !.text = x, !.intent = FALSE]
<1>1. n \in OpenTurn /\ n.entry = t.entry /\ n.confirm = t.confirm /\ n.tool = t.tool /\ n.unread = t.unread
  BY DEF OpenTurn
<1> QED
  BY <1>1 DEF OpenTurnOK

LEMMA TurnCompletes ==
    ASSUME NEW t \in OpenTurn, OpenTurnOK(t), t.at = "model"
    PROVE  /\ \A n \in 0..2 : LET u == [t EXCEPT !.at = "tools", !.left = n, !.result = "rows"] IN u \in OpenTurn /\ OpenTurnOK(u)
           /\ LET u == [t EXCEPT !.model = "default"] IN u \in OpenTurn /\ OpenTurnOK(u)
<1>1. ASSUME NEW n \in 0..2
      PROVE  LET u == [t EXCEPT !.at = "tools", !.left = n, !.result = "rows"] IN u \in OpenTurn /\ OpenTurnOK(u)
  <2> DEFINE u == [t EXCEPT !.at = "tools", !.left = n, !.result = "rows"]
  <2>1. "rows" \in Says /\ n \in Int
    BY DEF Says, Outcomes
  <2>2. /\ u \in OpenTurn /\ u.at = "tools" /\ u.entry = t.entry /\ u.confirm = t.confirm /\ u.tool = t.tool
        /\ u.unread = t.unread
    BY <2>1 DEF OpenTurn
  <2> QED
    BY <2>2 DEF OpenTurnOK
<1>2. LET u == [t EXCEPT !.model = "default"] IN u \in OpenTurn /\ OpenTurnOK(u)
  <2> DEFINE u == [t EXCEPT !.model = "default"]
  <2>1. /\ u \in OpenTurn /\ u.at = t.at /\ u.entry = t.entry /\ u.confirm = t.confirm /\ u.tool = t.tool
        /\ u.unread = t.unread
    BY DEF OpenTurn
  <2> QED
    BY <2>1 DEF OpenTurnOK
<1> QED
  BY <1>1, <1>2

LEMMA TurnCalls ==
    ASSUME NEW t \in OpenTurn, OpenTurnOK(t), t.at = "tools", NEW tool \in Tools, tool \notin Disabled,
           NEW r \in Says, NEW blind \in BOOLEAN, blind = TRUE /\ r = "none" => tool \in HopefulTools
    PROVE  After(t, tool, r, blind) \in OpenTurn /\ OpenTurnOK(After(t, tool, r, blind))
<1> DEFINE n == After(t, tool, r, blind)
<1>1. PICK k \in Int : k = t.left - 1
  <2>1. t.left \in Int
    BY DEF OpenTurn
  <2> QED
    BY <2>1
<1>2. PICK unread \in BOOLEAN : unread = (blind /\ r = "none")
  OBVIOUS
<1>3. n = [t EXCEPT !.left = k, !.tool = tool, !.result = r, !.unread = unread]
  BY <1>1, <1>2 DEF After
<1>4. /\ n \in OpenTurn /\ n.at = t.at /\ n.entry = t.entry /\ n.confirm = t.confirm /\ n.tool = tool
      /\ n.unread = unread
  BY <1>3 DEF OpenTurn
<1>5. unread = TRUE => tool \in HopefulTools
  BY <1>2
<1> QED
  BY <1>4, <1>5 DEF OpenTurnOK

LEMMA TurnSkips ==
    ASSUME NEW t \in OpenTurn, OpenTurnOK(t)
    PROVE  [t EXCEPT !.left = @ - 1] \in OpenTurn /\ OpenTurnOK([t EXCEPT !.left = @ - 1])
<1>1. t.left \in Int
  BY DEF OpenTurn
<1>2. PICK k \in Int : k = t.left - 1
  BY <1>1
<1> DEFINE n == [t EXCEPT !.left = k]
<1>3. /\ n \in OpenTurn /\ n.at = t.at /\ n.entry = t.entry /\ n.confirm = t.confirm /\ n.tool = t.tool
      /\ n.unread = t.unread
  BY DEF OpenTurn
<1>4. n \in OpenTurn /\ OpenTurnOK(n)
  BY <1>3 DEF OpenTurnOK
<1> QED
  BY <1>2, <1>4

\* Where a turn stands, for the turn of one caller.
LEMMA TurnOf ==
    ASSUME AgentInv, NEW p \in Callers, turn[p].at \in {"route", "intent", "model", "tools"}
    PROVE  turn[p] \in OpenTurn /\ OpenTurnOK(turn[p])
<1>1. turn[p] \in OpenTurn \cup ToldTurn \cup {Quiet} /\ TurnOK(turn[p])
  BY DEF AgentInv, TurnsShaped
<1> QED
  BY <1>1, TurnKinds DEF TurnOK

LEMMA OpenIsOK ==
    ASSUME NEW n \in OpenTurn, OpenTurnOK(n)
    PROVE  n \in OpenTurn \cup ToldTurn /\ TurnOK(n)
    BY TurnKinds DEF TurnOK

\* A handler writes a draft of its own request.
LEMMA HandlesForOthers ==
    ASSUME AgentInv, NEW p \in Callers, NEW x, NEW r, Handle(p, x, r), turn[p].entry # "ask"
    PROVE  AskWritesNothing'
<1>1. Draft(turn[p], p).entry # "ask"
  BY DEF Draft
<1> QED
  BY <1>1 DEF AgentInv, AskWritesNothing, Handle

LEMMA AgentEntryStep ==
    ASSUME AgentInv, NEW p \in Callers,
           \/ \E entry \in {"dispatch", "alias"}, x \in Texts, c \in BOOLEAN : Submit(p, entry, x, c)
           \/ \E desk \in Desks : Prompt(p, desk)
    PROVE  AgentInv'
<1>1. AskWritesNothing'
  BY DEF Submit, Prompt, AgentInv, AskWritesNothing
<1>2. {"confirm", "rows"} \subseteq Says
  BY DEF Says, Outcomes
<1>3. ASSUME NEW entry \in {"dispatch", "alias"}, NEW x \in Texts, NEW c \in BOOLEAN, Submit(p, entry, x, c)
      PROVE  AgentInv'
  <2> DEFINE t == FreshTurn(entry, x, c, "home")
  <2>1. entry \in Entries /\ "home" \in Desks /\ entry # "ask"
    BY DEF Entries, Desks
  <2>2. t \in OpenTurn /\ OpenTurnOK(t)
    BY <2>1, AgentOpens
  <2>3. TurnTo(p, Reply(t, "confirm")) \/ TurnTo(p, t)
    BY <1>3 DEF Submit
  <2> HIDE DEF t
  <2>4. /\ Reply(t, "confirm") \in OpenTurn \cup ToldTurn /\ TurnOK(Reply(t, "confirm"))
        /\ t \in OpenTurn \cup ToldTurn /\ TurnOK(t)
    BY <1>2, <2>2, ReplyIsTold, OpenIsOK
  <2> QED
    BY <1>1, <2>3, <2>4, TurnTaken
<1>4. ASSUME NEW desk \in Desks, Prompt(p, desk) PROVE AgentInv'
  <2> DEFINE x == CHOOSE y \in Texts : TRUE
  <2>1. x \in Texts
    <3>1. [hint |-> FALSE, route |-> "token"] \in Texts
      BY DEF Texts
    <3> QED
      BY <3>1
  <2> DEFINE t == [FreshTurn("ask", x, FALSE, desk) EXCEPT !.at = "model"]
  <2>2. TurnTo(p, t) \/ TurnTo(p, Reply(t, "rows"))
    BY <1>4 DEF Prompt
  <2> HIDE DEF x
  <2>3. t \in OpenTurn /\ OpenTurnOK(t)
    BY <2>1, AgentOpens DEF Entries
  <2> HIDE DEF t
  <2>4. /\ Reply(t, "rows") \in OpenTurn \cup ToldTurn /\ TurnOK(Reply(t, "rows"))
        /\ t \in OpenTurn \cup ToldTurn /\ TurnOK(t)
    BY <1>2, <2>3, ReplyIsTold, OpenIsOK
  <2> QED
    BY <1>1, <2>2, <2>4, TurnTaken
<1> QED
  BY <1>3, <1>4

LEMMA AgentRouteStep ==
    ASSUME AgentInv, NEW p \in Callers, Token(p) \/ Route(p) \/ Intent(p)
    PROVE  AgentInv'
<1> DEFINE t == turn[p]
<1>1. t \in OpenTurn /\ OpenTurnOK(t) /\ t.entry # "ask"
  <2>1. t.at \in {"route", "intent"}
    BY DEF Token, Route, Intent
  <2> QED
    BY <2>1, TurnOf DEF OpenTurnOK
<1>2. Results \cup {"nothing pending", "clarify"} \subseteq Says /\ "refused" \in Results
  BY DEF Says, Results
<1>3. ASSUME NEW r \in Says, TurnTo(p, Reply(t, r)), AskWritesNothing' PROVE AgentInv'
  <2>1. Reply(t, r) \in OpenTurn \cup ToldTurn /\ TurnOK(Reply(t, r))
    BY <1>1, <1>3, ReplyIsTold
  <2> QED
    BY <1>3, <2>1, TurnTaken
<1>4. ASSUME NEW at \in {"intent", "model"}, TurnTo(p, [t EXCEPT !.at = at]), AskWritesNothing' PROVE AgentInv'
  <2> DEFINE n == [t EXCEPT !.at = at]
  <2>1. n \in OpenTurn /\ OpenTurnOK(n)
    BY <1>1, <1>4, TurnAt
  <2>2. TurnTo(p, n)
    BY <1>4
  <2> HIDE DEF n
  <2> QED
    BY <1>4, <2>1, <2>2, OpenIsOK, TurnTaken
<1>5. CASE Token(p)
  <2>1. TurnTo(p, Reply(t, "nothing pending")) /\ AskWritesNothing'
    BY <1>5 DEF Token, AgentInv, AskWritesNothing
  <2> QED
    BY <1>2, <1>3, <2>1
<1>6. CASE Route(p)
  <2>1. ASSUME NEW r \in Results, Handle(p, t.text, r), TurnTo(p, AfterHandler(t, r)) PROVE AgentInv'
    <3>1. AskWritesNothing'
      BY <1>1, <2>1, HandlesForOthers
    <3>2. r \in Says /\ (TurnTo(p, [t EXCEPT !.at = "intent"]) \/ TurnTo(p, Reply(t, r)))
      BY <1>2, <2>1 DEF AfterHandler
    <3> QED
      BY <1>3, <1>4, <3>1, <3>2
  <2>2. ASSUME TurnTo(p, IF t.intent THEN [t EXCEPT !.at = "model"] ELSE Reply(t, "clarify")), UNCHANGED drafts PROVE AgentInv'
    <3>1. AskWritesNothing'
      BY <2>2 DEF AgentInv, AskWritesNothing
    <3>2. TurnTo(p, [t EXCEPT !.at = "model"]) \/ TurnTo(p, Reply(t, "clarify"))
      BY <2>2
    <3> QED
      BY <1>2, <1>3, <1>4, <3>1, <3>2
  <2> QED
    BY <1>6, <2>1, <2>2 DEF Route
<1>7. CASE Intent(p)
  <2>1. AskWritesNothing'
    BY <1>7 DEF Intent, AgentInv, AskWritesNothing
  <2>2. ASSUME NEW x \in Texts, TurnTo(p, [t EXCEPT !.at = "route", !.text = x, !.intent = FALSE]) PROVE AgentInv'
    <3> DEFINE n == [t EXCEPT !.at = "route", !.text = x, !.intent = FALSE]
    <3>1. n \in OpenTurn /\ OpenTurnOK(n)
      BY <1>1, TurnRoutes
    <3>2. TurnTo(p, n)
      BY <2>2
    <3> HIDE DEF n
    <3> QED
      BY <2>1, <3>1, <3>2, OpenIsOK, TurnTaken
  <2> QED
    BY <1>2, <1>3, <1>7, <2>1, <2>2 DEF Intent
<1> QED
  BY <1>5, <1>6, <1>7

LEMMA AgentToolStep ==
    ASSUME AgentInv, KeepsToEnum, NEW p \in Callers, Complete(p) \/ (\E tool \in Tools : Call(p, tool)) \/ Summarise(p)
    PROVE  AgentInv'
<1> DEFINE t == turn[p]
<1>1. t \in OpenTurn /\ OpenTurnOK(t)
  BY TurnOf DEF Complete, Call, Summarise
<1>2. Results \cup {"confirm", "clarify"} \cup Outcomes \subseteq Says /\ {"refused", "error"} \subseteq Results
  BY DEF Says, Results
<1>3. ASSUME NEW r \in Says, TurnTo(p, Reply(t, r)), AskWritesNothing' PROVE AgentInv'
  <2>1. Reply(t, r) \in OpenTurn \cup ToldTurn /\ TurnOK(Reply(t, r))
    BY <1>1, <1>3, ReplyIsTold
  <2> QED
    BY <1>3, <2>1, TurnTaken
<1>4. ASSUME NEW n \in OpenTurn, OpenTurnOK(n), TurnTo(p, n), AskWritesNothing' PROVE AgentInv'
  BY <1>4, OpenIsOK, TurnTaken
<1>5. CASE Complete(p)
  <2>1. AskWritesNothing' /\ t.at = "model"
    BY <1>5 DEF Complete, AgentInv, AskWritesNothing
  <2>2. \/ \E n \in 0..2 : TurnTo(p, [t EXCEPT !.at = "tools", !.left = n, !.result = "rows"])
        \/ TurnTo(p, [t EXCEPT !.model = "default"])
        \/ TurnTo(p, Reply(t, "refused"))
    BY <1>5 DEF Complete
  <2>3. CASE \E n \in 0..2 : TurnTo(p, [t EXCEPT !.at = "tools", !.left = n, !.result = "rows"])
    <3>1. PICK n \in 0..2 : TurnTo(p, [t EXCEPT !.at = "tools", !.left = n, !.result = "rows"])
      BY <2>3
    <3> DEFINE u == [t EXCEPT !.at = "tools", !.left = n, !.result = "rows"]
    <3>2. u \in OpenTurn /\ OpenTurnOK(u)
      BY <1>1, <2>1, TurnCompletes
    <3>3. TurnTo(p, u)
      BY <3>1
    <3> HIDE DEF u
    <3> QED
      BY <1>4, <2>1, <3>2, <3>3
  <2>4. CASE TurnTo(p, [t EXCEPT !.model = "default"])
    <3> DEFINE u == [t EXCEPT !.model = "default"]
    <3>1. u \in OpenTurn /\ OpenTurnOK(u)
      BY <1>1, <2>1, TurnCompletes
    <3>2. TurnTo(p, u)
      BY <2>4
    <3> HIDE DEF u
    <3> QED
      BY <1>4, <2>1, <3>1, <3>2
  <2> QED
    BY <1>2, <1>3, <2>1, <2>2, <2>3, <2>4
<1>6. ASSUME NEW tool \in Tools, Call(p, tool) PROVE AgentInv'
  <2>1. t.at = "tools"
    BY <1>6 DEF Call
  <2>2. ASSUME NEW r \in Says, NEW blind \in BOOLEAN, blind = TRUE /\ r = "none" => tool \in HopefulTools,
               tool \notin Disabled, TurnTo(p, After(t, tool, r, blind)), AskWritesNothing'
        PROVE  AgentInv'
    <3>1. After(t, tool, r, blind) \in OpenTurn /\ OpenTurnOK(After(t, tool, r, blind))
      BY <1>1, <2>1, <2>2, TurnCalls
    <3> QED
      BY <1>4, <2>2, <3>1
  <2>3. CASE ~RunsTool(t, tool)
    <3> DEFINE n == [t EXCEPT !.left = @ - 1]
    <3>1. n \in OpenTurn /\ OpenTurnOK(n)
      BY <1>1, TurnSkips
    <3>2. TurnTo(p, n) /\ AskWritesNothing'
      BY <1>6, <2>3 DEF Call, AgentInv, AskWritesNothing
    <3> HIDE DEF n
    <3> QED
      BY <1>4, <3>1, <3>2
  <2>4. CASE RunsTool(t, tool) /\ tool = "intake_lead" /\ Confirmed(t)
    <3>1. PICK r \in Results : Handle(p, [hint |-> FALSE, route |-> "intake"], r) /\ TurnTo(p, AfterTool(t, tool, r))
      BY <1>6, <2>4 DEF Call
    <3>2. t.entry # "ask"
      BY <1>1, <2>4 DEF OpenTurnOK, Confirmed
    <3>3. AskWritesNothing'
      BY <3>1, <3>2, HandlesForOthers
    <3>4. TurnTo(p, Reply(t, r)) \/ TurnTo(p, After(t, tool, r, FALSE))
      BY <3>1 DEF AfterTool
    <3>5. r \in Says /\ tool \notin Disabled
      BY <1>2, <2>4 DEF RunsTool
    <3> QED
      BY <1>3, <2>2, <3>3, <3>4, <3>5
  <2>5. CASE RunsTool(t, tool) /\ tool = "intake_lead" /\ ~Confirmed(t)
    <3>1. TurnTo(p, After(t, tool, "confirm", FALSE)) /\ AskWritesNothing' /\ tool \notin Disabled
      BY <1>6, <2>5 DEF Call, AgentInv, AskWritesNothing, RunsTool
    <3> QED
      BY <1>2, <2>2, <3>1
  <2>6. CASE RunsTool(t, tool) /\ tool = "run_report"
    <3>1. TurnTo(p, After(t, tool, "clarify", FALSE)) /\ UNCHANGED drafts
      BY <1>6, <2>6 DEF Call
    <3>2. AskWritesNothing' /\ tool \notin Disabled
      BY <2>6, <3>1 DEF AgentInv, AskWritesNothing, RunsTool
    <3> QED
      BY <1>2, <2>2, <3>1, <3>2
  <2>7. CASE RunsTool(t, tool) /\ tool \notin {"intake_lead", "run_report"}
    <3>1. PICK r \in [1..2 -> Outcomes], closable \in BOOLEAN :
             TurnTo(p, After(t, tool, Answer(tool, r, closable), Blind(tool, r)))
      BY <1>6, <2>7 DEF Call
    <3>2. AskWritesNothing' /\ tool \notin Disabled
      BY <1>6, <2>7 DEF Call, AgentInv, AskWritesNothing, RunsTool
    <3>3. Answer(tool, r, closable) \in Outcomes
      <4>1. r[1] \in Outcomes /\ r[2] \in Outcomes /\ {"rows", "none", "failed"} \subseteq Outcomes
        BY DEF Outcomes
      <4> QED
        BY <4>1 DEF Answer, FindClient, ListCarriers, ListIntake, EmailSearch, CommissionSummary, CommissionShortfalls,
                    CarrierAppetite, CrmActivity, ClassCode, Appointments, ClientPolicies, CaseProgress, AmsSnapshot,
                    ClientDocuments, ListCases, Hopeful
    <3>4. Blind(tool, r) \in BOOLEAN
      BY DEF Blind
    <3>5. Blind(tool, r) = TRUE /\ Answer(tool, r, closable) = "none" => tool \in HopefulTools
      BY DenialIsHopeful
    <3> QED
      BY <1>2, <2>2, <3>1, <3>2, <3>3, <3>4, <3>5
  <2> QED
    BY <2>3, <2>4, <2>5, <2>6, <2>7
<1>7. CASE Summarise(p)
  <2>1. t.result \in Says
    BY <1>1 DEF OpenTurn
  <2>2. TurnTo(p, Reply(t, t.result)) /\ AskWritesNothing'
    BY <1>7 DEF Summarise, AgentInv, AskWritesNothing
  <2> QED
    BY <1>3, <2>1, <2>2
<1> QED
  BY <1>5, <1>6, <1>7

(***************************************************************************)
(* As long as the model keeps to the enum of run_report: no disabled tool  *)
(* runs, no question to the Ask box writes, and nothing is denied that was *)
(* not read, save by the tools known to.                                   *)
(***************************************************************************)
THEOREM AgentIsSafe == KeepsToEnum => (AgentSpec => []AgentSafe)
<1> SUFFICES ASSUME KeepsToEnum PROVE AgentSpec => []AgentSafe
  OBVIOUS
<1>1. AgentInit => AgentInv
  <2> SUFFICES ASSUME AgentInit PROVE AgentInv
    OBVIOUS
  <2>1. \A p \in Callers : turn[p] = Quiet
    BY DEF AgentInit
  <2>2. Quiet \notin OpenTurn /\ Quiet \notin ToldTurn
    BY TurnKinds DEF Quiet
  <2>3. TurnsShaped
    BY DEF AgentInit, TurnsShaped
  <2> QED
    BY <2>1, <2>2, <2>3 DEF AgentInit, AgentInv, TurnOK, AskWritesNothing
<1>2. AgentInv /\ [AgentNext]_agentVars => AgentInv'
  <2> SUFFICES ASSUME AgentInv, [AgentNext]_agentVars PROVE AgentInv'
    OBVIOUS
  <2>1. CASE UNCHANGED agentVars
    BY <2>1 DEF agentVars, AgentInv, TurnsShaped, AskWritesNothing
  <2> QED
    BY <2>1, AgentEntryStep, AgentRouteStep, AgentToolStep DEF AgentNext
<1>3. ASSUME AgentInv PROVE AgentSafe
  <2>1. DisabledNeverExecuted
    BY <1>3, TurnOf DEF DisabledNeverExecuted, OpenTurnOK
  <2>2. DenialsWereRead
    <3> SUFFICES ASSUME NEW p \in Callers, turn[p].at = "told", turn[p].unread PROVE turn[p].tool \in HopefulTools
      BY DEF DenialsWereRead
    <3>1. turn[p] \in ToldTurn /\ TurnOK(turn[p])
      BY <1>3, TurnKinds DEF AgentInv, TurnsShaped
    <3> QED
      BY <3>1 DEF TurnOK
  <2> QED
    BY <1>3, <2>1, <2>2 DEF AgentInv, AgentSafe
<1> QED
  BY <1>1, <1>2, <1>3, PTL DEF AgentSpec

(***************************************************************************)
(* The assistant and the clients in front, together.                       *)
(***************************************************************************)
THEOREM ClientsAreSafe == KeepsToEnum => (ApiSpec /\ AgentSpec => []ClientsSafe)
<1>1. ApiSafe /\ AgentSafe => ClientsSafe
  BY DEF ClientsSafe
<1> QED
  BY <1>1, ApiIsSafe, AgentIsSafe, PTL

-----------------------------------------------------------------------------
(* SharedDesk: what an agent was told is done, and cards that are there once. *)

CardAsks == {ask \in Asks : ask.tool = "add_deck_card"}
DriveCall == [ask: Asks, id: Nat, heard: {"", "error", "preview", "exists", "ok"},
              at: {"search", "post", "due", "folder", "exists", "put", "verify", "remember", "index", "over"}]

CardRow == [title: {ask.title : ask \in CardAsks}, due: BOOLEAN]
DocumentRow == [title: {ask.title : ask \in Asks}, indexed: BOOLEAN]

DriveStoresOK == cards \in Seq(CardRow) /\ library \in Seq(DocumentRow)

DriveTypeOK ==
    /\ DriveStoresOK /\ asked \in Seq(DriveCall) /\ collided \in BOOLEAN

\* A call is at a step of its own tool, and one that is not fit never begins.
AtItsTool(c) ==
    /\ c.at \in {"search", "post", "due"} => c.ask.tool = "add_deck_card"
    /\ c.at = "folder" => c.ask.tool = "ensure_nextcloud_folders"
    /\ c.at \in {"exists", "put", "verify"} => c.ask.tool = "file_to_nextcloud"
    /\ c.at \in {"remember", "index"} => c.ask.tool = "save_document"
    /\ c.at # "over" \/ c.heard = "ok" => c.ask.fit

\* What the stores hold of a file, of a folder, and of what was told to be done.
FolderThere(fs, path) == Upto(Based(path)) \subseteq fs
FileThere(fs, ps, ask) ==
    /\ Upto(Based(Front(ask.path))) \subseteq fs /\ Based(ask.path) \in DOMAIN ps /\ ps[Based(ask.path)] = ask.content

DoneIn(ask, cs, fs, ps, lib) ==
    /\ ask.tool = "add_deck_card" => \E c \in DOMAIN cs : SameTitle(cs[c].title, ask.title)
    /\ ask.tool = "ensure_nextcloud_folders" => \A k \in DOMAIN ask.paths : FolderThere(fs, ask.paths[k])
    /\ ask.tool = "file_to_nextcloud" => FileThere(fs, ps, ask)
    /\ ask.tool = "save_document" => \E d \in DOMAIN lib : lib[d].title = ask.title /\ lib[d].indexed

\* What a call may still believe: that its card is not there yet or is its own, its
\* path is free or holds its file, and what came before is there.
NoTwin(c, cs) == c.at = "post" => \A k \in DOMAIN cs : ~SameTitle(cs[k].title, c.ask.title)
OwnCard(c, cs) == c.at = "due" => c.id \in DOMAIN cs /\ cs[c.id].title = c.ask.title
FoldersSoFar(c, fs) ==
    c.at = "folder" => /\ c.id \in 0..(Len(c.ask.paths) - 1)
                       /\ \A k \in 1..c.id : FolderThere(fs, c.ask.paths[k])
FreePath(c, ps) == c.at = "put" => Based(c.ask.path) \notin DOMAIN ps
OwnFile(c, fs, ps) == c.at = "verify" => FileThere(fs, ps, c.ask)
OwnDocument(c, lib) == c.at = "index" => c.id \in DOMAIN lib /\ lib[c.id].title = c.ask.title

Holds(c, cs, fs, ps, lib) ==
    /\ NoTwin(c, cs) /\ OwnCard(c, cs) /\ FoldersSoFar(c, fs) /\ FreePath(c, ps) /\ OwnFile(c, fs, ps)
    /\ OwnDocument(c, lib)
    /\ c.heard = "ok" => DoneIn(c.ask, cs, fs, ps, lib)

\* No two calls in flight are about one thing.
CallsApart(calls) ==
    \A n, m \in DOMAIN calls : (n # m /\ calls[n].at # "over" /\ calls[m].at # "over") => ~SameThing(calls[n].ask, calls[m].ask)

CardsOnce(cs) == \A c, d \in DOMAIN cs : SameTitle(cs[c].title, cs[d].title) => c = d

DriveInv ==
    /\ DriveTypeOK /\ \A n \in DOMAIN asked : AtItsTool(asked[n])
    /\ ~collided => /\ CallsApart(asked) /\ CardsOnce(cards)
                    /\ \A n \in DOMAIN asked : Holds(asked[n], cards, folders, pdfs, library)

(***************************************************************************)
(* One element of a sequence is replaced.                                  *)
(***************************************************************************)
LEMMA PutInPlace ==
    ASSUME NEW S, NEW q \in Seq(S), NEW k \in DOMAIN q, NEW s \in S
    PROVE  /\ [q EXCEPT ![k] = s] \in Seq(S) /\ DOMAIN [q EXCEPT ![k] = s] = DOMAIN q
           /\ \A d \in DOMAIN q : [q EXCEPT ![k] = s][d] = IF d = k THEN s ELSE q[d]
    OBVIOUS

(***************************************************************************)
(* Two paths under NEXTCLOUD_BASE_PATH are the same only if they are.      *)
(***************************************************************************)
LEMMA BasedApart ==
    ASSUME NEW p \in Paths, NEW q \in Paths, Based(p) = Based(q)
    PROVE  p = q
    BY DriveAssumption, ConcatSimplifications DEF Based, Paths

(***************************************************************************)
(* Nobody takes anything from the stores: they only grow, and what was     *)
(* done stays done.                                                        *)
(***************************************************************************)
Grown(cs, fs, ps, lib, cs2, fs2, ps2, lib2) ==
    /\ DOMAIN cs \subseteq DOMAIN cs2 /\ \A k \in DOMAIN cs : cs2[k].title = cs[k].title
    /\ fs \subseteq fs2
    /\ DOMAIN ps \subseteq DOMAIN ps2 /\ \A k \in DOMAIN ps : ps2[k] = ps[k]
    /\ DOMAIN lib \subseteq DOMAIN lib2
    /\ \A k \in DOMAIN lib : lib2[k].title = lib[k].title /\ (lib[k].indexed => lib2[k].indexed)

LEMMA DoneStays ==
    ASSUME NEW ask, NEW cs, NEW fs, NEW ps, NEW lib, NEW cs2, NEW fs2, NEW ps2, NEW lib2,
           DoneIn(ask, cs, fs, ps, lib), Grown(cs, fs, ps, lib, cs2, fs2, ps2, lib2)
    PROVE  DoneIn(ask, cs2, fs2, ps2, lib2)
PROOF
<1>1. ask.tool = "add_deck_card" => \E k \in DOMAIN cs2 : SameTitle(cs2[k].title, ask.title)
    BY DEF DoneIn, Grown
<1>2. ask.tool = "ensure_nextcloud_folders" => \A k \in DOMAIN ask.paths : FolderThere(fs2, ask.paths[k])
    BY DEF DoneIn, Grown, FolderThere
<1>3. ask.tool = "file_to_nextcloud" => FileThere(fs2, ps2, ask)
    BY DEF DoneIn, Grown, FileThere
<1>4. ask.tool = "save_document" => \E d \in DOMAIN lib2 : lib2[d].title = ask.title /\ lib2[d].indexed
    BY DEF DoneIn, Grown
<1>5. QED
    BY <1>1, <1>2, <1>3, <1>4 DEF DoneIn

(***************************************************************************)
(* What a call believes outlives the steps of the others when the cards    *)
(* and files they add are not its own.                                     *)
(***************************************************************************)
LEMMA HoldsOn ==
    ASSUME NEW c \in DriveCall, NEW cs, NEW fs, NEW ps, NEW lib, NEW cs2, NEW fs2, NEW ps2, NEW lib2,
           Holds(c, cs, fs, ps, lib), Grown(cs, fs, ps, lib, cs2, fs2, ps2, lib2),
           c.at = "post" => \A k \in DOMAIN cs2 \ DOMAIN cs : ~SameTitle(cs2[k].title, c.ask.title),
           c.at = "put" => Based(c.ask.path) \notin DOMAIN ps2 \ DOMAIN ps
    PROVE  Holds(c, cs2, fs2, ps2, lib2)
PROOF
<1>1. NoTwin(c, cs2)
    BY DEF Holds, NoTwin, Grown
<1>2. OwnCard(c, cs2)
    BY DEF Holds, OwnCard, Grown
<1>3. FoldersSoFar(c, fs2)
    BY DEF Holds, FoldersSoFar, FolderThere, Grown
<1>4. FreePath(c, ps2)
    BY DEF Holds, FreePath, Grown
<1>5. OwnFile(c, fs2, ps2)
    BY DEF Holds, OwnFile, FileThere, Grown
<1>6. OwnDocument(c, lib2)
    BY DEF Holds, OwnDocument, Grown
<1>7. QED
    BY <1>1, <1>2, <1>3, <1>4, <1>5, <1>6, DoneStays DEF Holds

(***************************************************************************)
(* One call takes a step: it leaves the stores to the others as they       *)
(* believe them to be, and holds itself where it goes.                     *)
(***************************************************************************)
StoresGrow == Grown(cards, folders, pdfs, library, cards', folders', pdfs', library')
Spares(n) ==
    \A m \in DOMAIN asked : m # n =>
        /\ asked[m].at = "post" => \A k \in DOMAIN cards' \ DOMAIN cards : ~SameTitle(cards'[k].title, asked[m].ask.title)
        /\ asked[m].at = "put" => Based(asked[m].ask.path) \notin DOMAIN pdfs' \ DOMAIN pdfs

LEMMA CallGoes ==
    ASSUME DriveInv, NEW n \in DOMAIN asked, asked[n].at # "over", NEW c \in DriveCall, c.ask = asked[n].ask, AtItsTool(c),
           asked' = [asked EXCEPT ![n] = c], UNCHANGED collided, DriveStoresOK',
           ~collided => StoresGrow /\ CardsOnce(cards') /\ Spares(n) /\ Holds(c, cards', folders', pdfs', library')
    PROVE  DriveInv'
PROOF
<1>1. /\ asked' \in Seq(DriveCall) /\ DOMAIN asked' = DOMAIN asked
      /\ asked'[n] = c /\ \A m \in DOMAIN asked : m # n => asked'[m] = asked[m]
    BY DEF DriveInv, DriveTypeOK
<1>2. DriveTypeOK'
    BY <1>1 DEF DriveInv, DriveTypeOK
<1>3. \A m \in DOMAIN asked' : AtItsTool(asked'[m])
    BY <1>1 DEF DriveInv
<1>4. ASSUME ~collided PROVE CallsApart(asked')
    BY <1>1, <1>4 DEF DriveInv, CallsApart
<1>5. ASSUME ~collided, NEW m \in DOMAIN asked' PROVE Holds(asked'[m], cards', folders', pdfs', library')
  <2>1. CASE m = n
      BY <1>1, <1>5, <2>1
  <2>2. CASE m # n
    <3>1. asked[m] \in DriveCall /\ Holds(asked[m], cards, folders, pdfs, library)
        BY <1>1, <1>5 DEF DriveInv, DriveTypeOK
    <3>2. Grown(cards, folders, pdfs, library, cards', folders', pdfs', library')
        BY <1>5 DEF StoresGrow
    <3>3. /\ asked[m].at = "post" => \A k \in DOMAIN cards' \ DOMAIN cards : ~SameTitle(cards'[k].title, asked[m].ask.title)
          /\ asked[m].at = "put" => Based(asked[m].ask.path) \notin DOMAIN pdfs' \ DOMAIN pdfs
        BY <1>1, <1>5, <2>2 DEF Spares
    <3>4. Holds(asked[m], cards', folders', pdfs', library')
        BY <3>1, <3>2, <3>3, HoldsOn
    <3>5. QED
        BY <1>1, <1>5, <2>2, <3>4
  <2>3. QED
      BY <2>1, <2>2
<1>6. QED
    BY <1>2, <1>3, <1>4, <1>5 DEF DriveInv

LEMMA CallEnds ==
    ASSUME DriveInv, NEW n \in DOMAIN asked, asked[n].at # "over", NEW say \in {"error", "exists", "ok"}, Ends(n, say),
           UNCHANGED collided, DriveStoresOK',
           ~collided => /\ StoresGrow /\ CardsOnce(cards') /\ Spares(n)
                        /\ say = "ok" => DoneIn(asked[n].ask, cards', folders', pdfs', library')
    PROVE  DriveInv'
PROOF
<1>1. PICK old \in DriveCall : old = asked[n]
    BY DEF DriveInv, DriveTypeOK
<1>2. PICK c \in DriveCall : /\ c.ask = old.ask /\ c.at = "over" /\ c.heard \in {say, old.heard}
                             /\ asked' = [asked EXCEPT ![n] = c]
  <2>1. PICK heard \in {say, old.heard} : asked' = [asked EXCEPT ![n].at = "over", ![n].heard = heard]
      BY <1>1 DEF Ends, ToldNow
  <2>2. [old EXCEPT !.at = "over", !.heard = heard] \in DriveCall
      BY <1>1, <2>1 DEF DriveCall
  <2>3. asked' = [asked EXCEPT ![n] = [old EXCEPT !.at = "over", !.heard = heard]]
      BY <1>1, <2>1, <2>2 DEF DriveInv, DriveTypeOK
  <2>4. QED
      BY <1>1, <2>1, <2>2, <2>3 DEF DriveCall
<1>3. AtItsTool(old) /\ AtItsTool(c)
    BY <1>1, <1>2 DEF DriveInv, AtItsTool
<1>4. ASSUME ~collided PROVE Holds(c, cards', folders', pdfs', library')
  <2>1. old.heard = "ok" => DoneIn(old.ask, cards', folders', pdfs', library')
      BY <1>1, <1>4, DoneStays DEF DriveInv, Holds, StoresGrow
  <2>2. c.heard = "ok" => DoneIn(c.ask, cards', folders', pdfs', library')
      BY <1>1, <1>2, <1>4, <2>1
  <2>3. QED
      BY <1>2, <2>2 DEF Holds, NoTwin, OwnCard, FoldersSoFar, FreePath, OwnFile, OwnDocument
<1>5. QED
    BY <1>1, <1>2, <1>3, <1>4, CallGoes

LEMMA CallTurns ==
    ASSUME DriveInv, NEW n \in DOMAIN asked, asked[n].at # "over",
           NEW place \in {"post", "due", "folder", "put", "verify", "index"}, NEW id \in Nat, GoesOn(n, place, id),
           \A c \in DriveCall : c.ask = asked[n].ask /\ c.at = place /\ c.heard = asked[n].heard => AtItsTool(c),
           UNCHANGED collided, DriveStoresOK',
           ~collided => /\ StoresGrow /\ CardsOnce(cards') /\ Spares(n)
                        /\ \A c \in DriveCall : c.ask = asked[n].ask /\ c.at = place /\ c.id = id =>
                              /\ NoTwin(c, cards') /\ OwnCard(c, cards') /\ FoldersSoFar(c, folders')
                              /\ FreePath(c, pdfs') /\ OwnFile(c, folders', pdfs') /\ OwnDocument(c, library')
    PROVE  DriveInv'
PROOF
<1>1. PICK old \in DriveCall : old = asked[n]
    BY DEF DriveInv, DriveTypeOK
<1>2. PICK c \in DriveCall : /\ c.ask = old.ask /\ c.at = place /\ c.id = id /\ c.heard = old.heard
                             /\ asked' = [asked EXCEPT ![n] = c]
  <2>1. [old EXCEPT !.at = place, !.id = id] \in DriveCall
      BY <1>1 DEF DriveCall
  <2>2. asked' = [asked EXCEPT ![n] = [old EXCEPT !.at = place, !.id = id]]
      BY <1>1, <2>1 DEF GoesOn, DriveInv, DriveTypeOK
  <2>3. PICK c \in DriveCall : c = [old EXCEPT !.at = place, !.id = id]
      BY <2>1
  <2>4. c.ask = old.ask /\ c.at = place /\ c.id = id /\ c.heard = old.heard
      BY <2>3 DEF DriveCall
  <2>5. QED
      BY <2>2, <2>3, <2>4
<1>3. AtItsTool(c)
    BY <1>1, <1>2
<1>4. ASSUME ~collided PROVE Holds(c, cards', folders', pdfs', library')
  <2>1. old.heard = "ok" => DoneIn(old.ask, cards', folders', pdfs', library')
      BY <1>1, <1>4, DoneStays DEF DriveInv, Holds, StoresGrow
  <2>2. QED
      BY <1>1, <1>2, <1>4, <2>1 DEF Holds
<1>5. QED
    BY <1>1, <1>2, <1>3, <1>4, CallGoes

(***************************************************************************)
(* A step that only looks.                                                 *)
(***************************************************************************)
LEMMA DriveLooks ==
    ASSUME DriveInv, UNCHANGED driveStores
    PROVE  /\ DriveStoresOK' /\ StoresGrow /\ \A n \in DOMAIN asked : Spares(n)
           /\ ~collided => CardsOnce(cards')
PROOF
<1>1. cards' = cards /\ folders' = folders /\ pdfs' = pdfs /\ library' = library
    BY DEF driveStores
<1>2. DriveStoresOK'
    BY <1>1 DEF DriveInv, DriveTypeOK, DriveStoresOK
<1>3. StoresGrow
    BY <1>1 DEF StoresGrow, Grown
<1>4. \A n \in DOMAIN asked : Spares(n)
    BY <1>1 DEF Spares
<1>5. QED
    BY <1>1, <1>2, <1>3, <1>4 DEF DriveInv

\* What is known of a call that is under way.
LEMMA CallAt ==
    ASSUME DriveInv, NEW n \in DOMAIN asked
    PROVE  /\ asked[n] \in DriveCall /\ asked[n].ask \in Asks /\ asked[n].id \in Nat /\ AtItsTool(asked[n])
           /\ ~collided => Holds(asked[n], cards, folders, pdfs, library)
           /\ asked[n].at = "over" => asked[n].at \notin {"search", "post", "due", "folder", "exists", "put", "verify", "remember", "index"}
PROOF
<1>1. PICK c \in DriveCall : c = asked[n]
    BY DEF DriveInv, DriveTypeOK
<1>2. c.ask \in Asks /\ c.id \in Nat
    BY DEF DriveCall
<1>3. QED
    BY <1>1, <1>2 DEF DriveInv

LEMMA DriveFailsStep ==
    ASSUME DriveInv, NEW n \in DOMAIN asked, asked[n].at # "over", NEW done, DriveFails(n, done),
           DriveStoresOK', ~collided => StoresGrow /\ CardsOnce(cards') /\ Spares(n)
    PROVE  DriveInv'
    BY CallEnds DEF DriveFails

LEMMA CallToolStep ==
    ASSUME DriveInv, NEW ask \in Asks, CallTool(ask)
    PROVE  DriveInv'
PROOF
<1>1. PICK c : /\ c = [ask |-> ask, at |-> Begins(ask), id |-> 0,
                       heard |-> IF ~ask.fit THEN "error" ELSE IF Begins(ask) = "over" THEN "preview" ELSE ""]
               /\ asked' = Append(asked, c)
    BY DEF CallTool
<1>2. /\ Begins(ask) \in {"over", "search", "folder", "exists", "remember"}
      /\ ask.fit \in BOOLEAN
      /\ Begins(ask) # "over" => ask.fit
      /\ Begins(ask) = "search" => ask.tool = "add_deck_card"
      /\ Begins(ask) = "folder" => ask.tool = "ensure_nextcloud_folders"
      /\ Begins(ask) = "exists" => ask.tool = "file_to_nextcloud"
      /\ Begins(ask) = "remember" => ask.tool = "save_document"
  <2>1. /\ ask.tool \in {"add_deck_card", "ensure_nextcloud_folders", "file_to_nextcloud", "save_document"}
        /\ ask.fit \in BOOLEAN
      BY AsksAssumption
  <2>2. CASE ~ask.fit
      BY <2>1, <2>2 DEF Begins
  <2>3. CASE ask.fit /\ ask.tool = "add_deck_card"
      BY <2>1, <2>3 DEF Begins
  <2>4. CASE ask.fit /\ ask.tool = "ensure_nextcloud_folders"
      BY <2>1, <2>4 DEF Begins
  <2>5. CASE ask.fit /\ ask.tool = "file_to_nextcloud"
      BY <2>1, <2>5 DEF Begins
  <2>6. CASE ask.fit /\ ask.tool = "save_document"
      BY <2>1, <2>6 DEF Begins
  <2>7. QED
      BY <2>1, <2>2, <2>3, <2>4, <2>5, <2>6
<1>3. /\ c \in DriveCall /\ c.ask = ask /\ c.at = Begins(ask) /\ c.id = 0 /\ c.heard # "ok"
    BY <1>1, <1>2 DEF DriveCall
<1>4. AtItsTool(c)
    BY <1>2, <1>3 DEF AtItsTool
<1>5. /\ asked' \in Seq(DriveCall) /\ DOMAIN asked' = 1..(Len(asked) + 1) /\ DOMAIN asked = 1..Len(asked)
      /\ asked'[Len(asked) + 1] = c /\ \A m \in DOMAIN asked : asked'[m] = asked[m]
  <2>1. asked \in Seq(DriveCall)
      BY DEF DriveInv, DriveTypeOK
  <2>2. /\ Append(asked, c) \in Seq(DriveCall) /\ Len(Append(asked, c)) = Len(asked) + 1
        /\ \A i \in 1..Len(asked) : Append(asked, c)[i] = asked[i]
        /\ Append(asked, c)[Len(asked) + 1] = c
      BY <1>3, <2>1, AppendProperties
  <2>3. DOMAIN asked = 1..Len(asked) /\ DOMAIN Append(asked, c) = 1..(Len(asked) + 1)
      BY <2>1, <2>2
  <2>4. asked' = Append(asked, c)
      BY <1>1
  <2>5. QED
      BY <2>2, <2>3, <2>4
<1>6. \A m \in DOMAIN asked' : m \in DOMAIN asked \/ m = Len(asked) + 1
    BY <1>5
<1>7. DriveTypeOK'
    BY <1>5 DEF DriveInv, DriveTypeOK, DriveStoresOK, CallTool, driveStores
<1>8. \A m \in DOMAIN asked' : AtItsTool(asked'[m])
    BY <1>4, <1>5, <1>6 DEF DriveInv
<1>9. ASSUME ~collided'
      PROVE  /\ CallsApart(asked') /\ CardsOnce(cards')
             /\ \A m \in DOMAIN asked' : Holds(asked'[m], cards', folders', pdfs', library')
  <2>1. ~collided /\ \A m \in DOMAIN asked : asked[m].at # "over" => ~SameThing(asked[m].ask, ask)
      BY <1>9 DEF CallTool
  <2>2. \A m \in DOMAIN asked : asked[m].at # "over" => ~SameThing(ask, asked[m].ask)
    <3>1. SUFFICES ASSUME NEW m \in DOMAIN asked, asked[m].at # "over", SameThing(ask, asked[m].ask)
                   PROVE  SameThing(asked[m].ask, ask)
        BY <2>1
    <3>2. PICK other \in Asks : other = asked[m].ask
        BY CallAt
    <3>3. SameThing(ask, other)
        BY <3>1, <3>2
    <3>4. ask.tool = "add_deck_card" /\ other.tool = "add_deck_card" /\ SameTitle(ask.title, other.title)
              => SameTitle(other.title, ask.title)
        BY AsksAssumption
    <3>5. SameThing(other, ask)
        BY <3>3, <3>4 DEF SameThing
    <3>6. QED
        BY <3>2, <3>5
  <2>3. CallsApart(asked')
      BY <1>3, <1>5, <1>6, <2>1, <2>2 DEF CallsApart, DriveInv
  <2>4. Holds(c, cards, folders, pdfs, library)
    <3>1. NoTwin(c, cards) /\ OwnCard(c, cards) /\ FreePath(c, pdfs) /\ OwnFile(c, folders, pdfs) /\ OwnDocument(c, library)
        BY <1>2, <1>3 DEF NoTwin, OwnCard, FreePath, OwnFile, OwnDocument
    <3>2. ask.fit /\ ask.tool = "ensure_nextcloud_folders" => Len(ask.paths) \in Nat \ {0}
        BY AsksAssumption
    <3>3. FoldersSoFar(c, folders)
        BY <1>2, <1>3, <3>2 DEF FoldersSoFar
    <3>4. QED
        BY <1>3, <3>1, <3>3 DEF Holds
  <2>5. \A m \in DOMAIN asked' : Holds(asked'[m], cards, folders, pdfs, library)
      BY <1>5, <1>6, <2>1, <2>4 DEF DriveInv
  <2>6. cards' = cards /\ folders' = folders /\ pdfs' = pdfs /\ library' = library
      BY DEF CallTool, driveStores
  <2>7. QED
      BY <2>1, <2>3, <2>5, <2>6 DEF DriveInv
<1>10. QED
    BY <1>7, <1>8, <1>9 DEF DriveInv

LEMMA BridgeStep ==
    ASSUME DriveInv, NEW n \in DOMAIN asked, BridgeGivesUp(n)
    PROVE  DriveInv'
PROOF
<1>1. PICK old \in DriveCall : old = asked[n]
    BY DEF DriveInv, DriveTypeOK
<1>2. PICK c \in DriveCall : c = [old EXCEPT !.heard = "error"] /\ asked' = [asked EXCEPT ![n] = c]
  <2>1. [old EXCEPT !.heard = "error"] \in DriveCall
      BY DEF DriveCall
  <2>2. QED
      BY <1>1, <2>1 DEF BridgeGivesUp, DriveInv, DriveTypeOK
<1>3. c.ask = old.ask /\ c.at = old.at /\ c.id = old.id /\ c.heard = "error"
    BY <1>2 DEF DriveCall
<1>4. AtItsTool(c)
    BY <1>1, <1>3 DEF DriveInv, AtItsTool
<1>5. /\ asked' \in Seq(DriveCall) /\ DOMAIN asked' = DOMAIN asked
      /\ asked'[n] = c /\ \A m \in DOMAIN asked : m # n => asked'[m] = asked[m]
    BY <1>2 DEF DriveInv, DriveTypeOK
<1>6. cards' = cards /\ folders' = folders /\ pdfs' = pdfs /\ library' = library /\ collided' = collided
    BY DEF BridgeGivesUp, driveStores
<1>7. DriveTypeOK' /\ \A m \in DOMAIN asked' : AtItsTool(asked'[m])
    BY <1>4, <1>5, <1>6 DEF DriveInv, DriveTypeOK, DriveStoresOK
<1>8. ~collided => CallsApart(asked')
    BY <1>1, <1>3, <1>5 DEF DriveInv, CallsApart
<1>9. ~collided => Holds(c, cards, folders, pdfs, library)
    BY <1>1, <1>3 DEF DriveInv, Holds, NoTwin, OwnCard, FoldersSoFar, FreePath, OwnFile, OwnDocument
<1>10. ~collided => \A m \in DOMAIN asked' : Holds(asked'[m], cards, folders, pdfs, library)
    BY <1>5, <1>9 DEF DriveInv
<1>11. QED
    BY <1>6, <1>7, <1>8, <1>10 DEF DriveInv

(***************************************************************************)
(* A card: looked for, posted, dated.                                      *)
(***************************************************************************)
LEMMA SearchStep ==
    ASSUME DriveInv, NEW n \in DOMAIN asked, SearchList(n)
    PROVE  DriveInv'
PROOF
<1>1. asked[n].at = "search" /\ UNCHANGED driveStores
    BY DEF SearchList
<1>2. DriveStoresOK' /\ StoresGrow /\ Spares(n) /\ (~collided => CardsOnce(cards'))
    BY <1>1, DriveLooks
<1>3. CASE DriveFails(n, TRUE)
    BY <1>1, <1>2, <1>3, DriveFailsStep
<1>4. CASE Works /\ Ends(n, "exists")
    BY <1>1, <1>2, <1>4, CallEnds DEF Works
<1>5. CASE Works /\ ~(\E c \in ToSet(cards) : Twin(c, asked[n].ask.title)) /\ GoesOn(n, "post", 0)
  <2>1. \A k \in DOMAIN cards : ~SameTitle(cards[k].title, asked[n].ask.title)
      BY <1>5 DEF ToSet, Twin
  <2>2. cards' = cards
      BY <1>1 DEF driveStores
  <2>3. ASSUME NEW c \in DriveCall, c.ask = asked[n].ask, c.at = "post"
        PROVE  /\ NoTwin(c, cards') /\ OwnCard(c, cards') /\ FoldersSoFar(c, folders')
               /\ FreePath(c, pdfs') /\ OwnFile(c, folders', pdfs') /\ OwnDocument(c, library')
      BY <2>1, <2>2, <2>3 DEF NoTwin, OwnCard, FoldersSoFar, FreePath, OwnFile, OwnDocument
  <2>4. \A c \in DriveCall : c.ask = asked[n].ask /\ c.at = "post" /\ c.heard = asked[n].heard => AtItsTool(c)
      BY <1>1, CallAt DEF AtItsTool
  <2>5. QED
      BY <1>1, <1>2, <1>5, <2>3, <2>4, CallTurns DEF Works
<1>6. QED
    BY <1>3, <1>4, <1>5 DEF SearchList

LEMMA PostStep ==
    ASSUME DriveInv, NEW n \in DOMAIN asked, PostCard(n)
    PROVE  DriveInv'
PROOF
<1>1. asked[n].at = "post" /\ folders' = folders /\ pdfs' = pdfs /\ library' = library
    BY DEF PostCard
<1>2. PICK ask \in CardAsks : ask = asked[n].ask
    BY <1>1, CallAt DEF AtItsTool, CardAsks
<1>3. PICK card \in CardRow : card = [title |-> ask.title, due |-> FALSE]
    BY <1>2 DEF CardRow
<1>4. card.title = ask.title
    BY <1>3
<1>5. CASE cards' = Append(cards, card)
  <2>1. cards \in Seq(CardRow)
      BY DEF DriveInv, DriveTypeOK, DriveStoresOK
  <2>2. /\ cards' \in Seq(CardRow) /\ Len(cards') = Len(cards) + 1
        /\ \A k \in 1..Len(cards) : cards'[k] = cards[k]
        /\ cards'[Len(cards) + 1] = card
      BY <1>5, <2>1, AppendProperties
  <2>3. /\ DOMAIN cards = 1..Len(cards) /\ Len(cards) \in Nat
        /\ DOMAIN cards' = DOMAIN cards \cup {Len(cards) + 1} /\ Len(cards) + 1 \notin DOMAIN cards
      BY <2>1, <2>2
  <2>4. DriveStoresOK' /\ StoresGrow
      BY <1>1, <2>1, <2>2, <2>3 DEF DriveInv, DriveTypeOK, DriveStoresOK, StoresGrow, Grown
  <2>5. ASSUME ~collided PROVE CardsOnce(cards') /\ Spares(n)
    <3>1. \A k \in DOMAIN cards : ~SameTitle(cards[k].title, ask.title)
        BY <1>1, <1>2, <2>5, CallAt DEF Holds, NoTwin
    <3>2. \A k \in DOMAIN cards : ~SameTitle(ask.title, cards[k].title)
      <4>1. \A k \in DOMAIN cards : \E a \in CardAsks : cards[k].title = a.title
        <5>1. SUFFICES ASSUME NEW k \in DOMAIN cards
                       PROVE  \E a \in CardAsks : cards[k].title = a.title
            OBVIOUS
        <5>2. PICK r \in CardRow : r = cards[k]
            BY <2>1, <2>3, <5>1
        <5>3. r.title \in {a.title : a \in CardAsks}
            BY <5>2 DEF CardRow
        <5>4. QED
            BY <5>2, <5>3
      <4>2. \A a, b \in CardAsks : SameTitle(a.title, b.title) => SameTitle(b.title, a.title)
          BY AsksAssumption DEF CardAsks
      <4>3. QED
          BY <1>2, <3>1, <4>1, <4>2
    <3>3. CardsOnce(cards')
      <4>1. \A c, d \in DOMAIN cards : SameTitle(cards[c].title, cards[d].title) => c = d
          BY <2>5 DEF DriveInv, CardsOnce
      <4>2. \A k \in DOMAIN cards : cards'[k] = cards[k]
          BY <2>2, <2>3
      <4>3. SUFFICES ASSUME NEW c \in DOMAIN cards', NEW d \in DOMAIN cards', SameTitle(cards'[c].title, cards'[d].title)
                     PROVE  c = d
          BY DEF CardsOnce
      <4>4. CASE c \in DOMAIN cards /\ d \in DOMAIN cards
          BY <4>1, <4>2, <4>3, <4>4
      <4>5. CASE c \in DOMAIN cards /\ d = Len(cards) + 1
          BY <1>4, <2>2, <3>1, <4>2, <4>3, <4>5
      <4>6. CASE d \in DOMAIN cards /\ c = Len(cards) + 1
          BY <1>4, <2>2, <3>2, <4>2, <4>3, <4>6
      <4>7. QED
          BY <2>3, <4>4, <4>5, <4>6
    <3>4. ASSUME NEW m \in DOMAIN asked, m # n
          PROVE  /\ asked[m].at = "post" => \A k \in DOMAIN cards' \ DOMAIN cards : ~SameTitle(cards'[k].title, asked[m].ask.title)
                 /\ asked[m].at = "put" => Based(asked[m].ask.path) \notin DOMAIN pdfs' \ DOMAIN pdfs
      <4>1. asked[m].at = "post" => asked[m].ask.tool = "add_deck_card" /\ ~SameThing(asked[n].ask, asked[m].ask)
          BY <1>1, <2>5, <3>4, CallAt DEF DriveInv, CallsApart, AtItsTool
      <4>2. asked[m].at = "post" => ~SameTitle(ask.title, asked[m].ask.title)
          BY <1>2, <4>1 DEF SameThing, CardAsks
      <4>3. QED
          BY <1>1, <1>4, <2>2, <2>3, <4>2
    <3>5. Spares(n)
        BY <3>4 DEF Spares
    <3>6. QED
        BY <3>3, <3>5
  <2>6. DoneIn(ask, cards', folders', pdfs', library')
    <3>1. SameTitle(ask.title, ask.title)
        BY <1>2, AsksAssumption DEF CardAsks
    <3>2. QED
        BY <1>2, <1>4, <2>2, <2>3, <3>1 DEF DoneIn, CardAsks
  <2>7. CASE DriveFails(n, cards' = Append(cards, [title |-> asked[n].ask.title, due |-> FALSE]) \/ UNCHANGED cards)
      BY <1>1, <2>4, <2>5, <2>7, DriveFailsStep
  <2>8. CASE Works /\ Ends(n, "ok")
      BY <1>1, <1>2, <2>4, <2>5, <2>6, <2>8, CallEnds DEF Works
  <2>9. CASE Works /\ GoesOn(n, "due", Len(cards) + 1)
    <3>1. ASSUME NEW c \in DriveCall, c.ask = asked[n].ask, c.at = "due", c.id = Len(cards) + 1
          PROVE  /\ NoTwin(c, cards') /\ OwnCard(c, cards') /\ FoldersSoFar(c, folders')
                 /\ FreePath(c, pdfs') /\ OwnFile(c, folders', pdfs') /\ OwnDocument(c, library')
        BY <1>2, <1>4, <2>2, <2>3, <3>1 DEF NoTwin, OwnCard, FoldersSoFar, FreePath, OwnFile, OwnDocument
    <3>2. \A c \in DriveCall : c.ask = asked[n].ask /\ c.at = "due" /\ c.heard = asked[n].heard => AtItsTool(c)
        BY <1>1, CallAt DEF AtItsTool
    <3>3. Len(cards) + 1 \in Nat
        BY <2>3
    <3>4. QED
        BY <1>1, <2>4, <2>5, <2>9, <3>1, <3>2, <3>3, CallTurns DEF Works
  <2>10. QED
    <3>1. cards' # cards
        BY <2>2, <2>3
    <3>2. QED
        BY <2>7, <2>8, <2>9, <3>1 DEF PostCard
<1>6. CASE cards' = cards
  <2>1. UNCHANGED driveStores
      BY <1>1, <1>6 DEF driveStores
  <2>2. cards # Append(cards, card)
    <3>1. cards \in Seq(CardRow)
        BY DEF DriveInv, DriveTypeOK, DriveStoresOK
    <3>2. Len(Append(cards, card)) = Len(cards) + 1 /\ Len(cards) \in Nat
        BY <3>1, AppendProperties
    <3>3. QED
        BY <3>2
  <2>3. DriveFails(n, cards' = Append(cards, [title |-> asked[n].ask.title, due |-> FALSE]) \/ UNCHANGED cards)
      BY <1>2, <1>3, <1>6, <2>2 DEF PostCard
  <2>4. QED
      BY <1>1, <2>1, <2>3, DriveLooks, DriveFailsStep
<1>7. QED
    BY <1>2, <1>3, <1>5, <1>6 DEF PostCard, DriveFails

LEMMA PutDueStep ==
    ASSUME DriveInv, NEW n \in DOMAIN asked, PutDue(n)
    PROVE  DriveInv'
PROOF
<1>1. asked[n].at = "due" /\ folders' = folders /\ pdfs' = pdfs /\ library' = library
    BY DEF PutDue
<1>2. PICK k \in Nat : k = asked[n].id
    BY CallAt
<1>3. cards' = [cards EXCEPT ![k].due = TRUE] \/ cards' = cards
    BY <1>2 DEF PutDue, DriveFails
<1>4. /\ cards' \in Seq(CardRow)
      /\ DOMAIN cards' = DOMAIN cards /\ \A c \in DOMAIN cards : cards'[c].title = cards[c].title
  <2>1. cards \in Seq(CardRow)
      BY DEF DriveInv, DriveTypeOK, DriveStoresOK
  <2>2. CASE cards' = [cards EXCEPT ![k].due = TRUE] /\ k \in DOMAIN cards
    <3>1. PICK r \in CardRow : r = cards[k]
        BY <2>1, <2>2
    <3>2. PICK s \in CardRow : s = [r EXCEPT !.due = TRUE]
        BY <3>1 DEF CardRow
    <3>3. s.title = r.title
        BY <3>2 DEF CardRow
    <3>4. cards' = [cards EXCEPT ![k] = s]
        BY <2>2, <3>1, <3>2
    <3>5. k \in DOMAIN cards
        BY <2>2
    <3>6. /\ cards' \in Seq(CardRow) /\ DOMAIN cards' = DOMAIN cards
          /\ \A c \in DOMAIN cards : cards'[c] = IF c = k THEN s ELSE cards[c]
        BY <2>1, <3>2, <3>4, <3>5, PutInPlace
    <3>7. QED
        BY <3>1, <3>3, <3>6
  <2>3. CASE cards' = [cards EXCEPT ![k].due = TRUE] /\ k \notin DOMAIN cards
    <3>1. cards' = cards
        BY <2>1, <2>3
    <3>2. QED
        BY <2>1, <3>1
  <2>4. QED
      BY <1>3, <2>1, <2>2, <2>3
<1>5. DriveStoresOK' /\ StoresGrow
    BY <1>1, <1>4 DEF DriveInv, DriveTypeOK, DriveStoresOK, StoresGrow, Grown
<1>6. ~collided => CardsOnce(cards') /\ Spares(n)
    BY <1>1, <1>4 DEF DriveInv, CardsOnce, Spares
<1>7. CASE DriveFails(n, cards' = [cards EXCEPT ![asked[n].id].due = TRUE] \/ UNCHANGED cards)
    BY <1>1, <1>5, <1>6, <1>7, DriveFailsStep
<1>8. CASE Works /\ Ends(n, "ok")
  <2>1. ASSUME ~collided PROVE DoneIn(asked[n].ask, cards', folders', pdfs', library')
    <3>1. PICK ask \in CardAsks : ask = asked[n].ask
        BY <1>1, CallAt DEF AtItsTool, CardAsks
    <3>2. k \in DOMAIN cards /\ cards[k].title = ask.title
        BY <1>1, <1>2, <2>1, <3>1, CallAt DEF Holds, OwnCard
    <3>3. SameTitle(ask.title, ask.title)
        BY <3>1, AsksAssumption DEF CardAsks
    <3>4. QED
        BY <1>4, <3>1, <3>2, <3>3 DEF DoneIn, CardAsks
  <2>2. QED
      BY <1>1, <1>5, <1>6, <1>8, <2>1, CallEnds DEF Works
<1>9. QED
    BY <1>7, <1>8 DEF PutDue

(***************************************************************************)
(* Folders: each path of the call in turn.                                 *)
(***************************************************************************)
LEMMA FoldersStep ==
    ASSUME DriveInv, NEW n \in DOMAIN asked, EnsureFolder(n)
    PROVE  DriveInv'
PROOF
<1>1. asked[n].at = "folder" /\ cards' = cards /\ pdfs' = pdfs /\ library' = library
    BY DEF EnsureFolder
<1>2. PICK ask \in Asks : ask = asked[n].ask
    BY CallAt
<1>3. PICK k \in Nat \ {0} : k = asked[n].id + 1
    BY CallAt
<1>4. ask.tool = "ensure_nextcloud_folders" /\ ask.fit
    BY <1>1, <1>2, CallAt DEF AtItsTool
<1>5. ask.paths \in Seq(Paths) \ {<<>>}
    BY <1>2, <1>4, AsksAssumption
<1>6. PICK paths \in Seq(Paths) \ {<<>>} : paths = ask.paths
    BY <1>5
<1>7. folders \subseteq folders'
    BY <1>2, <1>3, <1>6 DEF EnsureFolder, DriveFails, MakeDirs, MakeSome
<1>8. /\ DriveStoresOK' /\ StoresGrow /\ (~collided => CardsOnce(cards') /\ Spares(n))
    BY <1>1, <1>7 DEF DriveInv, DriveTypeOK, DriveStoresOK, StoresGrow, Grown, Spares
<1>9. CASE DriveFails(n, MakeSome(paths[k]))
    BY <1>1, <1>8, <1>9, DriveFailsStep
<1>10. CASE Works /\ MakeDirs(paths[k]) /\ ~(k < Len(paths)) /\ \E say \in {"ok", "error"} : Ends(n, say)
  <2>1. PICK say \in {"ok", "error"} : Ends(n, say)
      BY <1>10
  <2>2. ASSUME ~collided PROVE DoneIn(ask, cards', folders', pdfs', library')
    <3>1. FoldersSoFar(asked[n], folders)
        BY <2>2, CallAt DEF Holds
    <3>2. k - 1 \in 0..(Len(paths) - 1) /\ \A j \in 1..(k - 1) : FolderThere(folders, paths[j])
      <4>1. asked[n].id = k - 1
          BY <1>3, CallAt
      <4>2. QED
          BY <1>1, <1>2, <1>6, <3>1, <4>1 DEF FoldersSoFar
    <3>3. FolderThere(folders', paths[k])
        BY <1>10 DEF MakeDirs, FolderThere
    <3>4. \A j \in 1..(k - 1) : FolderThere(folders', paths[j])
        BY <1>7, <3>2 DEF FolderThere
    <3>5. DOMAIN paths = 1..Len(paths) /\ Len(paths) \in Nat /\ k = Len(paths)
        BY <1>6, <1>10, <3>2
    <3>6. \A j \in DOMAIN paths : j \in 1..(k - 1) \/ j = k
        BY <3>5
    <3>7. \A j \in DOMAIN paths : FolderThere(folders', paths[j])
        BY <3>3, <3>4, <3>6
    <3>8. QED
        BY <1>4, <1>6, <3>7 DEF DoneIn
  <2>3. QED
      BY <1>1, <1>2, <1>8, <1>10, <2>1, <2>2, CallEnds DEF Works
<1>11. CASE Works /\ MakeDirs(paths[k]) /\ k < Len(paths) /\ GoesOn(n, "folder", k)
  <2>1. ASSUME ~collided, NEW c \in DriveCall, c.ask = asked[n].ask, c.at = "folder", c.id = k
        PROVE  /\ NoTwin(c, cards') /\ OwnCard(c, cards') /\ FoldersSoFar(c, folders')
               /\ FreePath(c, pdfs') /\ OwnFile(c, folders', pdfs') /\ OwnDocument(c, library')
    <3>1. FoldersSoFar(asked[n], folders)
        BY <2>1, CallAt DEF Holds
    <3>2. \A j \in 1..(k - 1) : FolderThere(folders, paths[j])
      <4>1. asked[n].id = k - 1
          BY <1>3, CallAt
      <4>2. QED
          BY <1>1, <1>2, <1>6, <3>1, <4>1 DEF FoldersSoFar
    <3>3. FolderThere(folders', paths[k])
        BY <1>11 DEF MakeDirs, FolderThere
    <3>4. \A j \in 1..(k - 1) : FolderThere(folders', paths[j])
        BY <1>7, <3>2 DEF FolderThere
    <3>5. \A j \in 1..k : j \in 1..(k - 1) \/ j = k
        BY <1>3
    <3>6. Len(paths) \in Nat
        BY <1>6
    <3>7. k \in 0..(Len(paths) - 1)
        BY <1>11, <3>6
    <3>8. FoldersSoFar(c, folders')
        BY <1>2, <1>6, <2>1, <3>3, <3>4, <3>5, <3>7 DEF FoldersSoFar
    <3>9. QED
        BY <2>1, <3>8 DEF NoTwin, OwnCard, FreePath, OwnFile, OwnDocument
  <2>2. \A c \in DriveCall : c.ask = asked[n].ask /\ c.at = "folder" /\ c.heard = asked[n].heard => AtItsTool(c)
      BY <1>1, CallAt DEF AtItsTool
  <2>3. QED
      BY <1>1, <1>8, <1>11, <2>1, <2>2, CallTurns DEF Works
<1>12. QED
    BY <1>2, <1>3, <1>6, <1>9, <1>10, <1>11 DEF EnsureFolder

(***************************************************************************)
(* A file: looked for, put, read back.                                     *)
(***************************************************************************)
LEMMA LookForFileStep ==
    ASSUME DriveInv, NEW n \in DOMAIN asked, LookForFile(n)
    PROVE  DriveInv'
PROOF
<1>1. asked[n].at = "exists" /\ UNCHANGED driveStores
    BY DEF LookForFile
<1>2. DriveStoresOK' /\ StoresGrow /\ Spares(n) /\ (~collided => CardsOnce(cards'))
    BY <1>1, DriveLooks
<1>3. CASE DriveFails(n, TRUE)
    BY <1>1, <1>2, <1>3, DriveFailsStep
<1>4. CASE Works /\ Ends(n, "error")
    BY <1>1, <1>2, <1>4, CallEnds DEF Works
<1>5. CASE Works /\ ~Finds(asked[n].ask.path) /\ GoesOn(n, "put", 0)
  <2>1. Based(asked[n].ask.path) \notin DOMAIN pdfs
      BY <1>5 DEF Finds, PathExists
  <2>2. pdfs' = pdfs
      BY <1>1 DEF driveStores
  <2>3. ASSUME NEW c \in DriveCall, c.ask = asked[n].ask, c.at = "put"
        PROVE  /\ NoTwin(c, cards') /\ OwnCard(c, cards') /\ FoldersSoFar(c, folders')
               /\ FreePath(c, pdfs') /\ OwnFile(c, folders', pdfs') /\ OwnDocument(c, library')
      BY <2>1, <2>2, <2>3 DEF NoTwin, OwnCard, FoldersSoFar, FreePath, OwnFile, OwnDocument
  <2>4. \A c \in DriveCall : c.ask = asked[n].ask /\ c.at = "put" /\ c.heard = asked[n].heard => AtItsTool(c)
      BY <1>1, CallAt DEF AtItsTool
  <2>5. QED
      BY <1>1, <1>2, <1>5, <2>3, <2>4, CallTurns DEF Works
<1>6. QED
    BY <1>3, <1>4, <1>5 DEF LookForFile

LEMMA PutFileStep ==
    ASSUME DriveInv, NEW n \in DOMAIN asked, PutFile(n)
    PROVE  DriveInv'
PROOF
<1>1. asked[n].at = "put" /\ cards' = cards /\ library' = library
    BY DEF PutFile
<1>2. PICK ask \in Asks : ask = asked[n].ask
    BY CallAt
<1>3. ask.tool = "file_to_nextcloud" /\ ask.fit /\ ask.path \in Paths
    BY <1>1, <1>2, CallAt, AsksAssumption DEF AtItsTool
<1>4. /\ DriveStoresOK' /\ (~collided => CardsOnce(cards'))
    BY <1>1 DEF DriveInv, DriveTypeOK, DriveStoresOK
<1>5. folders \subseteq folders'
    BY <1>2 DEF PutFile, DriveFails, MakeDirs, MakeSome
<1>6. CASE MakeDirs(Front(ask.path)) /\ pdfs' = With(Based(ask.path), ask.content)
  <2>1. Upto(Based(Front(ask.path))) \subseteq folders'
      BY <1>6 DEF MakeDirs
  <2>2. /\ DOMAIN pdfs' = DOMAIN pdfs \cup {Based(ask.path)}
        /\ pdfs'[Based(ask.path)] = ask.content
        /\ \A k \in DOMAIN pdfs : k # Based(ask.path) => pdfs'[k] = pdfs[k]
      BY <1>6 DEF With
  <2>3. FileThere(folders', pdfs', ask)
      BY <2>1, <2>2 DEF FileThere
  <2>4. ASSUME ~collided PROVE StoresGrow /\ Spares(n)
    <3>1. Based(ask.path) \notin DOMAIN pdfs
        BY <1>1, <1>2, <2>4, CallAt DEF Holds, FreePath
    <3>2. StoresGrow
        BY <1>1, <1>5, <2>2, <3>1 DEF StoresGrow, Grown
    <3>3. ASSUME NEW m \in DOMAIN asked, m # n, asked[m].at = "put"
          PROVE  Based(asked[m].ask.path) # Based(ask.path)
      <4>1. PICK other \in Asks : other = asked[m].ask
          BY CallAt
      <4>2. other.tool = "file_to_nextcloud" /\ other.path \in Paths
          BY <3>3, <4>1, CallAt, AsksAssumption DEF AtItsTool
      <4>3. ~SameThing(other, ask)
          BY <1>1, <1>2, <2>4, <3>3, <4>1 DEF DriveInv, CallsApart
      <4>4. other.path # ask.path
          BY <1>3, <4>2, <4>3 DEF SameThing
      <4>5. QED
          BY <1>3, <4>1, <4>2, <4>4, BasedApart
    <3>4. Spares(n)
        BY <1>1, <2>2, <3>3 DEF Spares
    <3>5. QED
        BY <3>2, <3>4
  <2>5. CASE Works /\ GoesOn(n, "verify", 0)
    <3>1. ASSUME NEW c \in DriveCall, c.ask = asked[n].ask, c.at = "verify"
          PROVE  /\ NoTwin(c, cards') /\ OwnCard(c, cards') /\ FoldersSoFar(c, folders')
                 /\ FreePath(c, pdfs') /\ OwnFile(c, folders', pdfs') /\ OwnDocument(c, library')
        BY <1>2, <2>3, <3>1 DEF NoTwin, OwnCard, FoldersSoFar, FreePath, OwnFile, OwnDocument
    <3>2. \A c \in DriveCall : c.ask = asked[n].ask /\ c.at = "verify" /\ c.heard = asked[n].heard => AtItsTool(c)
        BY <1>1, CallAt DEF AtItsTool
    <3>3. QED
        BY <1>1, <1>4, <2>4, <2>5, <3>1, <3>2, CallTurns DEF Works
  <2>6. CASE \E done \in BOOLEAN : DriveFails(n, done)
      BY <1>1, <1>4, <2>4, <2>6, DriveFailsStep
  <2>7. QED
      BY <1>2, <2>5, <2>6 DEF PutFile, DriveFails
<1>7. CASE UNCHANGED pdfs /\ \E done \in BOOLEAN : DriveFails(n, done)
  <2>1. StoresGrow /\ Spares(n)
      BY <1>1, <1>5, <1>7 DEF StoresGrow, Grown, Spares
  <2>2. QED
      BY <1>1, <1>4, <1>7, <2>1, DriveFailsStep
<1>8. QED
    BY <1>2, <1>6, <1>7 DEF PutFile, DriveFails

LEMMA VerifyFileStep ==
    ASSUME DriveInv, NEW n \in DOMAIN asked, VerifyFile(n)
    PROVE  DriveInv'
PROOF
<1>1. asked[n].at = "verify" /\ UNCHANGED driveStores
    BY DEF VerifyFile
<1>2. DriveStoresOK' /\ StoresGrow /\ Spares(n) /\ (~collided => CardsOnce(cards'))
    BY <1>1, DriveLooks
<1>3. CASE DriveFails(n, TRUE)
    BY <1>1, <1>2, <1>3, DriveFailsStep
<1>4. ASSUME Works, NEW say \in {"ok", "error"}, Ends(n, say)
      PROVE  DriveInv'
  <2>1. ASSUME ~collided PROVE DoneIn(asked[n].ask, cards', folders', pdfs', library')
    <3>1. asked[n].ask.tool = "file_to_nextcloud" /\ FileThere(folders, pdfs, asked[n].ask)
        BY <1>1, <2>1, CallAt DEF Holds, OwnFile, AtItsTool
    <3>2. QED
        BY <1>1, <3>1 DEF DoneIn, driveStores, FileThere
  <2>2. QED
      BY <1>1, <1>2, <1>4, <2>1, CallEnds DEF Works
<1>5. QED
    BY <1>3, <1>4 DEF VerifyFile

(***************************************************************************)
(* A document: remembered, then listed.                                    *)
(***************************************************************************)
LEMMA RememberStep ==
    ASSUME DriveInv, NEW n \in DOMAIN asked, Remember(n)
    PROVE  DriveInv'
PROOF
<1>1. asked[n].at = "remember" /\ cards' = cards /\ folders' = folders /\ pdfs' = pdfs
    BY DEF Remember
<1>2. PICK ask \in Asks : ask = asked[n].ask
    BY CallAt
<1>3. PICK document \in DocumentRow : document = [title |-> ask.title, indexed |-> FALSE]
    BY <1>2 DEF DocumentRow
<1>4. document.title = ask.title /\ ~document.indexed
    BY <1>3
<1>5. library \in Seq(DocumentRow)
    BY DEF DriveInv, DriveTypeOK, DriveStoresOK
<1>6. (~collided => CardsOnce(cards')) /\ Spares(n)
    BY <1>1 DEF DriveInv, Spares
<1>7. CASE library' = Append(library, document)
  <2>1. /\ library' \in Seq(DocumentRow) /\ Len(library') = Len(library) + 1
        /\ \A k \in 1..Len(library) : library'[k] = library[k]
        /\ library'[Len(library) + 1] = document
      BY <1>5, <1>7, AppendProperties
  <2>2. /\ DOMAIN library = 1..Len(library) /\ Len(library) \in Nat
        /\ DOMAIN library' = DOMAIN library \cup {Len(library) + 1}
      BY <1>5, <2>1
  <2>3. DriveStoresOK' /\ StoresGrow
      BY <1>1, <2>1, <2>2 DEF DriveInv, DriveTypeOK, DriveStoresOK, StoresGrow, Grown
  <2>4. CASE Works /\ GoesOn(n, "index", Len(library) + 1)
    <3>1. ASSUME NEW c \in DriveCall, c.ask = asked[n].ask, c.at = "index", c.id = Len(library) + 1
          PROVE  /\ NoTwin(c, cards') /\ OwnCard(c, cards') /\ FoldersSoFar(c, folders')
                 /\ FreePath(c, pdfs') /\ OwnFile(c, folders', pdfs') /\ OwnDocument(c, library')
        BY <1>2, <1>4, <2>1, <2>2, <3>1 DEF NoTwin, OwnCard, FoldersSoFar, FreePath, OwnFile, OwnDocument
    <3>2. \A c \in DriveCall : c.ask = asked[n].ask /\ c.at = "index" /\ c.heard = asked[n].heard => AtItsTool(c)
        BY <1>1, CallAt DEF AtItsTool
    <3>3. Len(library) + 1 \in Nat
        BY <2>2
    <3>4. QED
        BY <1>1, <1>6, <2>3, <2>4, <3>1, <3>2, <3>3, CallTurns DEF Works
  <2>5. CASE \E done \in BOOLEAN : DriveFails(n, done)
      BY <1>1, <1>6, <2>3, <2>5, DriveFailsStep
  <2>6. QED
      BY <1>2, <1>3, <2>4, <2>5 DEF Remember, DriveFails
<1>8. CASE library' = library /\ \E done \in BOOLEAN : DriveFails(n, done)
  <2>1. DriveStoresOK' /\ StoresGrow
      BY <1>1, <1>8 DEF DriveInv, DriveTypeOK, DriveStoresOK, StoresGrow, Grown
  <2>2. QED
      BY <1>1, <1>6, <1>8, <2>1, DriveFailsStep
<1>9. QED
    BY <1>2, <1>3, <1>7, <1>8 DEF Remember, DriveFails

LEMMA IndexStep ==
    ASSUME DriveInv, NEW n \in DOMAIN asked, IndexDocument(n)
    PROVE  DriveInv'
PROOF
<1>1. asked[n].at = "index" /\ cards' = cards /\ folders' = folders /\ pdfs' = pdfs
    BY DEF IndexDocument
<1>2. PICK k \in Nat : k = asked[n].id
    BY CallAt
<1>3. library' = [library EXCEPT ![k].indexed = TRUE] \/ library' = library
    BY <1>2 DEF IndexDocument, DriveFails
<1>4. library \in Seq(DocumentRow)
    BY DEF DriveInv, DriveTypeOK, DriveStoresOK
<1>5. ASSUME NEW r \in DocumentRow
      PROVE  \E s \in DocumentRow : s = [r EXCEPT !.indexed = TRUE] /\ s.title = r.title /\ s.indexed
  <2>1. PICK s \in DocumentRow : s = [r EXCEPT !.indexed = TRUE]
      BY DEF DocumentRow
  <2>2. s.title = r.title /\ s.indexed
      BY <2>1 DEF DocumentRow
  <2>3. QED
      BY <2>1, <2>2
<1>6. CASE library' = [library EXCEPT ![k].indexed = TRUE] /\ k \in DOMAIN library
  <2>1. PICK r \in DocumentRow : r = library[k]
      BY <1>4, <1>6
  <2>2. PICK s \in DocumentRow : s = [r EXCEPT !.indexed = TRUE] /\ s.title = r.title /\ s.indexed
      BY <1>5, <2>1
  <2>3. library' = [library EXCEPT ![k] = s]
      BY <1>6, <2>1, <2>2
  <2>4. /\ library' \in Seq(DocumentRow) /\ DOMAIN library' = DOMAIN library
        /\ \A d \in DOMAIN library : library'[d] = IF d = k THEN s ELSE library[d]
    <3>1. k \in DOMAIN library
        BY <1>6
    <3>2. QED
        BY <1>4, <2>2, <2>3, <3>1, PutInPlace
  <2>5. \A d \in DOMAIN library : library'[d].title = library[d].title /\ (library[d].indexed => library'[d].indexed)
      BY <2>1, <2>2, <2>4
  <2>6. DriveStoresOK' /\ StoresGrow /\ (~collided => CardsOnce(cards')) /\ Spares(n)
      BY <1>1, <2>4, <2>5 DEF DriveInv, DriveTypeOK, DriveStoresOK, StoresGrow, Grown, Spares
  <2>7. CASE Works /\ Ends(n, "ok")
    <3>1. ASSUME ~collided PROVE DoneIn(asked[n].ask, cards', folders', pdfs', library')
      <4>1. asked[n].ask.tool = "save_document" /\ library[k].title = asked[n].ask.title
          BY <1>1, <1>2, <3>1, CallAt DEF Holds, OwnDocument, AtItsTool
      <4>2. k \in DOMAIN library' /\ library'[k].title = asked[n].ask.title /\ library'[k].indexed
          BY <1>6, <2>1, <2>2, <2>4, <4>1
      <4>3. QED
          BY <4>1, <4>2 DEF DoneIn
    <3>2. QED
        BY <1>1, <2>6, <2>7, <3>1, CallEnds DEF Works
  <2>8. CASE \E done \in BOOLEAN : DriveFails(n, done)
      BY <1>1, <2>6, <2>8, DriveFailsStep
  <2>9. QED
      BY <2>7, <2>8 DEF IndexDocument, DriveFails
<1>7. CASE library' = library \/ k \notin DOMAIN library
  <2>1. library' = library
      BY <1>3, <1>4, <1>7
  <2>2. DriveStoresOK' /\ StoresGrow /\ (~collided => CardsOnce(cards')) /\ Spares(n)
      BY <1>1, <2>1 DEF DriveInv, DriveTypeOK, DriveStoresOK, StoresGrow, Grown, Spares
  <2>3. CASE Works /\ library' = [library EXCEPT ![k].indexed = TRUE] /\ Ends(n, "ok")
    <3>1. ASSUME ~collided PROVE DoneIn(asked[n].ask, cards', folders', pdfs', library')
      <4>1. asked[n].ask.tool = "save_document" /\ k \in DOMAIN library /\ library[k].title = asked[n].ask.title
          BY <1>1, <1>2, <3>1, CallAt DEF Holds, OwnDocument, AtItsTool
      <4>2. PICK r \in DocumentRow : r = library[k]
          BY <1>4, <4>1
      <4>3. PICK s \in DocumentRow : s = [r EXCEPT !.indexed = TRUE] /\ s.indexed
          BY <1>5, <4>2
      <4>4. library[k].indexed
          BY <1>4, <2>1, <2>3, <4>1, <4>2, <4>3
      <4>5. QED
          BY <2>1, <4>1, <4>4 DEF DoneIn
    <3>2. QED
        BY <1>1, <2>2, <2>3, <3>1, CallEnds DEF Works
  <2>4. CASE \E done \in BOOLEAN : DriveFails(n, done)
      BY <1>1, <2>2, <2>4, DriveFailsStep
  <2>5. QED
      BY <1>2, <2>3, <2>4 DEF IndexDocument, DriveFails
<1>8. QED
    BY <1>3, <1>6, <1>7

(***************************************************************************)
(* At the start nothing was asked, and nothing is there.                   *)
(***************************************************************************)
LEMMA DriveBegins == DriveInit => DriveInv
PROOF
<1>1. SUFFICES ASSUME DriveInit PROVE DriveInv
    OBVIOUS
<1>2. DOMAIN asked = {} /\ DOMAIN cards = {}
    BY <1>1 DEF DriveInit
<1>3. DriveTypeOK
  <2>1. <<>> \in Seq(CardRow) /\ <<>> \in Seq(DocumentRow) /\ <<>> \in Seq(DriveCall)
      OBVIOUS
  <2>2. cards = <<>> /\ library = <<>> /\ asked = <<>> /\ collided \in BOOLEAN
      BY <1>1 DEF DriveInit
  <2>3. QED
      BY <2>1, <2>2 DEF DriveTypeOK, DriveStoresOK
<1>4. QED
    BY <1>1, <1>2, <1>3 DEF DriveInit, DriveInv, CallsApart, CardsOnce

LEMMA DriveStep == DriveInv /\ [DriveNext]_driveVars => DriveInv'
PROOF
<1>1. SUFFICES ASSUME DriveInv, [DriveNext]_driveVars PROVE DriveInv'
    OBVIOUS
<1>2. CASE \E ask \in Asks : CallTool(ask)
    BY <1>1, <1>2, CallToolStep
<1>3. ASSUME NEW n \in DOMAIN asked,
             \/ BridgeGivesUp(n) \/ SearchList(n) \/ PostCard(n) \/ PutDue(n) \/ EnsureFolder(n)
             \/ LookForFile(n) \/ PutFile(n) \/ VerifyFile(n) \/ Remember(n) \/ IndexDocument(n)
      PROVE  DriveInv'
    BY <1>1, <1>3, BridgeStep, SearchStep, PostStep, PutDueStep, FoldersStep,
       LookForFileStep, PutFileStep, VerifyFileStep, RememberStep, IndexStep
<1>4. CASE UNCHANGED driveVars
  <2>1. UNCHANGED driveStores /\ asked' = asked /\ collided' = collided
      BY <1>4 DEF driveVars
  <2>2. cards' = cards /\ folders' = folders /\ pdfs' = pdfs /\ library' = library
      BY <2>1 DEF driveStores
  <2>3. QED
      BY <1>1, <2>1, <2>2 DEF DriveInv, DriveTypeOK, DriveStoresOK
<1>5. QED
    BY <1>1, <1>2, <1>3, <1>4 DEF DriveNext

LEMMA DriveHoldsUp == DriveInv => DriveSafe
PROOF
<1>1. SUFFICES ASSUME DriveInv, ~collided PROVE DriveSafe
    BY DEF DriveSafe, OneCardPerTitle, ToldMeansStanding
<1>2. OneCardPerTitle
    BY <1>1 DEF DriveInv, OneCardPerTitle, CardsOnce
<1>3. ASSUME NEW n \in DOMAIN asked, asked[n].heard = "ok" PROVE Standing(asked[n].ask)
  <2>1. PICK ask \in Asks : ask = asked[n].ask
      BY <1>1, CallAt
  <2>2. DoneIn(ask, cards, folders, pdfs, library)
      BY <1>1, <1>3, <2>1, CallAt DEF Holds
  <2>3. ask.tool = "add_deck_card" => \E c \in ToSet(cards) : SameTitle(c.title, ask.title)
      BY <2>2 DEF DoneIn, ToSet
  <2>4. ask.tool = "ensure_nextcloud_folders" => \A k \in DOMAIN ask.paths : Upto(Based(ask.paths[k])) \subseteq folders
      BY <2>2 DEF DoneIn, FolderThere
  <2>5. ask.tool = "file_to_nextcloud" => /\ Upto(Based(Front(ask.path))) \subseteq folders
                                          /\ Based(ask.path) \in DOMAIN pdfs /\ pdfs[Based(ask.path)] = ask.content
      BY <2>2 DEF DoneIn, FileThere
  <2>6. ask.tool = "save_document" => \E d \in ToSet(library) : d.title = ask.title /\ d.indexed
      BY <2>2 DEF DoneIn, ToSet
  <2>7. Standing(ask)
      BY <2>3, <2>4, <2>5, <2>6 DEF Standing
  <2>8. QED
      BY <2>1, <2>7
<1>4. QED
    BY <1>2, <1>3 DEF DriveSafe, ToldMeansStanding

\* However often agents ask for a card and whatever their calls failed at, the list has
\* one card of a title, and what an agent was told is done is there, with the content it
\* gave, for any calls of any number of agents, unless two about one thing were in flight
\* together (nextcloud_deck.py, nextcloud_client.py, the endpoints of api.py).
THEOREM DriveIsSafe == DriveSpec => []DriveSafe
PROOF
<1>1. DriveInit => DriveInv
    BY DriveBegins
<1>2. DriveInv /\ [DriveNext]_driveVars => DriveInv'
    BY DriveStep
<1>3. DriveInv => DriveSafe
    BY DriveHoldsUp
<1>4. QED
    BY <1>1, <1>2, <1>3, PTL DEF DriveSpec

-----------------------------------------------------------------------------
(* BookReports: the trend of the book, what was retained, what is current. *)

\* The literals are strings, which the provers do not know.
Mark == STRING \cup {"R"}
ShelfStatus == STRING \cup {"Active", "Renewed"}

Lineage == Seq(Mark)
PolicyNumber == Lineage \ {<<>>}

ShelfTerm == [number: PolicyNumber, from: Lineage, status: ShelfStatus, active: BOOLEAN, eff: Int, exp: Int, premium: Int]
RowFields == {"premium", "count", "graded", "kept", "delta"}

ShelfOK ==
    /\ shelf \in Seq(ShelfTerm) /\ carriedOn \subseteq DOMAIN shelf
    /\ \A k \in DOMAIN shelf : shelf[k].exp = shelf[k].eff + TermDays

\* The term that renews k: it came later, in time, and says so in one of two ways.
Renews(j, k) ==
    /\ j > k /\ shelf[j].eff >= shelf[k].exp - SuccessorGrace
    /\ \/ shelf[j].from = shelf[k].number
       \/ shelf[j].from = <<>> /\ shelf[j].number = shelf[k].number

RenewalsThere == \A k \in carriedOn : \E j \in DOMAIN shelf : Renews(j, k)

ShotOK(r) ==
    /\ shots[r].at \in {"rest", "prior", "find", "update", "insert"}
    /\ shots[r].at # "rest" => /\ DOMAIN shots[r] = {"at", "day", "row"} /\ DOMAIN shots[r].row = RowFields
                               /\ shots[r].day = snapshotDay

DaysOK ==
    /\ snapshotDay \in 1..LastSnapshotDay /\ DOMAIN snapshots \subseteq 1..snapshotDay
    /\ started \in [1..LastSnapshotDay -> Nat]
    /\ DOMAIN shots = Shot /\ \A r \in Shot : ShotOK(r)

\* The row before is the last one.
LastRow == DOMAIN snapshots # {} => \E m \in DOMAIN snapshots : \A d \in DOMAIN snapshots : m >= d

\* A day without a run has no row, and its only run has read the row before and is not
\* going to replace anything.
Untouched ==
    started[snapshotDay] = 0 => snapshotDay \notin DOMAIN snapshots /\ \A r \in Shot : shots[r].at = "rest"

OnlyRun(r) ==
    (shots[r].at # "rest" /\ started[snapshotDay] = 1) =>
        /\ snapshotDay \notin DOMAIN snapshots /\ shots[r].at # "update"
        /\ \A q \in Shot : q # r => shots[q].at = "rest"
        /\ shots[r].at \in {"find", "insert"} =>
              \A m \in DOMAIN snapshots : (\A d \in DOMAIN snapshots : m >= d) =>
                  shots[r].row.delta = {shots[r].row.premium - snapshots[m].premium}

ReportsInv ==
    /\ ShelfOK /\ RenewalsThere /\ DaysOK /\ LastRow /\ Untouched
    /\ \A r \in Shot : OnlyRun(r)
    /\ TrendAddsUp

(***************************************************************************)
(* A run takes a step that neither starts nor writes anything.             *)
(***************************************************************************)
LEMMA ShotMoves ==
    ASSUME ReportsInv, NEW r \in Shot, NEW s, ShotGoes(r, s), UNCHANGED <<snapshotDay, shelf, carriedOn, snapshots, started>>,
           s.at \in {"rest", "prior", "find", "update", "insert"},
           s.at # "rest" => /\ shots[r].at # "rest" /\ DOMAIN s = {"at", "day", "row"} /\ DOMAIN s.row = RowFields
                            /\ s.day = snapshotDay,
           started[snapshotDay] = 1 /\ s.at # "rest" =>
              /\ s.at # "update"
              /\ s.at \in {"find", "insert"} =>
                    \A m \in DOMAIN snapshots : (\A d \in DOMAIN snapshots : m >= d) =>
                        s.row.delta = {s.row.premium - snapshots[m].premium}
    PROVE  ReportsInv'
PROOF
<1>1. /\ snapshotDay' = snapshotDay /\ shelf' = shelf /\ carriedOn' = carriedOn /\ snapshots' = snapshots /\ started' = started
    OBVIOUS
<1>2. DOMAIN shots' = Shot /\ shots'[r] = s /\ \A q \in Shot : q # r => shots'[q] = shots[q]
    BY DEF ShotGoes, ReportsInv, DaysOK
<1>3. ShelfOK' /\ RenewalsThere' /\ LastRow' /\ TrendAddsUp'
    BY <1>1 DEF ReportsInv, ShelfOK, RenewalsThere, Renews, LastRow, TrendAddsUp
<1>4. \A q \in Shot : ShotOK(q)'
    BY <1>1, <1>2 DEF ReportsInv, DaysOK, ShotOK
<1>5. DaysOK'
    BY <1>1, <1>2, <1>4 DEF ReportsInv, DaysOK
<1>6. Untouched'
    BY <1>1, <1>2 DEF ReportsInv, Untouched
<1>7. ASSUME NEW q \in Shot PROVE OnlyRun(q)'
  <2>1. CASE q = r
      BY <1>1, <1>2, <2>1 DEF ReportsInv, OnlyRun
  <2>2. CASE q # r
    <3>1. SUFFICES ASSUME shots[q].at # "rest", started[snapshotDay] = 1 PROVE OnlyRun(q)'
        BY <1>1, <1>2, <2>2 DEF OnlyRun
    <3>2. OnlyRun(q)
        BY DEF ReportsInv
    <3>3. shots[r].at = "rest"
        BY <2>2, <3>1, <3>2 DEF OnlyRun
    <3>4. s.at = "rest"
        BY <3>3
    <3>5. QED
        BY <1>1, <1>2, <2>2, <3>1, <3>2, <3>4 DEF OnlyRun
  <2>3. QED
      BY <2>1, <2>2
<1>8. QED
    BY <1>3, <1>5, <1>6, <1>7 DEF ReportsInv

LEMMA ReadShelfStep ==
    ASSUME ReportsInv, NEW r \in Shot, ReadShelf(r)
    PROVE  ReportsInv'
PROOF
<1>1. /\ snapshotDay' = snapshotDay /\ shelf' = shelf /\ carriedOn' = carriedOn /\ snapshots' = snapshots
      /\ shots[r].at = "rest" /\ started' = [started EXCEPT ![snapshotDay] = @ + 1]
    BY DEF ReadShelf, BookRests
<1>2. PICK s : s = [at |-> "prior", day |-> snapshotDay, row |-> Figures] /\ shots' = [shots EXCEPT ![r] = s]
    BY DEF ReadShelf, ShotGoes
<1>3. s.at = "prior" /\ DOMAIN s = {"at", "day", "row"} /\ s.day = snapshotDay /\ DOMAIN s.row = RowFields
  <2>1. DOMAIN Figures = RowFields
      BY DEF Figures, RowFields
  <2>2. QED
      BY <1>2, <2>1
<1>4. DOMAIN shots' = Shot /\ shots'[r] = s /\ \A q \in Shot : q # r => shots'[q] = shots[q]
    BY <1>2 DEF ReportsInv, DaysOK
<1>5. /\ started' \in [1..LastSnapshotDay -> Nat] /\ started[snapshotDay] \in Nat
      /\ started'[snapshotDay] = started[snapshotDay] + 1
      /\ \A d \in 1..LastSnapshotDay : d # snapshotDay => started'[d] = started[d]
    BY <1>1 DEF ReportsInv, DaysOK
<1>6. ShelfOK' /\ RenewalsThere' /\ LastRow'
    BY <1>1 DEF ReportsInv, ShelfOK, RenewalsThere, Renews, LastRow
<1>7. \A q \in Shot : ShotOK(q)'
    BY <1>1, <1>3, <1>4 DEF ReportsInv, DaysOK, ShotOK
<1>8. DaysOK'
    BY <1>1, <1>4, <1>5, <1>7 DEF ReportsInv, DaysOK
<1>9. Untouched'
    BY <1>1, <1>5 DEF Untouched
<1>10. ASSUME NEW q \in Shot PROVE OnlyRun(q)'
  <2>1. SUFFICES ASSUME shots'[q].at # "rest", started'[snapshotDay] = 1 PROVE OnlyRun(q)'
      BY <1>1 DEF OnlyRun
  <2>2. started[snapshotDay] = 0
      BY <1>5, <2>1
  <2>3. snapshotDay \notin DOMAIN snapshots /\ \A p \in Shot : shots[p].at = "rest"
      BY <2>2 DEF ReportsInv, Untouched
  <2>4. q = r
      BY <1>4, <2>1, <2>3
  <2>5. QED
      BY <1>1, <1>3, <1>4, <2>3, <2>4 DEF OnlyRun
<1>11. TrendAddsUp'
  <2>1. SUFFICES ASSUME NEW d \in DOMAIN snapshots, NEW e \in DOMAIN snapshots, d < e,
                        (d + 1)..(e - 1) \cap DOMAIN snapshots = {}, started'[e] = 1
                 PROVE  snapshots[e].delta = {snapshots[e].premium - snapshots[d].premium}
      BY <1>1 DEF TrendAddsUp
  <2>2. e \in 1..LastSnapshotDay
    <3>1. e \in 1..snapshotDay /\ snapshotDay \in 1..LastSnapshotDay /\ LastSnapshotDay \in Nat
        BY ReportsAssumption DEF ReportsInv, DaysOK
    <3>2. QED
        BY <3>1
  <2>3. CASE e = snapshotDay
    <3>1. started[snapshotDay] = 0
        BY <1>5, <2>1, <2>3
    <3>2. QED
        BY <2>3, <3>1 DEF ReportsInv, Untouched
  <2>4. CASE e # snapshotDay
    <3>1. started[e] = 1
        BY <1>5, <2>1, <2>2, <2>4
    <3>2. QED
        BY <2>1, <3>1 DEF ReportsInv, TrendAddsUp
  <2>5. QED
      BY <2>3, <2>4
<1>12. QED
    BY <1>6, <1>8, <1>9, <1>10, <1>11 DEF ReportsInv

LEMMA ReadPriorStep ==
    ASSUME ReportsInv, NEW r \in Shot, ReadPrior(r)
    PROVE  ReportsInv'
PROOF
<1>1. PICK old : old = shots[r]
    OBVIOUS
<1>2. old.at = "prior" /\ DOMAIN old = {"at", "day", "row"} /\ DOMAIN old.row = RowFields /\ old.day = snapshotDay
    BY <1>1 DEF ReadPrior, ReportsInv, DaysOK, ShotOK
<1>3. PICK delta : delta = IF DOMAIN snapshots = {} THEN {} ELSE {old.row.premium - snapshots[Max(DOMAIN snapshots)].premium}
    OBVIOUS
<1>4. PICK row : row = [old.row EXCEPT !.delta = delta]
    OBVIOUS
<1>5. DOMAIN row = RowFields /\ row.delta = delta /\ row.premium = old.row.premium
    BY <1>2, <1>4 DEF RowFields
<1>6. PICK s : s = [old EXCEPT !.at = "find", !.row = row]
    OBVIOUS
<1>7. s.at = "find" /\ DOMAIN s = {"at", "day", "row"} /\ s.row = row /\ s.day = snapshotDay
    BY <1>2, <1>6
<1>8. ShotGoes(r, s) /\ UNCHANGED <<snapshotDay, shelf, carriedOn, snapshots, started>>
  <2>1. ShotGoes(r, [old EXCEPT !.at = "find", !.row.delta = delta])
      BY <1>1, <1>3 DEF ReadPrior
  <2>2. [old EXCEPT !.at = "find", !.row.delta = delta] = [old EXCEPT !.at = "find", !.row = row]
      BY <1>2, <1>4
  <2>3. QED
      BY <1>6, <2>1, <2>2 DEF ReadPrior, BookRests
<1>9. ASSUME NEW m \in DOMAIN snapshots, \A d \in DOMAIN snapshots : m >= d
      PROVE  s.row.delta = {s.row.premium - snapshots[m].premium}
  <2>1. Max(DOMAIN snapshots) \in DOMAIN snapshots /\ \A d \in DOMAIN snapshots : Max(DOMAIN snapshots) >= d
      BY <1>9 DEF Max
  <2>2. DOMAIN snapshots \subseteq Int
      BY DEF ReportsInv, DaysOK
  <2>3. Max(DOMAIN snapshots) = m
      BY <1>9, <2>1, <2>2
  <2>4. QED
      BY <1>3, <1>5, <1>7, <1>9, <2>3
<1>10. QED
    BY <1>1, <1>2, <1>5, <1>7, <1>8, <1>9, ShotMoves

LEMMA FindDayStep ==
    ASSUME ReportsInv, NEW r \in Shot, FindDay(r)
    PROVE  ReportsInv'
PROOF
<1>1. PICK old : old = shots[r]
    OBVIOUS
<1>2. old.at = "find" /\ DOMAIN old = {"at", "day", "row"} /\ DOMAIN old.row = RowFields /\ old.day = snapshotDay
    BY <1>1 DEF FindDay, ReportsInv, DaysOK, ShotOK
<1>3. PICK at \in {"update", "insert"} : at = IF DayRow(old.day) # {} THEN "update" ELSE "insert"
    OBVIOUS
<1>4. PICK s : s = [old EXCEPT !.at = at]
    OBVIOUS
<1>5. s.at = at /\ DOMAIN s = {"at", "day", "row"} /\ s.row = old.row /\ s.day = snapshotDay
    BY <1>2, <1>4
<1>6. ShotGoes(r, s) /\ UNCHANGED <<snapshotDay, shelf, carriedOn, snapshots, started>>
    BY <1>1, <1>3, <1>4 DEF FindDay, BookRests
<1>7. ASSUME started[snapshotDay] = 1
      PROVE  /\ s.at # "update"
             /\ \A m \in DOMAIN snapshots : (\A d \in DOMAIN snapshots : m >= d) =>
                    s.row.delta = {s.row.premium - snapshots[m].premium}
  <2>1. snapshotDay \notin DOMAIN snapshots
      BY <1>1, <1>2, <1>7 DEF ReportsInv, OnlyRun
  <2>2. at = "insert"
      BY <1>2, <1>3, <2>1 DEF DayRow
  <2>3. QED
      BY <1>1, <1>2, <1>5, <1>7, <2>2 DEF ReportsInv, OnlyRun
<1>8. QED
    BY <1>1, <1>2, <1>3, <1>5, <1>6, <1>7, ShotMoves

LEMMA ShotEndsStep ==
    ASSUME ReportsInv, NEW r \in Shot, ShotEnds(r)
    PROVE  ReportsInv'
    BY ShotMoves DEF ShotEnds, ShotAtRest, BookRests

(***************************************************************************)
(* The write, when the row is there and when it is not.                    *)
(***************************************************************************)
LEMMA WriteRowStep ==
    ASSUME ReportsInv, NEW r \in Shot, WriteRow(r)
    PROVE  ReportsInv'
PROOF
<1>1. PICK s : s = shots[r]
    OBVIOUS
<1>2. /\ s.at \in {"update", "insert"} /\ s.day = snapshotDay
      /\ snapshotDay' = snapshotDay /\ shelf' = shelf /\ carriedOn' = carriedOn /\ started' = started
      /\ shots' = [shots EXCEPT ![r] = ShotAtRest]
    BY <1>1 DEF WriteRow, ShotGoes, BookRests, ReportsInv, DaysOK, ShotOK
<1>3. DOMAIN shots' = Shot /\ shots'[r].at = "rest" /\ \A q \in Shot : q # r => shots'[q] = shots[q]
    BY <1>2 DEF ReportsInv, DaysOK, ShotAtRest
<1>4. /\ snapshotDay \in DOMAIN snapshots => /\ DOMAIN snapshots' = DOMAIN snapshots
                                              /\ \A d \in DOMAIN snapshots : d # snapshotDay => snapshots'[d] = snapshots[d]
      /\ snapshotDay \notin DOMAIN snapshots =>
            \/ snapshots' = snapshots
            \/ DOMAIN snapshots' = DOMAIN snapshots
               /\ \A d \in DOMAIN snapshots : snapshots'[d] = snapshots[d]
            \/ /\ s.at = "insert" /\ DOMAIN snapshots' = DOMAIN snapshots \cup {snapshotDay}
               /\ snapshots'[snapshotDay] = s.row
               /\ \A d \in DOMAIN snapshots : d # snapshotDay => snapshots'[d] = snapshots[d]
  <2>1. CASE s.at = "update"
    <3>1. PICK row : snapshots' = [snapshots EXCEPT ![snapshotDay] = row]
        BY <1>1, <1>2, <2>1 DEF WriteRow
    <3>2. QED
        BY <3>1
  <2>2. CASE s.at = "insert" /\ snapshotDay \in DOMAIN snapshots
    <3>1. snapshots' = snapshots
        BY <1>1, <1>2, <2>2 DEF WriteRow
    <3>2. QED
        BY <2>2, <3>1
  <2>3. CASE s.at = "insert" /\ snapshotDay \notin DOMAIN snapshots
    <3>1. snapshots' = [d \in DOMAIN snapshots \cup {snapshotDay} |-> IF d = snapshotDay THEN s.row ELSE snapshots[d]]
        BY <1>1, <1>2, <2>3 DEF WriteRow
    <3>2. QED
        BY <2>3, <3>1
  <2>4. QED
      BY <1>2, <2>1, <2>2, <2>3
<1>5. DOMAIN snapshots \subseteq 1..snapshotDay /\ snapshotDay \in 1..LastSnapshotDay /\ LastSnapshotDay \in Nat
    BY ReportsAssumption DEF ReportsInv, DaysOK
<1>6. ShelfOK' /\ RenewalsThere'
    BY <1>2 DEF ReportsInv, ShelfOK, RenewalsThere, Renews
<1>7. DOMAIN snapshots' \subseteq DOMAIN snapshots \cup {snapshotDay} /\ DOMAIN snapshots \subseteq DOMAIN snapshots'
    BY <1>4
<1>8. DaysOK'
  <2>1. DOMAIN snapshots' \subseteq 1..snapshotDay
      BY <1>5, <1>7
  <2>2. \A q \in Shot : ShotOK(q)'
      BY <1>2, <1>3 DEF ReportsInv, DaysOK, ShotOK
  <2>3. QED
      BY <1>2, <1>3, <2>1, <2>2 DEF ReportsInv, DaysOK
<1>9. LastRow'
  <2>1. CASE DOMAIN snapshots' = DOMAIN snapshots
      BY <2>1 DEF ReportsInv, LastRow
  <2>2. CASE DOMAIN snapshots' = DOMAIN snapshots \cup {snapshotDay}
    <3>1. \A d \in DOMAIN snapshots' : snapshotDay >= d
        BY <1>5, <2>2
    <3>2. QED
        BY <2>2, <3>1 DEF LastRow
  <2>3. QED
      BY <1>7, <2>1, <2>2
<1>10. started[snapshotDay] # 0
    BY <1>1, <1>2 DEF ReportsInv, Untouched
<1>11. Untouched'
    BY <1>2, <1>10 DEF Untouched
<1>12. ASSUME NEW q \in Shot PROVE OnlyRun(q)'
  <2>1. SUFFICES ASSUME shots'[q].at # "rest", started[snapshotDay] = 1 PROVE FALSE
      BY <1>2 DEF OnlyRun
  <2>2. q # r /\ shots[q].at # "rest"
      BY <1>3, <2>1
  <2>3. shots[r].at = "rest"
      BY <2>1, <2>2 DEF ReportsInv, OnlyRun
  <2>4. QED
      BY <1>1, <1>2, <2>3
<1>13. TrendAddsUp'
  <2>1. SUFFICES ASSUME NEW d \in DOMAIN snapshots', NEW e \in DOMAIN snapshots', d < e,
                        (d + 1)..(e - 1) \cap DOMAIN snapshots' = {}, started[e] = 1
                 PROVE  snapshots'[e].delta = {snapshots'[e].premium - snapshots'[d].premium}
      BY <1>2 DEF TrendAddsUp
  <2>2. d \in 1..snapshotDay /\ e \in 1..snapshotDay
      BY <1>5, <1>7
  <2>3. d # snapshotDay /\ d \in DOMAIN snapshots
    <3>1. d # snapshotDay
        BY <1>5, <2>1, <2>2
    <3>2. QED
        BY <1>7, <3>1
  <2>4. snapshots'[d] = snapshots[d]
      BY <1>4, <2>3
  <2>5. CASE e # snapshotDay
    <3>1. e \in DOMAIN snapshots /\ snapshots'[e] = snapshots[e]
        BY <1>4, <1>7, <2>5
    <3>2. (d + 1)..(e - 1) \cap DOMAIN snapshots = {}
        BY <1>7, <2>1
    <3>3. QED
        BY <2>1, <2>3, <2>4, <3>1, <3>2 DEF ReportsInv, TrendAddsUp
  <2>6. CASE e = snapshotDay
    <3>1. /\ snapshotDay \notin DOMAIN snapshots
          /\ s.at = "insert" => \A m \in DOMAIN snapshots : (\A x \in DOMAIN snapshots : m >= x) =>
                                    s.row.delta = {s.row.premium - snapshots[m].premium}
        BY <1>1, <1>2, <2>1, <2>6 DEF ReportsInv, OnlyRun
    <3>2. s.at = "insert" /\ snapshots'[snapshotDay] = s.row
        BY <1>4, <2>1, <2>6, <3>1
    <3>3. \A x \in DOMAIN snapshots : d >= x
      <4>1. SUFFICES ASSUME NEW x \in DOMAIN snapshots, x > d PROVE FALSE
          BY <1>5, <2>2
      <4>2. x \in 1..snapshotDay /\ x # snapshotDay /\ x \in DOMAIN snapshots'
          BY <1>5, <1>7, <3>1
      <4>3. x \in (d + 1)..(e - 1)
          BY <1>5, <2>2, <2>6, <4>1, <4>2
      <4>4. QED
          BY <2>1, <4>2, <4>3
    <3>4. s.row.delta = {s.row.premium - snapshots[d].premium}
        BY <2>3, <3>1, <3>2, <3>3
    <3>5. QED
        BY <2>4, <2>6, <3>2, <3>4
  <2>7. QED
      BY <2>5, <2>6
<1>14. QED
    BY <1>6, <1>8, <1>9, <1>11, <1>12, <1>13 DEF ReportsInv

LEMMA NextSnapshotDayStep ==
    ASSUME ReportsInv, NextSnapshotDay
    PROVE  ReportsInv'
PROOF
<1>1. /\ snapshotDay < LastSnapshotDay /\ snapshotDay' = snapshotDay + 1 /\ \A r \in Shot : shots[r].at = "rest"
      /\ shelf' = shelf /\ carriedOn' = carriedOn /\ snapshots' = snapshots /\ shots' = shots /\ started' = started
    BY DEF NextSnapshotDay
<1>2. snapshotDay \in 1..LastSnapshotDay /\ LastSnapshotDay \in Nat /\ DOMAIN snapshots \subseteq 1..snapshotDay
    BY ReportsAssumption DEF ReportsInv, DaysOK
<1>3. snapshotDay' \in 1..LastSnapshotDay /\ DOMAIN snapshots \subseteq 1..snapshotDay' /\ snapshotDay' \notin DOMAIN snapshots
    BY <1>1, <1>2
<1>4. ShelfOK' /\ RenewalsThere' /\ LastRow' /\ TrendAddsUp'
    BY <1>1 DEF ReportsInv, ShelfOK, RenewalsThere, Renews, LastRow, TrendAddsUp
<1>5. DaysOK'
    BY <1>1, <1>3 DEF ReportsInv, DaysOK, ShotOK
<1>6. Untouched' /\ \A r \in Shot : OnlyRun(r)'
    BY <1>1, <1>3 DEF Untouched, OnlyRun
<1>7. QED
    BY <1>4, <1>5, <1>6 DEF ReportsInv

(***************************************************************************)
(* People close a term, or renew it under its number or a new one.         *)
(***************************************************************************)
LEMMA ShelfChanges ==
    ASSUME ReportsInv, UNCHANGED <<snapshotDay, snapshots, shots, started>>, ShelfOK', RenewalsThere'
    PROVE  ReportsInv'
PROOF
<1>1. snapshotDay' = snapshotDay /\ snapshots' = snapshots /\ shots' = shots /\ started' = started
    OBVIOUS
<1>2. DaysOK' /\ LastRow' /\ Untouched' /\ TrendAddsUp'
    BY <1>1 DEF ReportsInv, DaysOK, ShotOK, LastRow, Untouched, TrendAddsUp
<1>3. \A r \in Shot : OnlyRun(r)'
    BY <1>1 DEF ReportsInv, OnlyRun
<1>4. QED
    BY <1>2, <1>3 DEF ReportsInv

LEMMA CloseTermStep ==
    ASSUME ReportsInv, NEW k \in Shelf, CloseTerm(k)
    PROVE  ReportsInv'
PROOF
<1>1. /\ shelf' = [shelf EXCEPT ![k].active = FALSE] /\ carriedOn' = carriedOn
      /\ UNCHANGED <<snapshotDay, snapshots, shots, started>>
    BY DEF CloseTerm, MoveShelf
<1>2. shelf \in Seq(ShelfTerm) /\ k \in DOMAIN shelf
    BY DEF ReportsInv, ShelfOK, Shelf
<1>3. PICK t \in ShelfTerm : t = shelf[k]
    BY <1>2
<1>4. PICK u \in ShelfTerm : u = [t EXCEPT !.active = FALSE]
    BY DEF ShelfTerm
<1>5. u.number = t.number /\ u.from = t.from /\ u.eff = t.eff /\ u.exp = t.exp
    BY <1>4 DEF ShelfTerm
<1>6. shelf' = [shelf EXCEPT ![k] = u]
    BY <1>1, <1>3, <1>4
<1>7. /\ shelf' \in Seq(ShelfTerm) /\ DOMAIN shelf' = DOMAIN shelf
      /\ \A j \in DOMAIN shelf : shelf'[j] = IF j = k THEN u ELSE shelf[j]
    BY <1>2, <1>4, <1>6, PutInPlace
<1>8. \A j \in DOMAIN shelf : /\ shelf'[j].number = shelf[j].number /\ shelf'[j].from = shelf[j].from
                              /\ shelf'[j].eff = shelf[j].eff /\ shelf'[j].exp = shelf[j].exp
    BY <1>3, <1>5, <1>7
<1>9. ShelfOK' /\ RenewalsThere'
    BY <1>1, <1>7, <1>8 DEF ReportsInv, ShelfOK, RenewalsThere, Renews
<1>10. QED
    BY <1>1, <1>9, ShelfChanges

LEMMA RenewTermStep ==
    ASSUME ReportsInv, NEW k \in Shelf, RenewTerm(k)
    PROVE  ReportsInv'
PROOF
<1>1. shelf \in Seq(ShelfTerm) /\ k \in DOMAIN shelf
    BY DEF ReportsInv, ShelfOK, Shelf
<1>2. PICK t \in ShelfTerm : t = shelf[k]
    BY <1>1
<1>3. PICK slip \in Slips, next \in {[number |-> t.number, from |-> <<>>], [number |-> Append(t.number, "R"), from |-> t.number]},
           status \in {t.status, "Renewed"} :
         shelf' = Append([shelf EXCEPT ![k].status = status],
                            [t EXCEPT !.number = next.number, !.from = next.from, !.status = "Active",
                                      !.eff = t.exp + slip, !.exp = t.exp + slip + TermDays])
    BY <1>2 DEF RenewTerm, MoveShelf
<1>4. /\ slip \in Int /\ slip >= -SuccessorGrace /\ TermDays \in Nat /\ SuccessorGrace \in Nat
      /\ t.eff \in Int /\ t.exp \in Int /\ t.number \in PolicyNumber /\ t.status \in ShelfStatus
    BY ReportsAssumption DEF ShelfTerm
<1>5. PICK number \in PolicyNumber, from \in Lineage :
         /\ number = next.number /\ from = next.from
         /\ \/ number = t.number /\ from = <<>>
            \/ from = t.number
  <2>1. t.number \in Seq(Mark)
      BY <1>4 DEF PolicyNumber, Lineage
  <2>2. Append(t.number, "R") \in Seq(Mark) /\ Append(t.number, "R") # <<>>
    <3>1. "R" \in Mark
        BY DEF Mark
    <3>2. QED
        BY <2>1, <3>1, AppendProperties
  <2>3. <<>> \in Lineage
      BY EmptySeq DEF Lineage
  <2>4. CASE next = [number |-> t.number, from |-> <<>>]
      BY <1>4, <2>3, <2>4
  <2>5. CASE next = [number |-> Append(t.number, "R"), from |-> t.number]
      BY <2>1, <2>2, <2>5 DEF PolicyNumber, Lineage
  <2>6. QED
      BY <1>3, <2>4, <2>5
<1>6. PICK eff \in Int, exp \in Int : eff = t.exp + slip /\ exp = eff + TermDays
  <2>1. t.exp + slip \in Int /\ t.exp + slip + TermDays \in Int
      BY <1>4
  <2>2. QED
      BY <2>1
<1>7. PICK new \in ShelfTerm : new = [t EXCEPT !.number = number, !.from = from, !.status = "Active", !.eff = eff, !.exp = exp]
  <2>1. "Active" \in ShelfStatus
      BY DEF ShelfStatus
  <2>2. [t EXCEPT !.number = number, !.from = from, !.status = "Active", !.eff = eff, !.exp = exp] \in ShelfTerm
      BY <2>1 DEF ShelfTerm
  <2>3. QED
      BY <2>2
<1>8. new.number = number /\ new.from = from /\ new.eff = eff /\ new.exp = exp
    BY <1>7 DEF ShelfTerm
<1>9. PICK u \in ShelfTerm : u = [t EXCEPT !.status = status]
  <2>1. status \in ShelfStatus
      BY <1>3, <1>4 DEF ShelfStatus
  <2>2. QED
      BY <2>1 DEF ShelfTerm
<1>10. u.number = t.number /\ u.from = t.from /\ u.eff = t.eff /\ u.exp = t.exp
    BY <1>9 DEF ShelfTerm
<1>11. PICK marked \in Seq(ShelfTerm) :
          /\ marked = [shelf EXCEPT ![k].status = status] /\ DOMAIN marked = DOMAIN shelf
          /\ \A j \in DOMAIN shelf : marked[j] = IF j = k THEN u ELSE shelf[j]
  <2>1. [shelf EXCEPT ![k].status = status] = [shelf EXCEPT ![k] = u]
      BY <1>2, <1>9
  <2>2. QED
      BY <1>1, <1>9, <2>1, PutInPlace
<1>12. shelf' = Append(marked, new)
    BY <1>3, <1>5, <1>6, <1>7, <1>11
<1>13. /\ shelf' \in Seq(ShelfTerm) /\ DOMAIN shelf' = 1..(Len(shelf) + 1) /\ DOMAIN shelf = 1..Len(shelf) /\ Len(shelf) \in Nat
       /\ shelf'[Len(shelf) + 1] = new /\ \A j \in DOMAIN shelf : shelf'[j] = marked[j]
  <2>1. DOMAIN marked = 1..Len(marked) /\ DOMAIN shelf = 1..Len(shelf) /\ Len(shelf) \in Nat /\ Len(marked) \in Nat
      BY <1>1, <1>11
  <2>2. Len(marked) = Len(shelf)
      BY <1>11, <2>1
  <2>3. /\ Append(marked, new) \in Seq(ShelfTerm) /\ Len(Append(marked, new)) = Len(marked) + 1
        /\ \A i \in 1..Len(marked) : Append(marked, new)[i] = marked[i]
        /\ Append(marked, new)[Len(marked) + 1] = new
      BY <1>7, <1>11, AppendProperties
  <2>4. QED
      BY <1>12, <2>1, <2>2, <2>3
<1>14. \A j \in DOMAIN shelf : /\ j \in DOMAIN shelf' /\ j < Len(shelf) + 1
                               /\ shelf'[j].number = shelf[j].number /\ shelf'[j].from = shelf[j].from
                               /\ shelf'[j].eff = shelf[j].eff /\ shelf'[j].exp = shelf[j].exp
  <2>1. SUFFICES ASSUME NEW j \in DOMAIN shelf
                 PROVE  /\ j \in DOMAIN shelf' /\ j < Len(shelf) + 1
                        /\ shelf'[j].number = shelf[j].number /\ shelf'[j].from = shelf[j].from
                        /\ shelf'[j].eff = shelf[j].eff /\ shelf'[j].exp = shelf[j].exp
      OBVIOUS
  <2>2. j \in DOMAIN shelf' /\ j < Len(shelf) + 1
      BY <1>13
  <2>3. shelf'[j] = IF j = k THEN u ELSE shelf[j]
      BY <1>11, <1>13
  <2>4. QED
      BY <1>2, <1>10, <2>2, <2>3
<1>15. carriedOn' = carriedOn \cup {k} /\ UNCHANGED <<snapshotDay, snapshots, shots, started>>
    BY DEF RenewTerm, MoveShelf
<1>16. ShelfOK'
  <2>1. \A j \in DOMAIN shelf' : j \in DOMAIN shelf \/ j = Len(shelf) + 1
      BY <1>13
  <2>2. \A j \in DOMAIN shelf' : shelf'[j].exp = shelf'[j].eff + TermDays
      BY <1>6, <1>8, <1>13, <1>14, <2>1 DEF ReportsInv, ShelfOK
  <2>3. carriedOn' \subseteq DOMAIN shelf'
      BY <1>1, <1>14, <1>15 DEF ReportsInv, ShelfOK
  <2>4. QED
      BY <1>13, <2>2, <2>3 DEF ShelfOK
<1>17. RenewalsThere'
  <2>1. PICK n \in DOMAIN shelf' : Renews(n, k)'
    <3>1. Len(shelf) + 1 > k
        BY <1>1, <1>14
    <3>2. /\ k \in DOMAIN shelf /\ shelf'[Len(shelf) + 1].eff = t.exp + slip /\ shelf'[Len(shelf) + 1].number = number
          /\ shelf'[Len(shelf) + 1].from = from
          /\ shelf'[k].exp = t.exp /\ shelf'[k].number = t.number
        BY <1>1, <1>2, <1>6, <1>8, <1>13, <1>14
    <3>3. t.exp + slip >= t.exp - SuccessorGrace
        BY <1>4
    <3>4. \/ shelf'[Len(shelf) + 1].from = shelf'[k].number
          \/ shelf'[Len(shelf) + 1].from = <<>> /\ shelf'[Len(shelf) + 1].number = shelf'[k].number
        BY <1>5, <3>2
    <3>5. PICK n \in Nat : n = Len(shelf) + 1
        BY <1>13
    <3>6. Renews(n, k)'
      <4>1. n > k /\ shelf'[n].eff >= shelf'[k].exp - SuccessorGrace
          BY <3>1, <3>2, <3>3, <3>5
      <4>2. shelf'[n].from = shelf'[k].number \/ (shelf'[n].from = <<>> /\ shelf'[n].number = shelf'[k].number)
          BY <3>4, <3>5
      <4>3. QED
          BY <4>1, <4>2 DEF Renews
    <3>7. QED
        BY <1>13, <3>5, <3>6
  <2>2. ASSUME NEW c \in carriedOn PROVE \E j \in DOMAIN shelf' : Renews(j, c)'
    <3>1. PICK j \in DOMAIN shelf : Renews(j, c)
        BY DEF ReportsInv, RenewalsThere
    <3>2. c \in DOMAIN shelf
        BY DEF ReportsInv, ShelfOK
    <3>3. Renews(j, c)'
        BY <1>14, <3>1, <3>2 DEF Renews
    <3>4. QED
        BY <1>14, <3>3
  <2>3. ASSUME NEW c \in carriedOn' PROVE \E j \in DOMAIN shelf' : Renews(j, c)'
    <3>1. CASE c = k
        BY <2>1, <3>1
    <3>2. CASE c \in carriedOn
        BY <2>2, <3>2
    <3>3. QED
        BY <1>15, <3>1, <3>2
  <2>4. QED
      BY <2>3 DEF RenewalsThere
<1>18. QED
    BY <1>15, <1>16, <1>17, ShelfChanges

(***************************************************************************)
(* What the invariant says of the reports.                                 *)
(***************************************************************************)
LEMMA ReportsTold ==
    ASSUME ReportsInv
    PROVE  SnapshotsSafe
PROOF
<1>1. ReportsTypeOK
  <2>1. snapshotDay \in 1..LastSnapshotDay /\ LastSnapshotDay \in Nat /\ DOMAIN snapshots \subseteq 1..snapshotDay
      BY ReportsAssumption DEF ReportsInv, DaysOK
  <2>2. DOMAIN snapshots \subseteq 1..LastSnapshotDay
      BY <2>1
  <2>3. QED
      BY <2>1, <2>2 DEF ReportsTypeOK, ReportsInv, ShelfOK, Shelf
<1>2. ASSUME NEW k \in carriedOn
      PROVE  \E j \in DOMAIN shelf : /\ k \in DOMAIN shelf /\ j \in Int /\ k \in Int /\ Renews(j, k)
                                     /\ shelf[k].number # <<>> /\ shelf[j].eff \in Int /\ shelf[k].eff \in Int
                                     /\ shelf[j].exp = shelf[j].eff + TermDays /\ shelf[k].exp = shelf[k].eff + TermDays
  <2>1. PICK j \in DOMAIN shelf : Renews(j, k)
      BY DEF ReportsInv, RenewalsThere
  <2>2. k \in DOMAIN shelf /\ shelf \in Seq(ShelfTerm)
      BY DEF ReportsInv, ShelfOK
  <2>3. PICK old \in ShelfTerm, new \in ShelfTerm : old = shelf[k] /\ new = shelf[j]
      BY <2>1, <2>2
  <2>4. old.number # <<>> /\ old.eff \in Int /\ new.eff \in Int
      BY <2>3 DEF ShelfTerm, PolicyNumber
  <2>5. j \in Int /\ k \in Int
      BY <2>1, <2>2
  <2>6. QED
      BY <2>1, <2>2, <2>3, <2>4, <2>5 DEF ReportsInv, ShelfOK
<1>3. RenewedNeverLost
  <2>1. SUFFICES ASSUME NEW k \in carriedOn PROVE WasRetained(k)
      BY DEF RenewedNeverLost
  <2>2. PICK j \in DOMAIN shelf : j \in Int /\ k \in Int /\ Renews(j, k)
      BY <1>2
  <2>3. j # k /\ StartsAfter(shelf[j], shelf[k].exp) /\ shelf[k].number \in {shelf[j].from, shelf[j].number}
      BY <2>2 DEF Renews, StartsAfter
  <2>4. QED
      BY <2>2, <2>3 DEF WasRetained, Shelf
<1>4. ShownOnce
  <2>1. SUFFICES ASSUME NEW k \in carriedOn, shelf[k].from = <<>> PROVE k \notin CurrentTerms
      BY DEF ShownOnce
  <2>2. PICK j \in DOMAIN shelf : /\ k \in DOMAIN shelf /\ j \in Int /\ k \in Int /\ Renews(j, k)
                                  /\ shelf[k].number # <<>> /\ shelf[j].eff \in Int /\ shelf[k].eff \in Int
                                  /\ shelf[j].exp = shelf[j].eff + TermDays /\ shelf[k].exp = shelf[k].eff + TermDays
      BY <1>2
  <2>3. RootOf(shelf[j]) = RootOf(shelf[k])
      BY <2>1, <2>2 DEF Renews, RootOf
  <2>4. shelf[j].eff >= shelf[k].eff
      BY <2>2, ReportsAssumption DEF Renews
  <2>5. ~NotOlder(k, j)
      BY <2>2, <2>4, ReportsAssumption DEF Renews, NotOlder
  <2>6. QED
      BY <2>2, <2>3, <2>5 DEF CurrentTerms, Shelf
<1>5. QED
    BY <1>1, <1>3, <1>4 DEF SnapshotsSafe, ReportsInv

LEMMA ReportsStep ==
    ASSUME ReportsInv, [ReportsNext]_reportVars
    PROVE  ReportsInv'
PROOF
<1>1. CASE UNCHANGED reportVars
  <2>1. UNCHANGED <<snapshotDay, snapshots, shots, started>> /\ shelf' = shelf /\ carriedOn' = carriedOn
      BY <1>1 DEF reportVars
  <2>2. ShelfOK' /\ RenewalsThere'
      BY <2>1 DEF ReportsInv, ShelfOK, RenewalsThere, Renews
  <2>3. QED
      BY <2>1, <2>2, ShelfChanges
<1>2. CASE NextSnapshotDay
    BY <1>2, NextSnapshotDayStep
<1>3. CASE \E k \in Shelf : RenewTerm(k) \/ CloseTerm(k)
    BY <1>3, RenewTermStep, CloseTermStep
<1>4. CASE \E r \in Shot : ReadShelf(r) \/ ReadPrior(r) \/ FindDay(r) \/ WriteRow(r) \/ ShotEnds(r)
    BY <1>4, ReadShelfStep, ReadPriorStep, FindDayStep, WriteRowStep, ShotEndsStep
<1>5. QED
    BY <1>1, <1>2, <1>3, <1>4 DEF ReportsNext

\* What the book of policies and its daily report say of renewals, from any book whose
\* terms all have the same length and a number: a term that a person renewed, with a
\* pointer or under its number, is never counted as lost (compute_retention() in
\* agency_snapshot.py) nor listed beside its renewal as current
\* (_collapse_to_current_terms() in api.py), and the change a day reports is the
\* difference to the row before it (run_snapshot()).
THEOREM ReportsAreSafe ==
    ASSUME NEW books,
           \A b \in books : b \in Seq(ShelfTerm) /\ \A k \in DOMAIN b : b[k].exp = b[k].eff + TermDays
    PROVE  ReportsSpec(books) => []SnapshotsSafe
PROOF
<1>1. ASSUME ReportsInit(books) PROVE ReportsInv
  <2>1. /\ snapshotDay = 1 /\ shelf \in books /\ carriedOn = {} /\ snapshots = <<>>
        /\ shots = [r \in Shot |-> ShotAtRest] /\ started = [d \in 1..LastSnapshotDay |-> 0]
      BY <1>1 DEF ReportsInit
  <2>2. DOMAIN snapshots = {}
      BY <2>1
  <2>3. ShelfOK /\ RenewalsThere /\ LastRow /\ TrendAddsUp
      BY <2>1, <2>2 DEF ShelfOK, RenewalsThere, LastRow, TrendAddsUp
  <2>4. snapshotDay \in 1..LastSnapshotDay /\ started \in [1..LastSnapshotDay -> Nat]
      BY <2>1, ReportsAssumption
  <2>5. DOMAIN shots = Shot /\ \A r \in Shot : shots[r].at = "rest"
      BY <2>1 DEF ShotAtRest
  <2>6. DaysOK /\ Untouched /\ \A r \in Shot : OnlyRun(r)
      BY <2>1, <2>2, <2>4, <2>5 DEF DaysOK, ShotOK, Untouched, OnlyRun
  <2>7. QED
      BY <2>3, <2>6 DEF ReportsInv
<1>2. ReportsInv /\ [ReportsNext]_reportVars => ReportsInv'
    BY ReportsStep
<1>3. ReportsInv => SnapshotsSafe
    BY ReportsTold
<1>4. QED
    BY <1>1, <1>2, <1>3, PTL DEF ReportsSpec

-----------------------------------------------------------------------------
(* CommissionScan: the seed of the ledger, the daily scan and the audit.       *)

RowText == STRING \cup {"", "pending", "renewal", "new"}

SeenFacts == [number: BOOLEAN, status: STRING, premium: Nat, direct: Nat, eff: Int, from: BOOLEAN,
              marked: BOOLEAN, billing: STRING, fee: Nat]
SeenRow == [renewal: RowText, expected: Int, premium: Int, billing: RowText, fee: Int,
            recon: RowText, timing: RowText]
SeenRule == [nb: Nat, renewal: Nat, timing: STRING, profile: STRING]

\* A policy that the seed took has the row it wrote, and one that it left has the old one.
SeedWrote ==
    seeded /\ ToSeed(policyFacts) =>
        \E old \in SeenRow \cup {NoRow} : rowFacts = SeededRow(policyFacts, old, ruleFacts)

ScanInv ==
    /\ policyFacts \in SeenFacts /\ rowFacts \in SeenRow \cup {NoRow} /\ ruleFacts \in SeenRule
    /\ seeded \in BOOLEAN /\ SeedWrote

(***************************************************************************)
(* What a seeded row holds.                                                *)
(***************************************************************************)
LEMMA RateIsNat ==
    ASSUME NEW rule \in SeenRule, NEW renewal \in BOOLEAN
    PROVE  /\ Rate(rule, renewal) \in Nat /\ rule.nb \in Nat /\ rule.renewal \in Nat
           /\ rule.nb # 0 /\ rule.renewal # 0 => Rate(rule, renewal) = IF renewal THEN rule.renewal ELSE rule.nb
    BY DEF SeenRule, Rate

LEMMA TimesNat ==
    ASSUME NEW a \in Nat, NEW b \in Nat, NEW c \in Nat
    PROVE  /\ a * b \in Nat
           /\ a > 0 /\ a * b = a * c => b = c
    OBVIOUS

RowOK(p, rate, row) ==
    /\ row \in SeenRow
    /\ row.renewal = IF p.status \in RenewalStatus THEN "renewal" ELSE "new"
    /\ row.premium = p.premium
    /\ p.direct > 0 => row.expected = p.direct
    /\ p.direct = 0 /\ p.premium * rate # 0 => row.expected = p.premium * rate
    /\ p.billing # "" => row.billing = p.billing

LEMMA SeededHolds ==
    ASSUME NEW p \in SeenFacts, NEW old \in SeenRow \cup {NoRow}, NEW rule \in SeenRule, Worth(p),
           NEW row, row = SeededRow(p, old, rule), NEW rate, rate = Rate(rule, p.status \in RenewalStatus)
    PROVE  RowOK(p, rate, row)
PROOF
<1>1. PICK base \in SeenRow : base = IF old = NoRow THEN FreshRow ELSE old
  <2>1. FreshRow \in SeenRow
    <3>1. "" \in RowText /\ "pending" \in RowText /\ 0 \in Int
        BY DEF RowText
    <3>2. QED
        BY <3>1 DEF SeenRow, FreshRow
  <2>2. QED
      BY <2>1
<1>2. PICK side : side = IF p.status \in RenewalStatus THEN "renewal" ELSE "new"
    OBVIOUS
<1>3. PICK amount : amount = IF p.direct > 0 THEN p.direct ELSE IF p.premium > 0 THEN p.premium * rate ELSE 0
    OBVIOUS
<1>4. PICK expected : expected = IF amount = 0 THEN base.expected ELSE amount
    OBVIOUS
<1>5. PICK billing : billing = IF p.billing = "" THEN base.billing ELSE p.billing
    OBVIOUS
<1>6. PICK fee : fee = IF p.fee = 0 THEN base.fee ELSE p.fee
    OBVIOUS
<1>7. PICK timing : timing = IF rule.timing = "" THEN base.timing ELSE rule.timing
    OBVIOUS
<1>8. row = [base EXCEPT !.renewal = side, !.premium = p.premium, !.expected = expected,
                         !.billing = billing, !.fee = fee, !.timing = timing]
    BY <1>1, <1>2, <1>3, <1>4, <1>5, <1>6, <1>7, ZenonT(60) DEF SeededRow, Expectation, KeptAmount, KeptText
<1>9. /\ rate \in Nat /\ p.premium \in Nat /\ p.direct \in Nat /\ p.fee \in Nat /\ p.billing \in STRING
      /\ rule.timing \in STRING
  <2>1. CASE p.status \in RenewalStatus
    <3>1. rate = Rate(rule, TRUE)
        BY <2>1 DEF Rate
    <3>2. QED
        BY <3>1, RateIsNat DEF SeenFacts, SeenRule
  <2>2. CASE p.status \notin RenewalStatus
    <3>1. rate = Rate(rule, FALSE)
        BY <2>2 DEF Rate
    <3>2. QED
        BY <3>1, RateIsNat DEF SeenFacts, SeenRule
  <2>3. QED
      BY <2>1, <2>2
<1>10. PICK product \in Nat : product = p.premium * rate
    BY <1>9, TimesNat
<1>11. amount \in Nat /\ (p.direct > 0 => amount = p.direct) /\ (p.direct = 0 /\ product # 0 => amount = product)
  <2>1. p.premium = 0 => product = 0
      BY <1>9, <1>10
  <2>2. QED
      BY <1>3, <1>9, <1>10, <2>1
<1>12. /\ side \in RowText /\ expected \in Int /\ billing \in RowText
       /\ fee \in Int /\ timing \in RowText
  <2>1. base.expected \in Int /\ base.billing \in RowText /\ base.fee \in Int /\ base.timing \in RowText
      BY <1>1 DEF SeenRow
  <2>2. expected \in Int
      BY <1>4, <1>11, <2>1
  <2>3. fee \in Int
      BY <1>6, <1>9, <2>1
  <2>4. billing \in RowText /\ timing \in RowText
      BY <1>5, <1>7, <1>9, <2>1 DEF RowText
  <2>5. side \in RowText
      BY <1>2 DEF RowText
  <2>6. QED
      BY <2>2, <2>3, <2>4, <2>5
<1>13. row \in SeenRow /\ row.renewal = side /\ row.premium = p.premium /\ row.expected = expected /\ row.billing = billing
  <2>1. p.premium \in Int
      BY <1>9
  <2>2. QED
      BY <1>1, <1>8, <1>12, <2>1 DEF SeenRow
<1>14. p.direct > 0 => row.expected = p.direct
    BY <1>4, <1>9, <1>11, <1>13
<1>15. p.direct = 0 /\ p.premium * rate # 0 => row.expected = p.premium * rate
    BY <1>4, <1>10, <1>11, <1>13
<1>16. row.renewal = IF p.status \in RenewalStatus THEN "renewal" ELSE "new"
    BY <1>2, <1>13
<1>17. p.billing # "" => row.billing = p.billing
    BY <1>5, <1>13
<1>18. QED
    BY <1>13, <1>14, <1>15, <1>16, <1>17 DEF RowOK

(***************************************************************************)
(* The scan of a row as the seed has written it.                           *)
(***************************************************************************)
LEMMA ScanOfSeeded ==
    ASSUME ScanInv, seeded, ToSeed(policyFacts), NoRow \notin SeenRow
    PROVE  /\ "NB2" \notin Scanned(policyFacts, rowFacts, ruleFacts)
           /\ "RATE1" \notin Scanned(policyFacts, rowFacts, ruleFacts)
           /\ "BILL1" \notin Scanned(policyFacts, rowFacts, ruleFacts)
           /\ "RATE2" \in Scanned(policyFacts, rowFacts, ruleFacts)
                 => policyFacts.direct > 0 \/ ruleFacts.nb = 0 \/ ruleFacts.renewal = 0
PROOF
<1>1. PICK p \in SeenFacts, rule \in SeenRule, row \in SeenRow \cup {NoRow} : p = policyFacts /\ rule = ruleFacts /\ row = rowFacts
    BY DEF ScanInv
<1>2. PICK old \in SeenRow \cup {NoRow} : row = SeededRow(p, old, rule)
    BY <1>1 DEF ScanInv, SeedWrote
<1>3. Worth(p)
    BY <1>1 DEF ToSeed
<1>4. PICK rate : rate = Rate(rule, p.status \in RenewalStatus)
    OBVIOUS
<1>5. RowOK(p, rate, row)
    BY <1>2, <1>3, <1>4, SeededHolds
<1>6. row # NoRow
    BY <1>5 DEF RowOK
<1>7. Scanned(p, row, rule) = RowFindings(p, row, rule)
    BY <1>6 DEF Scanned
<1>8. "NB2" \notin RowFindings(p, row, rule)
    BY DEF RowFindings
<1>9. p.direct \in Nat /\ p.premium \in Nat /\ rule.nb \in Nat /\ rule.renewal \in Nat
    BY DEF SeenFacts, SeenRule
<1>10. "RATE1" \notin RowFindings(p, row, rule)
  <2>1. SUFFICES ASSUME p.direct > 0, row.expected # 0, RateDrift(p.direct, row.expected) PROVE FALSE
      BY DEF RowFindings
  <2>2. QED
      BY <1>5, <2>1 DEF RateDrift, RowOK
<1>11. "BILL1" \notin RowFindings(p, row, rule)
  <2>1. SUFFICES ASSUME p.billing # "", row.billing = "" PROVE FALSE
      BY DEF RowFindings
  <2>2. QED
      BY <1>5, <2>1 DEF RowOK
<1>12. ASSUME "RATE2" \in RowFindings(p, row, rule), p.direct = 0, rule.nb # 0, rule.renewal # 0 PROVE FALSE
  <2>1. WrongSide(row, p, rule)
      BY <1>12 DEF RowFindings
  <2>2. CASE p.status \in RenewalStatus
    <3>1. row.renewal = "renewal" /\ rate = rule.renewal
        BY <1>4, <1>5, <1>12, <2>2 DEF Rate, RowOK
    <3>2. /\ rule.renewal # rule.nb /\ p.premium > 0 /\ row.expected # 0 /\ row.expected = p.premium * rule.nb
        BY <1>5, <1>12, <2>1, <3>1 DEF WrongSide, RowOK
    <3>3. p.premium * rule.nb = p.premium * rule.renewal \/ p.premium * rule.renewal = 0
        BY <1>5, <1>12, <3>1, <3>2 DEF RowOK
    <3>4. p.premium * rule.renewal # 0
        BY <1>9, <1>12, <3>2
    <3>5. QED
        BY <1>9, <3>2, <3>3, <3>4, TimesNat
  <2>3. CASE p.status \notin RenewalStatus
    <3>1. row.renewal = "new" /\ rate = rule.nb
        BY <1>4, <1>5, <1>12, <2>3 DEF Rate, RowOK
    <3>2. /\ rule.renewal # rule.nb /\ p.premium > 0 /\ row.expected # 0 /\ row.expected = p.premium * rule.renewal
        BY <1>5, <1>12, <2>1, <3>1 DEF WrongSide, RowOK
    <3>3. p.premium * rule.renewal = p.premium * rule.nb \/ p.premium * rule.nb = 0
        BY <1>5, <1>12, <3>1, <3>2 DEF RowOK
    <3>4. p.premium * rule.nb # 0
        BY <1>9, <1>12, <3>2
    <3>5. QED
        BY <1>9, <3>2, <3>3, <3>4, TimesNat
  <2>4. QED
      BY <2>2, <2>3
<1>13. QED
    BY <1>1, <1>7, <1>8, <1>9, <1>10, <1>11, <1>12

\* The seed, the scan and the audit agree, for any facts of a policy, its row and its
\* rule: what the seed has taken is not called missing, mispriced or unbilled, nor on the
\* wrong side unless the AMS or the rule says so (run_commission_sync(),
\* scan_commission_dq()), and both reports call the same rows blind spots.
THEOREM ScanIsSafe ==
    ASSUME NEW policies \in SUBSET SeenFacts, NEW rows \in SUBSET SeenRow, NEW rules \in SUBSET SeenRule,
           NoRow \notin SeenRow
    PROVE  ScanSpec(policies, rows, rules) => []ScanSafe
PROOF
<1>1. ScanInit(policies, rows, rules) => ScanInv
    BY DEF ScanInit, ScanInv, SeedWrote
<1>2. ASSUME ScanInv, [ScanNext]_scanVars PROVE ScanInv'
  <2>1. CASE UNCHANGED scanVars
      BY <1>2, <2>1 DEF scanVars, ScanInv, SeedWrote
  <2>2. CASE SeedPolicyFacts
    <3>1. policyFacts' = policyFacts /\ ruleFacts' = ruleFacts /\ seeded' = TRUE
        BY <2>2 DEF SeedPolicyFacts
    <3>2. CASE ToSeed(policyFacts)
      <4>1. rowFacts' = SeededRow(policyFacts, rowFacts, ruleFacts)
          BY <2>2, <3>2 DEF SeedPolicyFacts
      <4>2. Worth(policyFacts)
          BY <3>2 DEF ToSeed
      <4>3. rowFacts' \in SeenRow
          BY <1>2, <4>1, <4>2, SeededHolds DEF ScanInv, RowOK
      <4>4. SeedWrote'
          BY <1>2, <3>1, <4>1 DEF ScanInv, SeedWrote
      <4>5. QED
          BY <1>2, <3>1, <4>3, <4>4 DEF ScanInv
    <3>3. CASE ~ToSeed(policyFacts)
      <4>1. rowFacts' = rowFacts
          BY <2>2, <3>3 DEF SeedPolicyFacts
      <4>2. ~ToSeed(policyFacts)'
          BY <3>1, <3>3
      <4>3. QED
          BY <1>2, <3>1, <4>1, <4>2 DEF ScanInv, SeedWrote
    <3>4. QED
        BY <3>2, <3>3
  <2>3. QED
      BY <1>2, <2>1, <2>2 DEF ScanNext
<1>3. ASSUME ScanInv PROVE ScanSafe
  <2>1. SeedSatisfiesScan
    <3>1. CASE ToSeed(policyFacts)
        BY <1>3, <3>1, ScanOfSeeded DEF SeedSatisfiesScan
    <3>2. CASE ~ToSeed(policyFacts)
      <4>1. ~MissingRow(policyFacts)
          BY <3>2 DEF ToSeed, MissingRow
      <4>2. "NB2" \notin Scanned(policyFacts, rowFacts, ruleFacts)
          BY <4>1 DEF Scanned, RowFindings
      <4>3. QED
          BY <3>2, <4>2 DEF SeedSatisfiesScan
    <3>3. QED
        BY <3>1, <3>2
  <2>2. BlindSpotsAgree
    <3>1. SUFFICES ASSUME rowFacts # NoRow
                   PROVE  "BLIND" \in RowFindings(policyFacts, rowFacts, ruleFacts) <=> AuditBlind(rowFacts)
        BY DEF BlindSpotsAgree, Scanned
    <3>2. rowFacts.expected \in Int
        BY <1>3, <3>1 DEF ScanInv, SeenRow
    <3>3. QED
        BY <3>1, <3>2 DEF RowFindings, AuditBlind
  <2>3. QED
      BY <2>1, <2>2 DEF ScanSafe
<1>4. QED
    BY <1>1, <1>2, <1>3, PTL DEF ScanSpec

-----------------------------------------------------------------------------
(* RenewalEvents: the rule, its lineage and the table of events.               *)

BookTerm == [number: Lineage, from: Lineage, status: TermStatus, medicare: BOOLEAN, eff: Nat, exp: Nat]

\* A term that has begun has an end, and a term of Medicare renews none.
WholeBook(book) ==
    /\ book \in Seq(BookTerm)
    /\ \A k \in DOMAIN book : (book[k].eff # 0 => book[k].exp # 0) /\ (book[k].medicare => book[k].from = <<>>)

EventsInv == date \in Nat /\ WholeBook(terms)

(***************************************************************************)
(* A book with one term changed or added is whole.                         *)
(***************************************************************************)
LEMMA ChangedIsWhole ==
    ASSUME NEW book, WholeBook(book), NEW k \in DOMAIN book, NEW t \in BookTerm,
           t.eff # 0 => t.exp # 0, t.medicare => t.from = <<>>
    PROVE  WholeBook([book EXCEPT ![k] = t])
PROOF
<1>1. PICK changed : changed = [book EXCEPT ![k] = t]
    OBVIOUS
<1>2. /\ changed \in Seq(BookTerm) /\ DOMAIN changed = DOMAIN book
      /\ \A d \in DOMAIN book : changed[d] = IF d = k THEN t ELSE book[d]
    BY <1>1, PutInPlace DEF WholeBook
<1>3. WholeBook(changed)
    BY <1>2 DEF WholeBook
<1>4. QED
    BY <1>1, <1>3

LEMMA AddedIsWhole ==
    ASSUME NEW book, WholeBook(book), NEW t \in BookTerm, t.eff # 0 => t.exp # 0, t.medicare => t.from = <<>>
    PROVE  WholeBook(Append(book, t))
PROOF
<1>1. book \in Seq(BookTerm) /\ Len(book) \in Nat /\ DOMAIN book = 1..Len(book)
    BY DEF WholeBook
<1>2. PICK added \in Seq(BookTerm) : added = Append(book, t)
    BY <1>1, AppendProperties
<1>3. DOMAIN added = 1..(Len(book) + 1) /\ added[Len(book) + 1] = t /\ \A i \in 1..Len(book) : added[i] = book[i]
    BY <1>1, <1>2, AppendProperties
<1>4. ASSUME NEW d \in DOMAIN added
      PROVE  (added[d].eff # 0 => added[d].exp # 0) /\ (added[d].medicare => added[d].from = <<>>)
  <2>1. d \in 1..Len(book) \/ d = Len(book) + 1
      BY <1>1, <1>3
  <2>2. QED
      BY <1>1, <1>3, <2>1 DEF WholeBook
<1>5. QED
    BY <1>2, <1>4 DEF WholeBook

LEMMA EventsStep ==
    ASSUME EventsInv, [RenewalNext]_renewalVars
    PROVE  EventsInv'
PROOF
<1>1. terms \in Seq(BookTerm) /\ DOMAIN terms = Book
    BY DEF EventsInv, WholeBook, Book
<1>2. CASE Refresh \/ DeactivateInsured \/ UNCHANGED renewalVars
    BY <1>2 DEF Refresh, DeactivateInsured, renewalVars, EventsInv
<1>3. CASE NextDate
    BY <1>3 DEF NextDate, EventsInv
<1>4. ASSUME NEW k \in Book, StageTerm(k) PROVE EventsInv'
  <2>1. PICK t \in BookTerm : t = terms[k]
      BY <1>1
  <2>2. t.exp # 0 /\ t.exp \in Nat /\ t.number \in Lineage /\ date' = date
      BY <1>4, <2>1 DEF StageTerm, MoveBook, BookTerm
  <2>3. PICK number \in {t.number, Append(t.number, "R")}, slip \in 0..Align + 1, status \in {"staged", "current"} :
            terms' = Append(terms, [number |-> number, from |-> t.number, status |-> status, medicare |-> FALSE,
                                    eff |-> t.exp + slip, exp |-> t.exp + slip + Term])
      BY <1>4, <2>1 DEF StageTerm, MoveBook
  <2>4. number \in Lineage
    <3>1. t.number \in Seq(Mark) /\ "R" \in Mark
        BY <2>2 DEF Lineage, Mark
    <3>2. Append(t.number, "R") \in Seq(Mark)
        BY <3>1, AppendProperties
    <3>3. QED
        BY <2>2, <2>3, <3>2 DEF Lineage
  <2>5. PICK eff \in Nat, exp \in Nat : eff = t.exp + slip /\ exp = t.exp + slip + Term /\ exp # 0
    <3>1. slip \in Nat /\ Term \in Nat \ {0}
        BY <2>3, RenewalAssumption
    <3>2. QED
        BY <2>2, <3>1
  <2>6. PICK new \in BookTerm : new = [number |-> number, from |-> t.number, status |-> status, medicare |-> FALSE,
                                       eff |-> eff, exp |-> exp]
    <3>1. status \in TermStatus
        BY <2>3 DEF TermStatus
    <3>2. QED
        BY <2>2, <2>4, <2>5, <3>1 DEF BookTerm
  <2>7. WholeBook(Append(terms, new))
      BY <2>5, <2>6, AddedIsWhole DEF EventsInv
  <2>8. QED
      BY <2>2, <2>3, <2>5, <2>6, <2>7 DEF EventsInv
<1>5. ASSUME NEW k \in Book, SetTermStatus(k) PROVE EventsInv'
  <2>1. PICK t \in BookTerm : t = terms[k]
      BY <1>1
  <2>2. PICK status \in TermStatus : terms' = [terms EXCEPT ![k].status = status] /\ date' = date
      BY <1>5 DEF SetTermStatus, MoveBook
  <2>3. PICK new \in BookTerm : new = [t EXCEPT !.status = status]
      BY DEF BookTerm
  <2>4. new.eff = t.eff /\ new.exp = t.exp /\ new.medicare = t.medicare /\ new.from = t.from
      BY <2>3 DEF BookTerm
  <2>5. terms' = [terms EXCEPT ![k] = new]
      BY <2>1, <2>2, <2>3
  <2>6. (new.eff # 0 => new.exp # 0) /\ (new.medicare => new.from = <<>>)
      BY <1>1, <2>1, <2>4 DEF EventsInv, WholeBook
  <2>7. WholeBook([terms EXCEPT ![k] = new])
      BY <1>1, <2>6, ChangedIsWhole DEF EventsInv
  <2>8. QED
      BY <2>2, <2>5, <2>7 DEF EventsInv
<1>6. ASSUME NEW k \in Book, Redate(k) PROVE EventsInv'
  <2>1. PICK t \in BookTerm : t = terms[k]
      BY <1>1
  <2>2. PICK exp \in Nat : exp = t.exp + 1 /\ exp # 0
      BY DEF BookTerm
  <2>3. PICK new \in BookTerm : new = [t EXCEPT !.exp = exp]
      BY DEF BookTerm
  <2>4. new.eff = t.eff /\ new.exp = exp /\ new.medicare = t.medicare /\ new.from = t.from
      BY <2>3 DEF BookTerm
  <2>5. terms' = [terms EXCEPT ![k] = new] /\ date' = date
    <3>1. terms' = [terms EXCEPT ![k].exp = t.exp + 1] /\ date' = date
        BY <1>6, <2>1 DEF Redate, MoveBook
    <3>2. QED
        BY <2>1, <2>2, <2>3, <3>1
  <2>6. (new.eff # 0 => new.exp # 0) /\ (new.medicare => new.from = <<>>)
      BY <1>1, <2>1, <2>2, <2>4 DEF EventsInv, WholeBook
  <2>7. WholeBook([terms EXCEPT ![k] = new])
      BY <1>1, <2>6, ChangedIsWhole DEF EventsInv
  <2>8. QED
      BY <2>5, <2>7 DEF EventsInv
<1>7. QED
    BY <1>2, <1>3, <1>4, <1>5, <1>6 DEF RenewalNext

(***************************************************************************)
(* What the rule says of a term, by its kind.                              *)
(***************************************************************************)
LEMMA AugustIsAhead ==
    ASSUME date \in Nat
    PROVE  NextAug1 \in Nat /\ NextAug1 >= date
PROOF
<1>1. Aep \in Nat /\ NewYear \in Nat \ {0}
    BY RenewalAssumption
<1>2. PICK a \in Int, n \in Nat \ {0} : a = Aep - date /\ n = NewYear
    BY <1>1
<1>3. a % n \in 0..n - 1
    OBVIOUS
<1>4. QED
    BY <1>2, <1>3 DEF NextAug1

LEMMA RuledByState ==
    ASSUME NEW branch, NEW event
    PROVE  /\ Eligible(branch, event).state \in {"eligible", "excluded"}
           /\ Eligible(branch, event).state = "eligible" =>
                 /\ Eligible(branch, event).event = event /\ Eligible(branch, event).branch = branch
                 /\ Within(date, event, Window)
           /\ Within(date, event, Window) => Eligible(branch, event).state = "eligible"
           /\ Excluded.state = "excluded" /\ Excluded.event = 0 /\ Excluded.branch = ""
           /\ Verify.state = "needs_verification" /\ Verify.event = 0 /\ Verify.branch = ""
           /\ Eligible(branch, event).state = "excluded" =>
                 Eligible(branch, event).event = 0 /\ Eligible(branch, event).branch = ""
    BY DEF Eligible, Excluded, Verify, Ruled

\* A valid successor is followed up, in force, or has its event beyond the window.
LEMMA SuccessorFollowed ==
    ASSUME EventsInv, insured, NEW k \in Book, NEW j \in ValidSuccessors(k)
    PROVE  Stands(j) \/ (terms[j].status = "current" /\ InForce(terms[j])) \/ ~Within(date, terms[j].eff, Window)
PROOF
<1>1. /\ j \in Book /\ terms[k].number \in RenewedFrom(j) /\ terms[j].status \in {"staged", "current"}
      /\ terms[j].eff # 0
    BY DEF ValidSuccessors, Successors, Aligned
<1>2. ~terms[j].medicare /\ terms[j].exp # 0
    BY <1>1 DEF EventsInv, WholeBook, RenewedFrom, Book
<1>3. CASE terms[j].status = "current"
  <2>1. SUFFICES ASSUME ~InForce(terms[j]) PROVE Stands(j)
      BY <1>3
  <2>2. Evaluate(j) = Verify
      BY <1>2, <1>3, <2>1 DEF Evaluate
  <2>3. QED
      BY <2>2, RuledByState DEF Stands
<1>4. CASE terms[j].status = "staged"
  <2>1. Evaluate(j) = Staged(j)
      BY <1>2, <1>4 DEF Evaluate
  <2>2. Staged(j) \in {Verify, Eligible("staged_next_term", terms[j].eff)}
      BY <1>1 DEF Staged
  <2>3. Verify.state # "excluded"
      BY RuledByState
  <2>4. Within(date, terms[j].eff, Window) => Eligible("staged_next_term", terms[j].eff).state # "excluded"
      BY RuledByState
  <2>5. QED
      BY <2>1, <2>2, <2>3, <2>4 DEF Stands
<1>5. QED
    BY <1>1, <1>3, <1>4

LEMMA FollowedOnce ==
    ASSUME EventsInv
    PROVE  RenewalFollowedOnce
PROOF
<1>1. SUFFICES ASSUME insured, NEW k \in Book, terms[k].status = "current", InForce(terms[k]), ~terms[k].medicare,
                      Within(date, terms[k].exp, Window)
               PROVE  /\ \/ Stands(k)
                         \/ \E j \in ValidSuccessors(k) :
                               \/ Stands(j) \/ (terms[j].status = "current" /\ InForce(terms[j]))
                               \/ ~Within(date, terms[j].eff, Window)
                      /\ \A j \in Successors(k) :
                            ~(Evaluate(j).state = "eligible" /\ Evaluate(k).state = "eligible"
                                /\ Aligned(terms[j].eff, terms[k].exp))
    BY DEF RenewalFollowedOnce
<1>2. Evaluate(k) = IF ValidSuccessors(k) # {} THEN Excluded ELSE Eligible("current_term", terms[k].exp)
    BY <1>1 DEF Evaluate
<1>3. CASE ValidSuccessors(k) = {}
  <2>1. Stands(k)
    <3>1. Evaluate(k) = Eligible("current_term", terms[k].exp)
        BY <1>2, <1>3
    <3>2. Eligible("current_term", terms[k].exp).state = "eligible"
        BY <1>1, RuledByState
    <3>3. QED
        BY <3>1, <3>2 DEF Stands
  <2>2. ASSUME NEW j \in Successors(k), Evaluate(j).state = "eligible", Aligned(terms[j].eff, terms[k].exp)
        PROVE  FALSE
    <3>1. terms[j].status \notin {"staged", "current"}
        BY <1>3, <2>2 DEF ValidSuccessors
    <3>2. j \in Book /\ terms[k].number \in RenewedFrom(j)
        BY DEF Successors
    <3>3. ~terms[j].medicare
        BY <3>2 DEF EventsInv, WholeBook, RenewedFrom, Book
    <3>4. Evaluate(j) \in {Verify, Excluded}
        BY <1>1, <3>1, <3>3 DEF Evaluate
    <3>5. QED
        BY <2>2, <3>4, RuledByState
  <2>3. QED
      BY <2>1, <2>2
<1>4. CASE ValidSuccessors(k) # {}
  <2>1. Evaluate(k).state # "eligible"
      BY <1>2, <1>4, RuledByState
  <2>2. QED
      BY <1>1, <1>4, <2>1, SuccessorFollowed
<1>5. QED
    BY <1>3, <1>4

(***************************************************************************)
(* Of some numbers one is the least.                                       *)
(***************************************************************************)
LEMMA FirstOfSome ==
    ASSUME NEW S \in SUBSET Nat, S # {}
    PROVE  \E m \in S : \A k \in S : m <= k
PROOF
<1>1. PICK T : T = {0..k : k \in S}
    OBVIOUS
<1>2. T \subseteq FiniteSubsetsOf(Nat) /\ T # {}
  <2>1. ASSUME NEW k \in S PROVE 0..k \in FiniteSubsetsOf(Nat)
    <3>1. 0..k \subseteq Nat /\ IsFiniteSet(0..k)
        BY FS_Interval
    <3>2. QED
        BY <3>1 DEF FiniteSubsetsOf
  <2>2. QED
      BY <1>1, <2>1
<1>3. IsWellFoundedOn(StrictSubsetOrdering(Nat), FiniteSubsetsOf(Nat))
    BY FS_StrictSubsetOrderingWellFounded
<1>4. PICK X \in T : \A Y \in T : ~ (<<Y, X>> \in StrictSubsetOrdering(Nat))
    BY <1>2, <1>3, WFMin
<1>5. PICK m \in S : X = 0..m
    BY <1>1
<1>6. ASSUME NEW k \in S, k < m PROVE FALSE
  <2>1. 0..k \in T /\ 0..k \subseteq 0..m /\ 0..k # 0..m
      BY <1>1, <1>6
  <2>2. <<0..k, X>> \in StrictSubsetOrdering(Nat)
      BY <1>5, <2>1 DEF StrictSubsetOrdering
  <2>3. QED
      BY <1>4, <2>1, <2>2
<1>7. QED
    BY <1>6

LEMMA Ranks ==
    /\ StateRank["excluded"] = 10 /\ StateRank["needs_verification"] = 20
    /\ BranchRank("") = 0
PROOF
<1>1. BranchRank("") = 0
    BY DEF BranchRank
<1>2. StateRank["excluded"] = 10
    BY DEF StateRank
<1>3. StateRank["needs_verification"] = 20
    BY Zenon DEF StateRank
<1>4. QED
    BY <1>1, <1>2, <1>3

(***************************************************************************)
(* A term whose event date is past is not eligible; it is to be verified   *)
(* by the end it has, or excluded.                                         *)
(***************************************************************************)
LEMMA PastIsNotEligible ==
    ASSUME EventsInv, NEW j \in Book, NEW d \in Nat, EventDate(j) = d, d # 0, d < date
    PROVE  /\ EventRank(j) \in {10, 20}
           /\ EventRank(j) = 20 => Evaluate(j).state = "needs_verification" /\ terms[j].exp = d
PROOF
<1>1. PICK t \in BookTerm : t = terms[j]
    BY DEF EventsInv, WholeBook, Book
<1>2. t.eff \in Nat /\ t.exp \in Nat /\ date \in Nat /\ (t.eff # 0 => t.exp # 0)
    BY <1>1 DEF EventsInv, WholeBook, Book, BookTerm
<1>3. PICK ruled : ruled = Evaluate(j)
    OBVIOUS
<1>4. ASSUME NEW branch, NEW event \in Nat, event >= date, ruled = Eligible(branch, event)
      PROVE  ruled = Excluded
  <2>1. SUFFICES ASSUME Within(date, event, Window) PROVE FALSE
      BY <1>4 DEF Eligible, Excluded
  <2>2. ruled.event = event
      BY <1>4, <2>1, RuledByState
  <2>3. event # 0
      BY <1>2, <1>4
  <2>4. EventDate(j) = event
      BY <1>3, <2>2, <2>3 DEF EventDate
  <2>5. QED
      BY <1>2, <1>4, <2>4
<1>5. ruled \in {Excluded, Verify}
  <2>1. CASE ~insured
      BY <1>3, <2>1 DEF Evaluate
  <2>2. CASE insured /\ t.medicare
    <3>1. ruled = Eligible("medicare_annual", NextAug1)
        BY <1>1, <1>3, <2>2 DEF Evaluate
    <3>2. NextAug1 \in Nat /\ NextAug1 >= date
        BY <1>2, AugustIsAhead
    <3>3. QED
        BY <1>4, <3>1, <3>2
  <2>3. CASE insured /\ ~t.medicare /\ t.status = "current" /\ InForce(t)
    <3>1. ruled \in {Excluded, Eligible("current_term", t.exp)}
        BY <1>1, <1>3, <2>3 DEF Evaluate
    <3>2. t.exp >= date
        BY <1>2, <2>3 DEF InForce
    <3>3. QED
        BY <1>2, <1>4, <3>1, <3>2
  <2>4. CASE insured /\ ~t.medicare /\ t.status = "staged"
    <3>1. ruled = Staged(j)
        BY <1>1, <1>3, <2>4 DEF Evaluate
    <3>2. CASE t.eff > date
      <4>1. ruled \in {Verify, Eligible("staged_next_term", t.eff)}
          BY <1>1, <3>1, <3>2 DEF Staged
      <4>2. QED
          BY <1>2, <1>4, <3>2, <4>1
    <3>3. CASE ~(t.eff > date)
        BY <1>1, <3>1, <3>3 DEF Staged
    <3>4. QED
        BY <3>2, <3>3
  <2>5. CASE insured /\ ~t.medicare /\ t.status # "staged" /\ ~(t.status = "current" /\ InForce(t))
      BY <1>1, <1>3, <2>5 DEF Evaluate
  <2>6. QED
      BY <2>1, <2>2, <2>3, <2>4, <2>5
<1>6. CASE ruled = Excluded
  <2>1. ruled.state = "excluded" /\ ruled.branch = ""
      BY <1>6, RuledByState
  <2>2. EventRank(j) = 10
    <3>1. EventRank(j) = StateRank[ruled.state] + BranchRank(ruled.branch)
        BY <1>3 DEF EventRank
    <3>2. StateRank[ruled.state] = 10 /\ BranchRank(ruled.branch) = 0
        BY <2>1, Ranks
    <3>3. QED
        BY <3>1, <3>2
  <2>3. QED
      BY <2>2
<1>7. CASE ruled = Verify
  <2>1. ruled.state = "needs_verification" /\ ruled.branch = "" /\ ruled.event = 0
      BY <1>7, RuledByState
  <2>2. EventRank(j) = 20
    <3>1. EventRank(j) = StateRank[ruled.state] + BranchRank(ruled.branch)
        BY <1>3 DEF EventRank
    <3>2. StateRank[ruled.state] = 20 /\ BranchRank(ruled.branch) = 0
        BY <2>1, Ranks
    <3>3. QED
        BY <3>1, <3>2
  <2>3. d = IF t.exp # 0 THEN t.exp ELSE t.eff
      BY <1>1, <1>3, <2>1 DEF EventDate
  <2>4. t.exp = d
      BY <1>2, <2>3
  <2>5. QED
      BY <1>1, <1>3, <2>1, <2>2, <2>4
<1>8. QED
    BY <1>5, <1>6, <1>7

\* A term that NowCerts carries as in force after its end is to be verified, by its end.
LEMMA LapsedIsVerified ==
    ASSUME EventsInv, insured, NEW k \in Book, ~terms[k].medicare, terms[k].status = "current",
           terms[k].exp \in Floor..(date - 1)
    PROVE  /\ EventDate(k) = terms[k].exp /\ EventRank(k) = 20 /\ k \in Tracked
           /\ terms[k].exp \in Nat /\ terms[k].exp # 0 /\ terms[k].exp < date
PROOF
<1>1. Floor \in Nat \ {0} /\ date \in Nat
    BY RenewalAssumption DEF EventsInv
<1>2. terms[k].exp \in Nat /\ terms[k].exp # 0 /\ terms[k].exp < date /\ terms[k].exp >= Floor
    BY <1>1
<1>3. ~InForce(terms[k])
    BY <1>1, <1>2 DEF InForce
<1>4. Evaluate(k) = Verify
    BY <1>2, <1>3 DEF Evaluate
<1>5. Evaluate(k).state = "needs_verification" /\ Evaluate(k).branch = "" /\ Evaluate(k).event = 0
    BY <1>4, RuledByState
<1>6. EventDate(k) = terms[k].exp
    BY <1>2, <1>5 DEF EventDate
<1>7. EventRank(k) = 20
  <2>1. StateRank[Evaluate(k).state] = 20 /\ BranchRank(Evaluate(k).branch) = 0
      BY <1>5, Ranks
  <2>2. QED
      BY <2>1 DEF EventRank
<1>8. k \in Tracked
    BY <1>2, <1>6 DEF Tracked
<1>9. QED
    BY <1>2, <1>6, <1>7, <1>8

LEMMA LapseIsListed ==
    ASSUME EventsInv, Refresh, insured, NEW k \in Book, ~terms[k].medicare, terms[k].status = "current",
           terms[k].exp \in Floor..(date - 1)
    PROVE  \E id \in LapseList' : events'[id].exp = terms[k].exp
PROOF
<1>1. PICK d : d = terms[k].exp
    OBVIOUS
<1>2. EventDate(k) = d /\ EventRank(k) = 20 /\ k \in Tracked /\ d \in Nat /\ d # 0 /\ d < date
    BY <1>1, LapsedIsVerified
<1>3. PICK id : id = Identity(k)
    OBVIOUS
<1>4. PICK same : same = {j \in Tracked : Identity(j) = id}
    OBVIOUS
<1>5. k \in same /\ same \subseteq Nat
    BY <1>2, <1>3, <1>4 DEF Tracked, Book
<1>6. ASSUME NEW j \in same
      PROVE  /\ EventRank(j) \in {10, 20}
             /\ EventRank(j) = 20 => Evaluate(j).state = "needs_verification" /\ terms[j].exp = d
  <2>1. j \in Book /\ EventDate(j) = d
      BY <1>2, <1>3, <1>4 DEF Identity, Tracked
  <2>2. QED
      BY <1>2, <2>1, PastIsNotEligible
<1>7. PICK m \in same : EventRank(m) = 20 /\ \A j \in same : EventRank(j) = 20 => m <= j
  <2>1. PICK first : first = {j \in same : EventRank(j) = 20}
      OBVIOUS
  <2>2. first \in SUBSET Nat /\ first # {}
      BY <1>2, <1>5, <2>1
  <2>3. PICK m \in first : \A j \in first : m <= j
      BY <2>2, FirstOfSome
  <2>4. QED
      BY <2>1, <2>3
<1>8. \A j \in same : EventRank(j) < EventRank(m) \/ (EventRank(j) = EventRank(m) /\ m <= j)
    BY <1>6, <1>7
<1>9. PICK b : b = Best(same)
    OBVIOUS
<1>10. b \in same /\ \A j \in same : EventRank(j) < EventRank(b) \/ (EventRank(j) = EventRank(b) /\ b <= j)
    BY <1>8, <1>9 DEF Best
<1>11. EventRank(b) = 20
    BY <1>2, <1>5, <1>6, <1>10
<1>12. EventRow(b).state = "needs_verification" /\ EventRow(b).exp = d
    BY <1>6, <1>10, <1>11 DEF EventRow
<1>13. PICK new : new = Candidates
    OBVIOUS
<1>14. id \in DOMAIN new /\ new[id] = EventRow(b)
  <2>1. PICK ids : ids = [j \in Tracked |-> Identity(j)]
      OBVIOUS
  <2>2. new = [x \in {ids[j] : j \in Tracked} |-> EventRow(Best({j \in Tracked : ids[j] = x}))]
      BY <1>13, <2>1 DEF Candidates
  <2>3. ids[k] = id
      BY <1>2, <1>3, <2>1
  <2>4. {j \in Tracked : ids[j] = id} = same
      BY <1>4, <2>1
  <2>5. id \in {ids[j] : j \in Tracked}
      BY <1>2, <2>3
  <2>6. QED
      BY <1>9, <2>2, <2>4, <2>5
<1>15. id \in DOMAIN events' /\ events'[id] = EventRow(b) /\ date' = date
    BY <1>13, <1>14 DEF Refresh
<1>16. id \in LapseList'
    BY <1>1, <1>12, <1>15 DEF LapseList
<1>17. QED
    BY <1>1, <1>12, <1>15, <1>16

LEMMA EventsKept ==
    ASSUME NEW opening, \A book \in opening : WholeBook(book)
    PROVE  RenewalSpec(opening) => []EventsInv
PROOF
<1>1. RenewalInit(opening) => EventsInv
    BY DEF RenewalInit, EventsInv
<1>2. EventsInv /\ [RenewalNext]_renewalVars => EventsInv'
    BY EventsStep
<1>3. QED
    BY <1>1, <1>2, PTL DEF RenewalSpec

\* A term in force that ends in the window is followed up itself or by its successor,
\* and never by both, from any whole book and whatever people stage, bind, cancel and
\* re-date (evaluate() in eligibility.py).
THEOREM RenewalIsFollowedOnce ==
    ASSUME NEW opening, \A book \in opening : WholeBook(book)
    PROVE  RenewalSpec(opening) => []RenewalFollowedOnce
PROOF
<1>1. EventsInv => RenewalFollowedOnce
    BY FollowedOnce
<1>2. QED
    BY <1>1, EventsKept, PTL

\* A term that NowCerts carries as in force after its end is on the lapse list as soon as
\* the table is rebuilt, whatever terms share its event (build_candidates() and
\* lapse_check() in candidate_refresh.py).
THEOREM SilentLapseIsListed ==
    ASSUME NEW opening, \A book \in opening : WholeBook(book)
    PROVE  RenewalSpec(opening) => SilentLapseListed
PROOF
<1>1. EventsInv /\ [RenewalNext]_renewalVars
        => [renewalVars' # renewalVars /\ Refresh => \A k \in Book :
              (insured /\ ~terms[k].medicare /\ terms[k].status = "current" /\ terms[k].exp \in Floor..(date - 1))
                  => \E id \in LapseList' : events'[id].exp = terms[k].exp]_renewalVars
    BY LapseIsListed
<1>2. QED
    BY <1>1, EventsKept, PTL DEF SilentLapseListed, RenewalSpec

-----------------------------------------------------------------------------
(* StatementInbox: what a statement says is paid once, or told of.             *)

\* A line is of a row of its document and, but for a PDF, of what the row pays this month.
LineOK(f, l) ==
    /\ l.row \in DOMAIN Document[f].rows
    /\ Document[f].suffix # "pdf" => l.amount = Amount(Document[f].rows[l.row].month)

OnePerRow(lines) == \A l, m \in lines : l.row = m.row => l = m

\* A reading has a line of each row, or tells of what it lacks; one of a PDF says so.
GoodReading(f, r) ==
    /\ \A l \in r.lines : LineOK(f, l)
    /\ OnePerRow(r.lines)
    /\ r.told \/ RowsOf(r.lines) = DOMAIN Document[f].rows
    /\ Document[f].suffix = "pdf" => r.method \in {"pdf_text", "pdf_ocr"}

AtStage(w) ==
    /\ DOMAIN w = {"at", "file", "reading", "todo", "queue", "done"}
    /\ w.queue \subseteq Files /\ OnePerRow(w.todo) /\ \A l \in w.todo : LineOK(w.file, l)
    /\ \A r \in w.reading : GoodReading(w.file, r)
    /\ w.at \in {"check", "batch", "lines"} => w.file \in Files
    /\ w.at = "batch" => w.reading # {}
    /\ w.at \in {"idle", "list", "check"} => w.reading = {} /\ w.todo = {}

\* A batch has a line of a row once, and tells how many there should be.
BatchOK(b, f) ==
    /\ DOMAIN b = {"status", "ok", "confirm", "lines", "told", "count"}
    /\ \A l \in b.lines : l.row = l.line.row /\ LineOK(f, l.line)
    /\ OnePerRow(b.lines)
    /\ b.status = "none" => b.lines = {}
    /\ b.status # "none" => b.told \/ b.count = Cardinality(DOMAIN Document[f].rows)
    /\ b.status # "none" => (Document[f].suffix = "pdf" => b.confirm)

\* A batch is filled by one stager, once it is there, with rows it has not yet.
FillsAlone(s) ==
    stager[s].at = "lines" =>
        /\ inbox[stager[s].file].status # "none"
        /\ \A l \in inbox[stager[s].file].lines, x \in stager[s].todo : l.row # x.row
        /\ \A t \in Stager \ {s} : stager[t].at = "lines" => stager[t].file # stager[s].file

FilesInv ==
    /\ folder \subseteq Files
    /\ DOMAIN stager = Stager /\ \A s \in Stager : AtStage(stager[s])
    /\ DOMAIN inbox = Files /\ \A f \in Files : BatchOK(inbox[f], f)
    /\ \A s \in Stager : FillsAlone(s)

\* A batch loses no line, and what has ended stays ended and is not committed after.
BatchGoesOn(f) ==
    /\ inbox[f].lines \subseteq inbox'[f].lines
    /\ inbox[f].status # "none" => inbox'[f].status # "none"
    /\ inbox[f].status \notin {"none", "pending_review"} => inbox'[f].status \notin {"none", "pending_review"}
    /\ inbox'[f].status = "committed" => inbox[f].status = "committed"

BatchesGoOn == \A f \in Files : BatchGoesOn(f)

\* An approval begins on a batch that waits, so that none of it had ended by then.
Approval == [file : Files, confirmed : BOOLEAN, ended : BOOLEAN, after : {{}}]

ApprovalOK(n) ==
    /\ inbox[approvals[n].file].status # "none"
    /\ approvals[n].ended => inbox[approvals[n].file].status # "pending_review"
    /\ Document[approvals[n].file].suffix = "pdf" => approvals[n].confirmed

AtApproval(me) ==
    /\ DOMAIN me = {"at", "file", "todo", "got", "turn"}
    /\ me.at # "idle" =>
          /\ me.turn \in DOMAIN approvals /\ approvals[me.turn].file = me.file
          /\ me.todo \subseteq inbox[me.file].lines
          /\ me.got => \E t \in paid : t.file = me.file

PaidIsStaged(t) ==
    /\ t.by \in DOMAIN approvals /\ t.file = approvals[t.by].file
    /\ \E l \in inbox[t.file].lines : t = [file |-> t.file, of |-> l.of, line |-> l.line, by |-> t.by]

ApprovalsInv ==
    /\ approvals \in Seq(Approval) /\ \A n \in DOMAIN approvals : ApprovalOK(n)
    /\ DOMAIN approver = Approvers /\ \A a \in Approvers : AtApproval(approver[a])
    /\ \A t \in paid : PaidIsStaged(t)
    /\ CommittedPays

\* No verdict is of a later time, and none says less than the property.
ClocksInv ==
    /\ time \in Nat /\ DOMAIN fresh = {"seed", "made"} /\ fresh.seed \in Nat /\ fresh.made \in Nat
    /\ verdict.at \in Nat /\ verdict.at <= time
    /\ SilenceMeansSeeded

(***************************************************************************)
(* Whatever reads a document, its lines are of rows of it, one of each.    *)
(***************************************************************************)
LinesFor(lines, K, rows) == lines = {PayLine(k, rows[k], "month") : k \in K}

LEMMA LinesOfRows ==
    ASSUME NEW K, NEW rows, NEW lines, LinesFor(lines, K, rows)
    PROVE  /\ OnePerRow(lines) /\ RowsOf(lines) = K
           /\ \A l \in lines : l.row \in K /\ l.amount = Amount(rows[l.row].month)
PROOF
<1>1. \A l \in lines : \E k \in K : l = PayLine(k, rows[k], "month")
    BY DEF LinesFor
<1>2. \A k \in K : PayLine(k, rows[k], "month") \in lines
    BY DEF LinesFor
<1>3. \A k \in K : PayLine(k, rows[k], "month").row = k /\ PayLine(k, rows[k], "month").amount = Amount(rows[k].month)
    BY DEF PayLine
<1>4. \A l \in lines : l.row \in K /\ l = PayLine(l.row, rows[l.row], "month") /\ l.amount = Amount(rows[l.row].month)
    BY <1>1, <1>3
<1>5. RowsOf(lines) = K
    BY <1>2, <1>3, <1>4 DEF RowsOf
<1>6. QED
    BY <1>4, <1>5 DEF OnePerRow

LEMMA GenericIsGood ==
    ASSUME NEW f \in Files, NEW method, NEW r, r = GenericReading(Document[f].rows, method),
           Document[f].suffix # "pdf"
    PROVE  GoodReading(f, r)
PROOF
<1>1. PICK rows : rows = Document[f].rows
    OBVIOUS
<1>2. r.lines = {PayLine(k, rows[k], "month") : k \in GenericRows(rows)} /\ r.told = (GenericRows(rows) # DOMAIN rows)
    BY <1>1 DEF GenericReading
<1>3. GenericRows(rows) \subseteq DOMAIN rows
    BY DEF GenericRows
<1>4. /\ OnePerRow(r.lines) /\ RowsOf(r.lines) = GenericRows(rows)
      /\ \A l \in r.lines : l.row \in GenericRows(rows) /\ l.amount = Amount(rows[l.row].month)
  <2>1. LinesFor(r.lines, GenericRows(rows), rows)
      BY <1>2 DEF LinesFor
  <2>2. QED
      BY <2>1, LinesOfRows
<1>5. QED
    BY <1>1, <1>2, <1>3, <1>4 DEF GoodReading, LineOK

LEMMA PickedIsGood ==
    ASSUME NEW f \in Files, Document[f].suffix = "pdf", NEW ks \in SUBSET DOMAIN Document[f].rows, NEW off,
           NEW method \in {"pdf_text", "pdf_ocr"}, NEW r, r = PdfReading(Document[f], ks, off, method)
    PROVE  GoodReading(f, r)
PROOF
<1>1. PICK picked : picked = Picked(Document[f], ks, off)
    OBVIOUS
<1>2. DOMAIN picked = ks
    BY <1>1 DEF Picked
<1>3. r.lines = {PayLine(k, picked[k], "month") : k \in GenericRows(picked)} /\ r.told = TRUE /\ r.method = method
    BY <1>1 DEF GenericReading, PdfReading
<1>4. GenericRows(picked) \subseteq ks
    BY <1>2 DEF GenericRows
<1>5. OnePerRow(r.lines) /\ \A l \in r.lines : l.row \in GenericRows(picked)
  <2>1. LinesFor(r.lines, GenericRows(picked), picked)
      BY <1>3 DEF LinesFor
  <2>2. QED
      BY <2>1, LinesOfRows
<1>6. QED
    BY <1>3, <1>4, <1>5 DEF GoodReading, LineOK

LEMMA ProgressiveIsGood ==
    ASSUME NEW f \in Files, NEW r, r = ProgressiveReading(Document[f]), Document[f].suffix # "pdf"
    PROVE  GoodReading(f, r)
PROOF
<1>1. PICK rows : rows = Document[f].rows
    OBVIOUS
<1>2. PICK kept : kept = {k \in DOMAIN rows : rows[k].policy # "" \/ AsMoney(rows[k].month) # {}}
    OBVIOUS
<1>3. r.lines = {PayLine(k, rows[k], "month") : k \in kept}
    BY <1>1, <1>2 DEF ProgressiveReading
<1>4. (\E k \in DOMAIN rows : ~(rows[k].policy # "" \/ AsMoney(rows[k].month) # {})) => r.told
    BY <1>1 DEF ProgressiveReading
<1>5. /\ OnePerRow(r.lines) /\ RowsOf(r.lines) = kept
      /\ \A l \in r.lines : l.row \in kept /\ l.amount = Amount(rows[l.row].month)
  <2>1. LinesFor(r.lines, kept, rows)
      BY <1>3 DEF LinesFor
  <2>2. QED
      BY <2>1, LinesOfRows
<1>6. r.told \/ kept = DOMAIN rows
    BY <1>2, <1>4
<1>7. QED
    BY <1>1, <1>2, <1>5, <1>6 DEF GoodReading, LineOK

LEMMA ReadingsAreGood ==
    ASSUME NEW f \in Files, NEW r \in Readings(Document[f])
    PROVE  GoodReading(f, r)
PROOF
<1>1. PICK d : d = Document[f]
    OBVIOUS
<1>2. CASE d.suffix = "pdf"
  <2>1. r \in PdfReadings(d)
      BY <1>1, <1>2 DEF Readings
  <2>2. CASE RowsOnPages(d, TextPages(d)) # {}
    <3>1. PICK ks : ks = RowsOnPages(d, TextPages(d))
        OBVIOUS
    <3>2. PICK off \in {{}, ks} : r = PdfReading(d, ks, off, "pdf_text")
        BY <2>1, <2>2, <3>1 DEF PdfReadings
    <3>3. ks \in SUBSET DOMAIN Document[f].rows
        BY <1>1, <3>1 DEF RowsOnPages
    <3>4. QED
        BY <1>1, <1>2, <3>2, <3>3, PickedIsGood
  <2>3. CASE RowsOnPages(d, TextPages(d)) = {}
    <3>1. r \in OcrReadings(d)
        BY <2>1, <2>3 DEF PdfReadings
    <3>2. PICK ks \in SUBSET RowsOnPages(d, DOMAIN d.layer \cap 1..MaxPages) :
              r \in {PdfReading(d, ks, off, "pdf_ocr") : off \in SUBSET ks}
        BY <3>1 DEF OcrReadings
    <3>3. PICK off \in SUBSET ks : r = PdfReading(d, ks, off, "pdf_ocr")
        BY <3>2
    <3>4. ks \in SUBSET DOMAIN Document[f].rows
        BY <1>1, <3>2 DEF RowsOnPages
    <3>5. QED
        BY <1>1, <1>2, <3>3, <3>4, PickedIsGood
  <2>4. QED
      BY <2>2, <2>3
<1>3. CASE d.suffix \in {"csv", "xlsx"}
  <2>1. \/ r \in CarrierReading(d)
        \/ r = [lines |-> {}, told |-> TRUE, method |-> "xlsx", stated |-> {}]
        \/ r = GenericReading(d.rows, d.suffix)
    <3>1. PICK own : own = {x \in CarrierReading(d) : x.lines # {}}
        OBVIOUS
    <3>2. Readings(d) = IF own # {} THEN own
                        ELSE IF d.suffix = "xlsx" /\ ~{"policy", "commission"} \subseteq d.header
                             THEN {[lines |-> {}, told |-> TRUE, method |-> "xlsx", stated |-> {}]}
                             ELSE {GenericReading(d.rows, d.suffix)}
        BY <1>3, <3>1 DEF Readings
    <3>3. QED
        BY <1>1, <3>1, <3>2
  <2>2. CASE r \in CarrierReading(d)
    <3>1. r = ProgressiveReading(d) \/ r = NextReading(d)
        BY <2>2 DEF CarrierReading
    <3>2. CASE r = NextReading(d)
      <4>1. r.lines = {PayLine(k, d.rows[k], "month") : k \in GenericRows(d.rows)} /\ r.told = TRUE
          BY <3>2 DEF NextReading
      <4>2. /\ OnePerRow(r.lines)
            /\ \A l \in r.lines : l.row \in GenericRows(d.rows) /\ l.amount = Amount(d.rows[l.row].month)
        <5>1. LinesFor(r.lines, GenericRows(d.rows), d.rows)
            BY <4>1 DEF LinesFor
        <5>2. QED
            BY <5>1, LinesOfRows
      <4>3. QED
          BY <1>1, <1>3, <4>1, <4>2 DEF GoodReading, LineOK, GenericRows
    <3>3. QED
        BY <1>1, <1>3, <3>1, <3>2, ProgressiveIsGood
  <2>3. CASE r = [lines |-> {}, told |-> TRUE, method |-> "xlsx", stated |-> {}]
      BY <1>1, <1>3, <2>3 DEF GoodReading, OnePerRow
  <2>4. QED
      BY <1>1, <1>3, <2>1, <2>2, <2>3, GenericIsGood
<1>4. CASE d.suffix \notin {"pdf", "csv", "xlsx"}
  <2>1. r = [lines |-> {}, told |-> TRUE, method |-> "csv", stated |-> {}]
      BY <1>1, <1>4 DEF Readings
  <2>2. QED
      BY <1>1, <1>4, <2>1 DEF GoodReading, OnePerRow
<1>5. QED
    BY <1>2, <1>3, <1>4

(***************************************************************************)
(* A stager goes on and touches nothing else.                              *)
(***************************************************************************)
LEMMA StagerMoves ==
    ASSUME FilesInv, NEW s \in Stager, NEW w, Step(s, w), AtStage(w),
           folder' = folder, inbox' = inbox,
           w.at = "lines" => stager[s].at = "lines" /\ w.file = stager[s].file /\ w.todo \subseteq stager[s].todo
    PROVE  FilesInv'
PROOF
<1>1. DOMAIN stager' = Stager /\ stager'[s] = w /\ \A t \in Stager : t # s => stager'[t] = stager[t]
    BY DEF Step, FilesInv
<1>2. \A t \in Stager : AtStage(stager'[t])
    BY <1>1 DEF FilesInv
<1>3. ASSUME NEW t \in Stager PROVE FillsAlone(t)'
  <2>1. SUFFICES ASSUME stager'[t].at = "lines" PROVE FillsAlone(t)'
      BY DEF FillsAlone
  <2>2. stager[t].at = "lines" /\ stager'[t].file = stager[t].file /\ stager'[t].todo \subseteq stager[t].todo
      BY <1>1, <2>1
  <2>3. \A q \in Stager : stager'[q].at = "lines" => stager[q].at = "lines" /\ stager'[q].file = stager[q].file
      BY <1>1
  <2>4. FillsAlone(t)
      BY DEF FilesInv
  <2>5. QED
      BY <2>2, <2>3, <2>4 DEF FillsAlone
<1>4. QED
    BY <1>1, <1>2, <1>3 DEF FilesInv

LEMMA AwayIsAtStage == AtStage(Away) /\ Away.at = "idle" /\ DOMAIN Away = {"at", "file", "reading", "todo", "queue", "done"}
    BY DEF AtStage, Away, OnePerRow

LEMMA ResumeIsAtStage ==
    ASSUME NEW s \in Stager, AtStage(stager[s])
    PROVE  AtStage(Resume(s)) /\ Resume(s).at # "lines"
PROOF
<1>1. CASE s = "poller"
  <2>1. PICK w : w = stager[s]
      OBVIOUS
  <2>2. PICK done : done = w.done + 1
      OBVIOUS
  <2>3. PICK v : v = [w EXCEPT !.at = "list", !.file = NoFile, !.reading = {}, !.todo = {}, !.done = done]
      OBVIOUS
  <2>4. Resume(s) = v
      BY <1>1, <2>1, <2>2, <2>3 DEF Resume
  <2>5. DOMAIN w = {"at", "file", "reading", "todo", "queue", "done"} /\ w.queue \subseteq Files
      BY <2>1 DEF AtStage
  <2>6. /\ DOMAIN v = {"at", "file", "reading", "todo", "queue", "done"} /\ v.at = "list" /\ v.reading = {} /\ v.todo = {}
        /\ v.queue = w.queue
      BY <2>3, <2>5
  <2>7. QED
      BY <2>4, <2>5, <2>6 DEF AtStage, OnePerRow
<1>2. CASE s # "poller"
    BY <1>2, AwayIsAtStage DEF Resume
<1>3. QED
    BY <1>1, <1>2

(***************************************************************************)
(* The poller, the uploads and their reads.                                *)
(***************************************************************************)
LEMMA StartUploadStep ==
    ASSUME FilesInv, NEW s \in Uploader, NEW f \in Files, StartUpload(s, f)
    PROVE  FilesInv'
PROOF
<1>1. PICK w : w = [Away EXCEPT !.at = "check", !.file = f]
    OBVIOUS
<1>2. AtStage(w) /\ w.at # "lines"
    BY <1>1 DEF AtStage, Away, OnePerRow
<1>3. Step(s, w) /\ folder' = folder /\ inbox' = inbox /\ s \in Stager
    BY <1>1 DEF StartUpload, Stager
<1>4. QED
    BY <1>2, <1>3, StagerMoves

LEMMA StartPollStep ==
    ASSUME FilesInv, StartPoll
    PROVE  FilesInv'
PROOF
<1>1. PICK w : w = [Away EXCEPT !.at = "list", !.queue = folder]
    OBVIOUS
<1>2. AtStage(w) /\ w.at # "lines"
    BY <1>1 DEF AtStage, Away, FilesInv, OnePerRow
<1>3. Step("poller", w) /\ folder' = folder /\ inbox' = inbox /\ "poller" \in Stager
    BY <1>1 DEF StartPoll, Stager
<1>4. QED
    BY <1>2, <1>3, StagerMoves

LEMMA NextEntryStep ==
    ASSUME FilesInv, NextEntry
    PROVE  FilesInv'
PROOF
<1>1. PICK me : me = stager["poller"]
    OBVIOUS
<1>2. "poller" \in Stager /\ AtStage(me)
    BY <1>1 DEF Stager, FilesInv
<1>3. /\ DOMAIN me = {"at", "file", "reading", "todo", "queue", "done"} /\ me.queue \subseteq Files /\ me.at = "list"
    BY <1>1, <1>2 DEF AtStage, NextEntry
<1>4. PICK f : f = Min(me.queue)
    OBVIOUS
<1>5. me.queue # {} => f \in me.queue
  <2>1. SUFFICES ASSUME me.queue # {} PROVE f \in me.queue
      OBVIOUS
  <2>2. me.queue \in SUBSET Nat
      BY <1>3, StatementInboxAssumption DEF Files
  <2>3. \E m \in me.queue : \A k \in me.queue : m <= k
      BY <2>1, <2>2, FirstOfSome
  <2>4. QED
      BY <1>4, <2>3 DEF Min
<1>6. PICK rest \in SUBSET Files : rest = me.queue \ {f}
    BY <1>3
<1>7. PICK done : done = me.done + 1
    OBVIOUS
<1>8. PICK passed : passed = [me EXCEPT !.queue = rest]
    OBVIOUS
<1>9. PICK taken : taken = [me EXCEPT !.queue = rest, !.at = "check", !.file = f]
    OBVIOUS
<1>10. PICK failed : failed = [me EXCEPT !.queue = rest, !.done = done]
    OBVIOUS
<1>11. /\ folder' = folder /\ inbox' = inbox
       /\ \/ Step("poller", Away) \/ Step("poller", passed) \/ Step("poller", failed)
          \/ me.queue # {} /\ Step("poller", taken)
    BY <1>1, <1>4, <1>6, <1>7, <1>8, <1>9, <1>10 DEF NextEntry
<1>12. me.reading = {} /\ me.todo = {}
    BY <1>2, <1>3 DEF AtStage
<1>13. AtStage(passed) /\ passed.at = "list" /\ AtStage(failed) /\ failed.at = "list"
    BY <1>3, <1>6, <1>8, <1>10, <1>12 DEF AtStage, OnePerRow
<1>14. ASSUME me.queue # {} PROVE AtStage(taken) /\ taken.at = "check"
  <2>1. f \in Files
      BY <1>3, <1>5, <1>14
  <2>2. /\ DOMAIN taken = {"at", "file", "reading", "todo", "queue", "done"} /\ taken.at = "check" /\ taken.file = f
        /\ taken.queue = rest /\ taken.reading = {} /\ taken.todo = {}
      BY <1>3, <1>9, <1>12
  <2>3. QED
      BY <1>6, <2>1, <2>2 DEF AtStage, OnePerRow
<1>15. QED
    BY <1>2, <1>11, <1>13, <1>14, AwayIsAtStage, StagerMoves

LEMMA CheckContentStep ==
    ASSUME FilesInv, NEW s \in Stager, CheckContent(s)
    PROVE  FilesInv'
PROOF
<1>1. PICK w : w = stager[s]
    OBVIOUS
<1>2. AtStage(w) /\ w.at = "check"
    BY <1>1 DEF FilesInv, CheckContent
<1>3. CASE Step(s, Resume(s))
    BY <1>1, <1>2, <1>3, ResumeIsAtStage, StagerMoves DEF CheckContent
<1>4. CASE \E r \in Readings(Document[w.file]) : Step(s, [w EXCEPT !.at = "batch", !.reading = {r}])
  <2>1. PICK r \in Readings(Document[w.file]) : Step(s, [w EXCEPT !.at = "batch", !.reading = {r}])
      BY <1>4
  <2>2. w.file \in Files
      BY <1>2 DEF AtStage
  <2>3. GoodReading(w.file, r)
      BY <2>1, <2>2, ReadingsAreGood
  <2>4. PICK v : v = [w EXCEPT !.at = "batch", !.reading = {r}]
      OBVIOUS
  <2>5. /\ DOMAIN v = {"at", "file", "reading", "todo", "queue", "done"} /\ v.at = "batch" /\ v.reading = {r}
        /\ v.file = w.file /\ v.todo = w.todo /\ v.queue = w.queue
      BY <1>2, <2>4 DEF AtStage
  <2>6. AtStage(v)
      BY <1>2, <2>2, <2>3, <2>5 DEF AtStage
  <2>7. QED
      BY <2>1, <2>4, <2>5, <2>6, StagerMoves DEF CheckContent
<1>5. QED
    BY <1>1, <1>3, <1>4 DEF CheckContent

LEMMA StagerDiesStep ==
    ASSUME FilesInv, NEW s \in Stager, StagerDies(s)
    PROVE  FilesInv'
    BY AwayIsAtStage, StagerMoves DEF StagerDies

(***************************************************************************)
(* A batch is written by the one who fills it, or its status changes.      *)
(***************************************************************************)
LEMMA BatchChanges ==
    ASSUME FilesInv, NEW f \in Files, NEW b, inbox' = [inbox EXCEPT ![f] = b], BatchOK(b, f)
    PROVE  /\ DOMAIN inbox' = Files /\ inbox'[f] = b /\ \A g \in Files : g # f => inbox'[g] = inbox[g]
           /\ \A g \in Files : BatchOK(inbox'[g], g)
           /\ BatchGoesOn(f) => BatchesGoOn
PROOF
<1>1. DOMAIN inbox' = Files /\ inbox'[f] = b /\ \A g \in Files : g # f => inbox'[g] = inbox[g]
    BY DEF FilesInv
<1>2. \A g \in Files : BatchOK(inbox'[g], g)
    BY <1>1 DEF FilesInv
<1>3. QED
    BY <1>1, <1>2 DEF BatchGoesOn, BatchesGoOn

LEMMA BatchesStay ==
    ASSUME inbox' = inbox
    PROVE  BatchesGoOn
    BY DEF BatchesGoOn, BatchGoesOn

LEMMA InsertBatchStep ==
    ASSUME FilesInv, NEW s \in Stager, InsertBatch(s)
    PROVE  FilesInv' /\ BatchesGoOn
PROOF
<1>1. PICK w : w = stager[s]
    OBVIOUS
<1>2. AtStage(w) /\ w.at = "batch" /\ w.file \in Files /\ w.reading # {}
    BY <1>1 DEF FilesInv, InsertBatch, AtStage
<1>3. PICK f \in Files : f = w.file
    BY <1>2
<1>4. PICK r \in w.reading : r = CHOOSE x \in w.reading : TRUE
    BY <1>2
<1>5. GoodReading(f, r)
    BY <1>2, <1>3 DEF AtStage
<1>6. CASE Step(s, Resume(s)) /\ inbox' = inbox
    BY <1>1, <1>2, <1>6, ResumeIsAtStage, StagerMoves, BatchesStay DEF InsertBatch
<1>7. CASE inbox[f].status = "none" /\ ~(Step(s, Resume(s)) /\ inbox' = inbox)
  <2>1. PICK b : b = [status |-> IF r.lines = {} THEN "error" ELSE "pending_review",
                      ok |-> Crosschecks(r.lines, r.stated), confirm |-> r.method \in {"pdf_text", "pdf_ocr"},
                      lines |-> {}, told |-> r.told, count |-> Cardinality(RowsOf(r.lines))]
      OBVIOUS
  <2>2. PICK v : v = [w EXCEPT !.at = "lines", !.todo = r.lines]
      OBVIOUS
  <2>3. inbox' = [inbox EXCEPT ![f] = b] /\ Step(s, v) /\ folder' = folder
      BY <1>1, <1>3, <1>4, <1>7, <2>1, <2>2 DEF InsertBatch
  <2>4. b.lines = {} /\ b.status \in {"error", "pending_review"} /\ BatchOK(b, f)
    <3>1. /\ DOMAIN b = {"status", "ok", "confirm", "lines", "told", "count"} /\ b.lines = {}
          /\ b.status \in {"error", "pending_review"} /\ b.told = r.told /\ b.count = Cardinality(RowsOf(r.lines))
          /\ b.confirm = (r.method \in {"pdf_text", "pdf_ocr"})
        BY <2>1
    <3>2. QED
        BY <1>5, <3>1 DEF BatchOK, GoodReading, OnePerRow
  <2>5. inbox[f].lines = {}
      BY <1>7 DEF FilesInv, BatchOK
  <2>6. /\ DOMAIN inbox' = Files /\ inbox'[f] = b /\ \A g \in Files : g # f => inbox'[g] = inbox[g]
        /\ \A g \in Files : BatchOK(inbox'[g], g)
        /\ BatchGoesOn(f) => BatchesGoOn
      BY <2>3, <2>4, BatchChanges
  <2>7. /\ DOMAIN v = {"at", "file", "reading", "todo", "queue", "done"} /\ v.at = "lines" /\ v.reading = w.reading
        /\ v.file = f /\ v.todo = r.lines /\ v.queue = w.queue
      BY <1>2, <1>3, <2>2 DEF AtStage
  <2>8. AtStage(v)
      BY <1>2, <1>3, <1>5, <2>7 DEF AtStage, GoodReading
  <2>9. DOMAIN stager' = Stager /\ stager'[s] = v /\ \A t \in Stager : t # s => stager'[t] = stager[t]
      BY <2>3 DEF Step, FilesInv
  <2>10. \A t \in Stager : AtStage(stager'[t])
      BY <2>8, <2>9 DEF FilesInv
  <2>11. \A t \in Stager : stager[t].at = "lines" => stager[t].file # f
      BY <1>7 DEF FilesInv, FillsAlone
  <2>12. ASSUME NEW t \in Stager PROVE FillsAlone(t)'
    <3>1. CASE t = s
        BY <2>4, <2>6, <2>7, <2>9, <2>11, <3>1 DEF FillsAlone
    <3>2. CASE t # s
      <4>1. SUFFICES ASSUME stager[t].at = "lines" PROVE FillsAlone(t)'
          BY <2>9, <3>2 DEF FillsAlone
      <4>2. stager[t].file # f /\ stager[t].file \in Files
          BY <2>11, <4>1 DEF FilesInv, AtStage
      <4>3. FillsAlone(t)
          BY DEF FilesInv
      <4>4. QED
          BY <2>6, <2>7, <2>9, <3>2, <4>1, <4>2, <4>3 DEF FillsAlone
    <3>3. QED
        BY <3>1, <3>2
  <2>13. BatchGoesOn(f)
      BY <1>7, <2>4, <2>5, <2>6 DEF BatchGoesOn
  <2>14. QED
      BY <2>3, <2>6, <2>9, <2>10, <2>12, <2>13 DEF FilesInv
<1>8. QED
    BY <1>1, <1>3, <1>6, <1>7 DEF InsertBatch, AdmitsFile

LEMMA FirstLine ==
    ASSUME NEW f \in Files, NEW todo, todo # {}, \A x \in todo : x.row \in DOMAIN Document[f].rows
    PROVE  (CHOOSE x \in todo : \A y \in todo : x.row <= y.row) \in todo
PROOF
<1>1. \A l \in todo : l.row \in Nat
    BY StatementInboxAssumption DEF Files
<1>2. PICK rows \in SUBSET Nat : rows = {l.row : l \in todo}
    BY <1>1
<1>3. rows # {}
    BY <1>2
<1>4. \E n \in rows : \A k \in rows : n <= k
    BY <1>3, FirstOfSome
<1>5. \E x \in todo : \A y \in todo : x.row <= y.row
    BY <1>2, <1>4
<1>6. QED
    BY <1>5

LEMMA InsertLinesStep ==
    ASSUME FilesInv, NEW s \in Stager, InsertLines(s)
    PROVE  FilesInv' /\ BatchesGoOn
PROOF
<1>1. PICK w : w = stager[s]
    OBVIOUS
<1>2. AtStage(w) /\ w.at = "lines" /\ w.file \in Files
    BY <1>1 DEF FilesInv, InsertLines, AtStage
<1>3. PICK f \in Files : f = w.file
    BY <1>2
<1>4. CASE Step(s, Resume(s)) /\ inbox' = inbox
    BY <1>1, <1>2, <1>4, ResumeIsAtStage, StagerMoves, BatchesStay DEF InsertLines
<1>5. CASE ~(Step(s, Resume(s)) /\ inbox' = inbox)
  <2>1. PICK todo : todo = w.todo /\ OnePerRow(todo) /\ \A x \in todo : LineOK(f, x)
      BY <1>2, <1>3 DEF AtStage
  <2>2. PICK l : l = CHOOSE x \in todo : \A y \in todo : x.row <= y.row
      OBVIOUS
  <2>3. PICK rest : rest = todo \ {l}
      OBVIOUS
  <2>4. PICK v : v = [w EXCEPT !.todo = rest]
      OBVIOUS
  <2>5. PICK lines : lines = inbox[f].lines \cup {[of |-> s, row |-> l.row, line |-> l]}
      OBVIOUS
  <2>6. PICK b : b = [inbox[f] EXCEPT !.lines = lines]
      OBVIOUS
  <2>7. todo # {} /\ inbox' = [inbox EXCEPT ![f].lines = lines] /\ Step(s, v) /\ folder' = folder
      BY <1>1, <1>3, <1>5, <2>1, <2>2, <2>3, <2>4, <2>5 DEF InsertLines
  <2>8. inbox' = [inbox EXCEPT ![f] = b]
      BY <2>6, <2>7
  <2>9. l \in todo
      BY <2>1, <2>2, <2>7, FirstLine DEF LineOK
  <2>10. /\ inbox[f].status # "none" /\ \A m \in inbox[f].lines, x \in todo : m.row # x.row
         /\ \A t \in Stager \ {s} : stager[t].at = "lines" => stager[t].file # f
      BY <1>1, <1>2, <1>3, <2>1 DEF FilesInv, FillsAlone
  <2>11. BatchOK(inbox[f], f)
      BY DEF FilesInv
  <2>12. /\ DOMAIN b = {"status", "ok", "confirm", "lines", "told", "count"} /\ b.status = inbox[f].status /\ b.lines = lines
         /\ b.told = inbox[f].told /\ b.count = inbox[f].count /\ b.confirm = inbox[f].confirm
      BY <2>6, <2>11 DEF BatchOK
  <2>13. BatchOK(b, f)
    <3>1. PICK new : new = [of |-> s, row |-> l.row, line |-> l]
        OBVIOUS
    <3>2. new.row = l.row /\ new.line = l /\ LineOK(f, l) /\ lines = inbox[f].lines \cup {new}
        BY <2>1, <2>5, <2>9, <3>1
    <3>3. \A m \in lines : m.row = m.line.row /\ LineOK(f, m.line)
        BY <2>11, <3>2 DEF BatchOK
    <3>4. OnePerRow(lines)
        BY <2>9, <2>10, <2>11, <3>2 DEF BatchOK, OnePerRow
    <3>5. QED
        BY <2>10, <2>11, <2>12, <3>3, <3>4 DEF BatchOK
  <2>14. /\ DOMAIN inbox' = Files /\ inbox'[f] = b /\ \A g \in Files : g # f => inbox'[g] = inbox[g]
         /\ \A g \in Files : BatchOK(inbox'[g], g)
         /\ BatchGoesOn(f) => BatchesGoOn
      BY <2>8, <2>13, BatchChanges
  <2>15. /\ DOMAIN v = {"at", "file", "reading", "todo", "queue", "done"} /\ v.at = "lines" /\ v.reading = w.reading
         /\ v.file = f /\ v.todo = rest /\ v.queue = w.queue
      BY <1>2, <1>3, <2>4 DEF AtStage
  <2>16. AtStage(v)
      BY <1>2, <1>3, <2>1, <2>3, <2>15 DEF AtStage, OnePerRow
  <2>17. DOMAIN stager' = Stager /\ stager'[s] = v /\ \A t \in Stager : t # s => stager'[t] = stager[t]
      BY <2>7 DEF Step, FilesInv
  <2>18. \A t \in Stager : AtStage(stager'[t])
      BY <2>16, <2>17 DEF FilesInv
  <2>19. ASSUME NEW t \in Stager PROVE FillsAlone(t)'
    <3>1. CASE t = s
      <4>1. \A m \in lines, x \in rest : m.row # x.row
          BY <2>1, <2>3, <2>5, <2>9, <2>10 DEF OnePerRow
      <4>2. QED
          BY <2>10, <2>12, <2>14, <2>15, <2>17, <3>1, <4>1 DEF FillsAlone
    <3>2. CASE t # s
      <4>1. SUFFICES ASSUME stager[t].at = "lines" PROVE FillsAlone(t)'
          BY <2>17, <3>2 DEF FillsAlone
      <4>2. stager[t].file # f /\ stager[t].file \in Files
          BY <2>10, <3>2, <4>1 DEF FilesInv, AtStage
      <4>3. FillsAlone(t)
          BY DEF FilesInv
      <4>4. QED
          BY <2>14, <2>15, <2>17, <3>2, <4>1, <4>2, <4>3 DEF FillsAlone
    <3>3. QED
        BY <3>1, <3>2
  <2>20. BatchGoesOn(f)
      BY <2>5, <2>12, <2>14 DEF BatchGoesOn
  <2>21. QED
      BY <2>7, <2>14, <2>17, <2>18, <2>19, <2>20 DEF FilesInv
<1>6. QED
    BY <1>4, <1>5

\* The batch keeps its stager and its lines, whatever becomes of its status.
LEMMA StatusChanges ==
    ASSUME FilesInv, NEW f \in Files, NEW status, inbox[f].status # "none", status # "none",
           inbox' = [inbox EXCEPT ![f].status = status], stager' = stager, folder' = folder
    PROVE  /\ FilesInv' /\ inbox'[f].status = status /\ \A g \in Files : inbox'[g].lines = inbox[g].lines
           /\ \A g \in Files : g # f => inbox'[g] = inbox[g]
PROOF
<1>1. PICK b : b = [inbox[f] EXCEPT !.status = status]
    OBVIOUS
<1>2. inbox' = [inbox EXCEPT ![f] = b]
    BY <1>1
<1>3. BatchOK(inbox[f], f)
    BY DEF FilesInv
<1>4. /\ DOMAIN b = {"status", "ok", "confirm", "lines", "told", "count"} /\ b.status = status /\ b.lines = inbox[f].lines
      /\ b.told = inbox[f].told /\ b.count = inbox[f].count /\ b.confirm = inbox[f].confirm
    BY <1>1, <1>3 DEF BatchOK
<1>5. BatchOK(b, f)
    BY <1>3, <1>4 DEF BatchOK
<1>6. /\ DOMAIN inbox' = Files /\ inbox'[f] = b /\ \A g \in Files : g # f => inbox'[g] = inbox[g]
      /\ \A g \in Files : BatchOK(inbox'[g], g)
    BY <1>2, <1>5, BatchChanges
<1>7. \A g \in Files : inbox'[g].lines = inbox[g].lines /\ (inbox[g].status # "none" => inbox'[g].status # "none")
    BY <1>4, <1>6
<1>8. ASSUME NEW t \in Stager PROVE FillsAlone(t)'
  <2>1. FillsAlone(t) /\ (stager[t].at = "lines" => stager[t].file \in Files)
      BY DEF FilesInv, AtStage
  <2>2. QED
      BY <1>7, <2>1 DEF FillsAlone
<1>9. FilesInv'
    BY <1>6, <1>8 DEF FilesInv
<1>10. QED
    BY <1>4, <1>6, <1>7, <1>9

LEMMA RejectBatchStep ==
    ASSUME FilesInv, NEW f \in Files, RejectBatch(f)
    PROVE  FilesInv' /\ BatchesGoOn
PROOF
<1>1. PICK status : status = "rejected"
    OBVIOUS
<1>2. inbox[f].status # "none" /\ inbox' = [inbox EXCEPT ![f].status = status] /\ status # "none"
    BY <1>1 DEF RejectBatch
<1>3. folder' = folder /\ stager' = stager
    BY DEF RejectBatch
<1>4. /\ FilesInv' /\ inbox'[f].status = status /\ \A g \in Files : inbox'[g].lines = inbox[g].lines
      /\ \A g \in Files : g # f => inbox'[g] = inbox[g]
    BY <1>2, <1>3, StatusChanges
<1>5. QED
    BY <1>1, <1>2, <1>4 DEF BatchesGoOn, BatchGoesOn

LEMMA FilesStay ==
    ASSUME FilesInv, folder' \subseteq Files, inbox' = inbox, stager' = stager
    PROVE  FilesInv'
PROOF
<1>1. \A s \in Stager : FillsAlone(s)'
    BY DEF FilesInv, FillsAlone
<1>2. QED
    BY <1>1 DEF FilesInv

(***************************************************************************)
(* The approvals of a batch, side by side or one after the other.          *)
(***************************************************************************)
LEMMA ApprovalFiles ==
    ASSUME ApprovalsInv
    PROVE  \A n \in DOMAIN approvals : approvals[n].file \in Files /\ approvals[n].after = {}
PROOF
<1>1. ASSUME NEW n \in DOMAIN approvals PROVE approvals[n] \in Approval
    BY DEF ApprovalsInv
<1>2. ASSUME NEW x \in Approval PROVE x.file \in Files /\ x.after = {}
    BY DEF Approval
<1>3. QED
    BY <1>1, <1>2

LEMMA ApprovalsStay ==
    ASSUME ApprovalsInv, BatchesGoOn, UNCHANGED Approving
    PROVE  ApprovalsInv'
PROOF
<1>1. paid' = paid /\ approver' = approver /\ approvals' = approvals
    BY DEF Approving
<1>2. \A n \in DOMAIN approvals : ApprovalOK(n)'
    BY <1>1, ApprovalFiles DEF ApprovalsInv, ApprovalOK, BatchesGoOn, BatchGoesOn
<1>3. ASSUME NEW a \in Approvers PROVE AtApproval(approver[a])'
  <2>1. AtApproval(approver[a]) /\ \A n \in DOMAIN approvals : approvals[n].file \in Files
      BY ApprovalFiles DEF ApprovalsInv
  <2>2. QED
      BY <1>1, <2>1 DEF AtApproval, BatchesGoOn, BatchGoesOn
<1>4. ASSUME NEW t \in paid PROVE PaidIsStaged(t)'
  <2>1. PaidIsStaged(t) /\ t.file \in Files
      BY ApprovalFiles DEF ApprovalsInv, PaidIsStaged
  <2>2. QED
      BY <1>1, <2>1 DEF PaidIsStaged, BatchesGoOn, BatchGoesOn
<1>5. CommittedPays'
    BY <1>1 DEF ApprovalsInv, CommittedPays, BatchesGoOn, BatchGoesOn
<1>6. QED
    BY <1>1, <1>2, <1>3, <1>4, <1>5 DEF ApprovalsInv

LEMMA ApproverMoves ==
    ASSUME ApprovalsInv, NEW a \in Approvers, NEW w, ApprovalAt(a, w), inbox' = inbox, paid \subseteq paid',
           approvals' = approvals, \A t \in paid' : PaidIsStaged(t)', AtApproval(w)'
    PROVE  ApprovalsInv'
PROOF
<1>1. DOMAIN approver' = Approvers /\ approver'[a] = w /\ \A b \in Approvers : b # a => approver'[b] = approver[b]
    BY DEF ApprovalAt, ApprovalsInv
<1>2. ASSUME NEW b \in Approvers PROVE AtApproval(approver[b])'
  <2>1. CASE b = a
      BY <1>1, <2>1 DEF AtApproval
  <2>2. CASE b # a
    <3>1. AtApproval(approver[b]) /\ approver'[b] = approver[b]
        BY <1>1, <2>2 DEF ApprovalsInv
    <3>2. QED
        BY <3>1 DEF AtApproval
  <2>3. QED
      BY <2>1, <2>2
<1>3. \A n \in DOMAIN approvals : ApprovalOK(n)'
    BY DEF ApprovalsInv, ApprovalOK
<1>4. CommittedPays'
    BY DEF ApprovalsInv, CommittedPays
<1>5. QED
    BY <1>1, <1>2, <1>3, <1>4 DEF ApprovalsInv

LEMMA StartApprovalStep ==
    ASSUME FilesInv, ApprovalsInv, NEW a \in Approvers, NEW f \in Files, NEW confirmed \in BOOLEAN,
           StartApproval(a, f, confirmed)
    PROVE  ApprovalsInv'
PROOF
<1>1. PICK n \in Nat : n = Len(approvals) /\ DOMAIN approvals = 1..n
    BY DEF ApprovalsInv
<1>2. inbox[f].status = "pending_review" /\ (inbox[f].confirm => confirmed)
    BY DEF StartApproval, Approvable
<1>3. EndedOf(f) = {}
    BY <1>2 DEF EndedOf, ApprovalsInv, ApprovalOK
<1>4. PICK new : new = [file |-> f, confirmed |-> confirmed, ended |-> FALSE, after |-> {}]
    OBVIOUS
<1>5. PICK w : w = [NoApproval EXCEPT !.at = "read", !.file = f, !.turn = n + 1]
    OBVIOUS
<1>6. approvals' = Append(approvals, new) /\ inbox' = inbox /\ paid' = paid /\ approver' = [approver EXCEPT ![a] = w]
    BY <1>1, <1>3, <1>4, <1>5 DEF StartApproval, ApprovalAt
<1>7. new \in Approval
    BY <1>4 DEF Approval
<1>8. /\ approvals' \in Seq(Approval) /\ DOMAIN approvals' = 1..(n + 1) /\ approvals'[n + 1] = new
      /\ \A k \in DOMAIN approvals : k \in DOMAIN approvals' /\ approvals'[k] = approvals[k]
    BY <1>1, <1>6, <1>7 DEF ApprovalsInv
<1>9. ASSUME NEW k \in DOMAIN approvals' PROVE ApprovalOK(k)'
  <2>1. CASE k = n + 1
    <3>1. inbox[f].confirm => confirmed = TRUE
        BY <1>2
    <3>2. Document[f].suffix = "pdf" => inbox[f].confirm
        BY <1>2 DEF FilesInv, BatchOK
    <3>3. approvals'[k].file = f /\ approvals'[k].ended = FALSE /\ approvals'[k].confirmed = confirmed
        BY <1>4, <1>8, <2>1
    <3>4. QED
        BY <1>2, <1>6, <3>1, <3>2, <3>3 DEF ApprovalOK
  <2>2. CASE k # n + 1
    <3>1. k \in DOMAIN approvals
        BY <1>1, <1>8, <2>2
    <3>2. ApprovalOK(k) /\ approvals'[k] = approvals[k]
        BY <1>8, <3>1 DEF ApprovalsInv
    <3>3. QED
        BY <1>6, <3>2 DEF ApprovalOK
  <2>3. QED
      BY <2>1, <2>2
<1>10. DOMAIN approver' = Approvers /\ approver'[a] = w /\ \A b \in Approvers : b # a => approver'[b] = approver[b]
    BY <1>6 DEF ApprovalsInv
<1>11. ASSUME NEW b \in Approvers PROVE AtApproval(approver[b])'
  <2>1. CASE b = a
    <3>1. /\ DOMAIN w = {"at", "file", "todo", "got", "turn"} /\ w.turn = n + 1 /\ w.file = f
          /\ w.todo = {} /\ w.got = FALSE
        BY <1>5 DEF NoApproval
    <3>2. n + 1 \in DOMAIN approvals' /\ approvals'[n + 1].file = f
        BY <1>1, <1>4, <1>8
    <3>3. QED
        BY <1>10, <2>1, <3>1, <3>2 DEF AtApproval
  <2>2. CASE b # a
    <3>1. AtApproval(approver[b]) /\ approver'[b] = approver[b]
        BY <1>10, <2>2 DEF ApprovalsInv
    <3>2. QED
        BY <1>6, <1>8, <3>1 DEF AtApproval
  <2>3. QED
      BY <2>1, <2>2
<1>12. ASSUME NEW t \in paid PROVE PaidIsStaged(t)'
  <2>1. PaidIsStaged(t)
      BY DEF ApprovalsInv
  <2>2. QED
      BY <1>6, <1>8, <2>1 DEF PaidIsStaged
<1>13. CommittedPays'
    BY <1>6 DEF ApprovalsInv, CommittedPays
<1>14. QED
    BY <1>6, <1>8, <1>9, <1>10, <1>11, <1>12, <1>13 DEF ApprovalsInv

LEMMA NoApprovalIsOne == \A a \in Approvers : AtApproval(NoApproval)'
    BY DEF AtApproval, NoApproval

LEMMA ReadStagedStep ==
    ASSUME FilesInv, ApprovalsInv, NEW a \in Approvers, ReadStaged(a)
    PROVE  ApprovalsInv'
PROOF
<1>1. PICK me : me = approver[a]
    OBVIOUS
<1>2. PICK w : w = [me EXCEPT !.at = "lines", !.todo = inbox[me.file].lines]
    OBVIOUS
<1>3. /\ inbox' = inbox /\ paid' = paid /\ approvals' = approvals /\ me.at = "read"
      /\ ApprovalAt(a, NoApproval) \/ ApprovalAt(a, w)
    BY <1>1, <1>2 DEF ReadStaged
<1>4. AtApproval(me) /\ \A t \in paid : PaidIsStaged(t)
    BY <1>1 DEF ApprovalsInv
<1>5. /\ DOMAIN w = {"at", "file", "todo", "got", "turn"} /\ w.turn = me.turn /\ w.file = me.file
      /\ w.todo = inbox[me.file].lines /\ w.got = me.got
    BY <1>2, <1>4 DEF AtApproval
<1>6. AtApproval(w)'
    BY <1>3, <1>4, <1>5 DEF AtApproval
<1>7. \A t \in paid' : PaidIsStaged(t)'
    BY <1>3, <1>4 DEF PaidIsStaged
<1>8. QED
    BY <1>3, <1>6, <1>7, NoApprovalIsOne, ApproverMoves

LEMMA CommitLineStep ==
    ASSUME FilesInv, ApprovalsInv, NEW a \in Approvers, CommitLine(a)
    PROVE  ApprovalsInv'
PROOF
<1>1. PICK me : me = approver[a]
    OBVIOUS
<1>2. AtApproval(me) /\ me.at = "lines" /\ me.todo # {}
    BY <1>1 DEF ApprovalsInv, CommitLine
<1>3. PICK f \in Files : f = me.file
    BY <1>2, ApprovalFiles DEF AtApproval
<1>4. PICK l : l = CHOOSE x \in me.todo : \A y \in me.todo : x.row <= y.row
    OBVIOUS
<1>5. l \in me.todo /\ l \in inbox[f].lines
  <2>1. \A x \in me.todo : x \in inbox[f].lines
      BY <1>2, <1>3 DEF AtApproval
  <2>2. \A x \in me.todo : x.row \in DOMAIN Document[f].rows
      BY <2>1 DEF FilesInv, BatchOK, LineOK
  <2>3. QED
      BY <1>2, <1>4, <2>1, <2>2, FirstLine
<1>6. PICK new : new = [file |-> f, of |-> l.of, line |-> l.line, by |-> me.turn]
    OBVIOUS
<1>7. PICK rest : rest = me.todo \ {l}
    OBVIOUS
<1>8. PICK stored \in BOOLEAN, heard \in BOOLEAN :
          /\ paid' = IF stored THEN paid \cup {new} ELSE paid
          /\ ApprovalAt(a, [me EXCEPT !.todo = rest, !.got = me.got \/ (stored /\ heard)])
    BY <1>1, <1>3, <1>4, <1>6, <1>7 DEF CommitLine
<1>9. PICK got : got = (me.got \/ (stored /\ heard))
    OBVIOUS
<1>10. PICK w : w = [me EXCEPT !.todo = rest, !.got = got]
    OBVIOUS
<1>11. ApprovalAt(a, w) /\ inbox' = inbox /\ approvals' = approvals /\ paid \subseteq paid'
    BY <1>8, <1>9, <1>10 DEF CommitLine
<1>12. /\ DOMAIN w = {"at", "file", "todo", "got", "turn"} /\ w.turn = me.turn /\ w.file = f
       /\ w.todo = rest /\ w.got = got
    BY <1>2, <1>3, <1>10 DEF AtApproval
<1>13. new.file = f /\ new.of = l.of /\ new.line = l.line /\ new.by = me.turn
    BY <1>6
<1>14. ASSUME NEW t \in paid' PROVE PaidIsStaged(t)'
  <2>1. CASE t \in paid
    <3>1. PaidIsStaged(t)
        BY <2>1 DEF ApprovalsInv
    <3>2. QED
        BY <1>11, <3>1 DEF PaidIsStaged
  <2>2. CASE t \notin paid
    <3>1. t = new
        BY <1>8, <2>2
    <3>2. me.turn \in DOMAIN approvals /\ approvals[me.turn].file = f
        BY <1>2, <1>3 DEF AtApproval
    <3>3. \E m \in inbox[f].lines : t = [file |-> t.file, of |-> m.of, line |-> m.line, by |-> t.by]
        BY <1>5, <1>6, <1>13, <3>1
    <3>4. QED
        BY <1>11, <1>13, <3>1, <3>2, <3>3 DEF PaidIsStaged
  <2>3. QED
      BY <2>1, <2>2
<1>15. AtApproval(w)'
  <2>1. w.turn \in DOMAIN approvals' /\ approvals'[w.turn].file = w.file /\ w.todo \subseteq inbox'[w.file].lines
      BY <1>2, <1>3, <1>7, <1>11, <1>12 DEF AtApproval
  <2>2. w.got => \E t \in paid' : t.file = w.file
    <3>1. CASE me.got
      <4>1. \E t \in paid : t.file = f
          BY <1>2, <1>3, <3>1 DEF AtApproval
      <4>2. QED
          BY <1>11, <1>12, <4>1
    <3>2. CASE stored
        BY <1>8, <1>12, <1>13, <3>2
    <3>3. QED
        BY <1>9, <1>12, <3>1, <3>2
  <2>3. QED
      BY <1>12, <2>1, <2>2 DEF AtApproval
<1>16. QED
    BY <1>11, <1>14, <1>15, ApproverMoves

LEMMA FinishApprovalStep ==
    ASSUME FilesInv, ApprovalsInv, NEW a \in Approvers, FinishApproval(a)
    PROVE  FilesInv' /\ ApprovalsInv'
PROOF
<1>1. PICK me : me = approver[a]
    OBVIOUS
<1>2. AtApproval(me) /\ me.at = "lines" /\ me.turn \in DOMAIN approvals /\ approvals[me.turn].file = me.file
    BY <1>1 DEF ApprovalsInv, AtApproval, FinishApproval
<1>3. PICK f \in Files : f = me.file
    BY <1>2, ApprovalFiles
<1>4. PICK status : status = IF me.got THEN "committed" ELSE "error"
    OBVIOUS
<1>5. /\ inbox' = [inbox EXCEPT ![f].status = status] /\ approvals' = [approvals EXCEPT ![me.turn].ended = TRUE]
      /\ approver' = [approver EXCEPT ![a] = NoApproval]
      /\ folder' = folder /\ paid' = paid /\ stager' = stager
    BY <1>1, <1>3, <1>4 DEF FinishApproval, ApprovalAt
<1>6. inbox[f].status # "none" /\ status \in {"committed", "error"}
    BY <1>2, <1>3, <1>4 DEF ApprovalsInv, ApprovalOK
<1>7. /\ FilesInv' /\ inbox'[f].status = status /\ \A g \in Files : inbox'[g].lines = inbox[g].lines
      /\ \A g \in Files : g # f => inbox'[g] = inbox[g]
    BY <1>5, <1>6, StatusChanges
<1>8. PICK old : old = approvals[me.turn]
    OBVIOUS
<1>9. PICK new : new = [old EXCEPT !.ended = TRUE]
    OBVIOUS
<1>10. old \in Approval
    BY <1>2, <1>8 DEF ApprovalsInv
<1>11. new \in Approval /\ new.file = old.file /\ new.confirmed = old.confirmed
    BY <1>9, <1>10 DEF Approval
<1>12. approvals' = [approvals EXCEPT ![me.turn] = new]
    BY <1>5, <1>8, <1>9
<1>13. /\ approvals' \in Seq(Approval) /\ DOMAIN approvals' = DOMAIN approvals /\ approvals'[me.turn] = new
       /\ \A n \in DOMAIN approvals : n # me.turn => approvals'[n] = approvals[n]
    BY <1>2, <1>11, <1>12 DEF ApprovalsInv
<1>14. \A n \in DOMAIN approvals : approvals'[n].file = approvals[n].file /\ approvals'[n].confirmed = approvals[n].confirmed
    BY <1>8, <1>11, <1>13
<1>15. ASSUME NEW n \in DOMAIN approvals PROVE ApprovalOK(n)'
  <2>1. ApprovalOK(n) /\ approvals[n].file \in Files
      BY ApprovalFiles DEF ApprovalsInv
  <2>2. CASE approvals[n].file = f
      BY <1>6, <1>7, <1>14, <2>1, <2>2 DEF ApprovalOK
  <2>3. CASE approvals[n].file # f
    <3>1. n # me.turn
        BY <1>2, <1>3, <2>3
    <3>2. approvals'[n] = approvals[n] /\ inbox'[approvals[n].file] = inbox[approvals[n].file]
        BY <1>7, <1>13, <2>1, <2>3, <3>1
    <3>3. QED
        BY <2>1, <3>2 DEF ApprovalOK
  <2>4. QED
      BY <2>2, <2>3
<1>16. DOMAIN approver' = Approvers /\ approver'[a] = NoApproval /\ \A b \in Approvers : b # a => approver'[b] = approver[b]
    BY <1>5 DEF ApprovalsInv
<1>17. ASSUME NEW b \in Approvers PROVE AtApproval(approver[b])'
  <2>1. CASE b = a
      BY <1>16, <2>1 DEF AtApproval, NoApproval
  <2>2. CASE b # a
    <3>1. AtApproval(approver[b]) /\ approver'[b] = approver[b] /\ \A n \in DOMAIN approvals : approvals[n].file \in Files
        BY <1>16, <2>2, ApprovalFiles DEF ApprovalsInv
    <3>2. QED
        BY <1>5, <1>7, <1>13, <1>14, <3>1 DEF AtApproval
  <2>3. QED
      BY <2>1, <2>2
<1>18. ASSUME NEW t \in paid PROVE PaidIsStaged(t)'
  <2>1. PaidIsStaged(t) /\ t.file \in Files
      BY ApprovalFiles DEF ApprovalsInv, PaidIsStaged
  <2>2. QED
      BY <1>5, <1>7, <1>13, <1>14, <2>1 DEF PaidIsStaged
<1>19. CommittedPays'
  <2>1. ASSUME NEW g \in Files, inbox'[g].status = "committed" PROVE \E t \in paid : t.file = g
    <3>1. CASE g = f
      <4>1. me.got
          BY <1>4, <1>7, <2>1, <3>1
      <4>2. QED
          BY <1>2, <1>3, <3>1, <4>1 DEF AtApproval
    <3>2. CASE g # f
        BY <1>7, <2>1, <3>2 DEF ApprovalsInv, CommittedPays
    <3>3. QED
        BY <3>1, <3>2
  <2>2. QED
      BY <1>5, <2>1 DEF CommittedPays
<1>20. QED
    BY <1>5, <1>7, <1>13, <1>15, <1>16, <1>17, <1>18, <1>19 DEF ApprovalsInv

LEMMA ApprovalBreaksStep ==
    ASSUME ApprovalsInv, NEW a \in Approvers, ApprovalBreaks(a)
    PROVE  ApprovalsInv'
PROOF
<1>1. ApprovalAt(a, NoApproval) /\ inbox' = inbox /\ paid' = paid /\ approvals' = approvals
    BY DEF ApprovalBreaks
<1>2. \A t \in paid' : PaidIsStaged(t)'
    BY <1>1 DEF ApprovalsInv, PaidIsStaged
<1>3. QED
    BY <1>1, <1>2, NoApprovalIsOne, ApproverMoves

LEMMA FilesStep ==
    ASSUME FilesInv, ApprovalsInv, [InboxNext]_inboxVars
    PROVE  FilesInv' /\ ApprovalsInv'
PROOF
<1>1. ASSUME NEW f \in Files, DropFile(f) PROVE FilesInv' /\ ApprovalsInv'
    BY <1>1, FilesStay, BatchesStay, ApprovalsStay DEF DropFile, FilesInv
<1>2. CASE TimePasses \/ RowMade \/ Watchdog \/ UNCHANGED inboxVars
  <2>1. folder' = folder /\ inbox' = inbox /\ stager' = stager /\ UNCHANGED Approving
      BY <1>2 DEF TimePasses, RowMade, Watchdog, inboxVars, Approving
  <2>2. QED
      BY <2>1, FilesStay, BatchesStay, ApprovalsStay DEF FilesInv
<1>3. ASSUME NEW s \in Uploader, NEW f \in Files, StartUpload(s, f) PROVE FilesInv' /\ ApprovalsInv'
    BY <1>3, StartUploadStep, BatchesStay, ApprovalsStay DEF StartUpload
<1>4. CASE StartPoll
    BY <1>4, StartPollStep, BatchesStay, ApprovalsStay DEF StartPoll
<1>5. CASE NextEntry
  <2>1. inbox' = inbox /\ UNCHANGED Approving
      BY <1>5 DEF NextEntry
  <2>2. QED
      BY <1>5, <2>1, NextEntryStep, BatchesStay, ApprovalsStay
<1>6. ASSUME NEW s \in Stager, CheckContent(s) PROVE FilesInv' /\ ApprovalsInv'
    BY <1>6, CheckContentStep, BatchesStay, ApprovalsStay DEF CheckContent
<1>7. ASSUME NEW s \in Stager, StagerDies(s) PROVE FilesInv' /\ ApprovalsInv'
    BY <1>7, StagerDiesStep, BatchesStay, ApprovalsStay DEF StagerDies
<1>8. ASSUME NEW s \in Stager, InsertBatch(s) PROVE FilesInv' /\ ApprovalsInv'
    BY <1>8, InsertBatchStep, ApprovalsStay DEF InsertBatch
<1>9. ASSUME NEW s \in Stager, InsertLines(s) PROVE FilesInv' /\ ApprovalsInv'
    BY <1>9, InsertLinesStep, ApprovalsStay DEF InsertLines
<1>10. ASSUME NEW f \in Files, RejectBatch(f) PROVE FilesInv' /\ ApprovalsInv'
    BY <1>10, RejectBatchStep, ApprovalsStay DEF RejectBatch
<1>11. ASSUME NEW a \in Approvers, NEW f \in Files, NEW confirmed \in BOOLEAN, StartApproval(a, f, confirmed)
       PROVE  FilesInv' /\ ApprovalsInv'
    BY <1>11, StartApprovalStep, FilesStay DEF StartApproval, FilesInv
<1>12. ASSUME NEW a \in Approvers, ReadStaged(a) PROVE FilesInv' /\ ApprovalsInv'
    BY <1>12, ReadStagedStep, FilesStay DEF ReadStaged, FilesInv
<1>13. ASSUME NEW a \in Approvers, CommitLine(a) PROVE FilesInv' /\ ApprovalsInv'
    BY <1>13, CommitLineStep, FilesStay DEF CommitLine, FilesInv
<1>14. ASSUME NEW a \in Approvers, FinishApproval(a) PROVE FilesInv' /\ ApprovalsInv'
    BY <1>14, FinishApprovalStep
<1>15. ASSUME NEW a \in Approvers, ApprovalBreaks(a) PROVE FilesInv' /\ ApprovalsInv'
    BY <1>15, ApprovalBreaksStep, FilesStay DEF ApprovalBreaks, FilesInv
<1>16. CASE InboxNext
    BY <1>1, <1>2, <1>3, <1>4, <1>5, <1>6, <1>7, <1>8, <1>9, <1>10, <1>11, <1>12, <1>13, <1>14, <1>15, <1>16 DEF InboxNext
<1>17. QED
    BY <1>2, <1>16

(***************************************************************************)
(* The watchdog's verdict is of its own time, and the seed is not later.   *)
(***************************************************************************)
LEMMA ClocksStep ==
    ASSUME ClocksInv, [InboxNext]_inboxVars
    PROVE  ClocksInv'
PROOF
<1>1. CASE UNCHANGED Clocks
    BY <1>1 DEF ClocksInv, SilenceMeansSeeded, Clocks
<1>2. CASE TimePasses
  <2>1. time' = time + 1 /\ verdict' = verdict
      BY <1>2 DEF TimePasses
  <2>2. fresh' = fresh \/ fresh' = [fresh EXCEPT !.seed = time']
      BY <1>2 DEF TimePasses
  <2>3. DOMAIN fresh' = {"seed", "made"} /\ fresh'.seed \in Nat /\ fresh'.made \in Nat
      BY <2>1, <2>2 DEF ClocksInv
  <2>4. time \in Nat /\ verdict.at \in Nat /\ verdict.at <= time
      BY DEF ClocksInv
  <2>5. time' \in Nat /\ verdict'.at \in Nat /\ verdict'.at <= time' /\ verdict'.at # time'
      BY <2>1, <2>4
  <2>6. QED
      BY <2>3, <2>5 DEF ClocksInv, SilenceMeansSeeded
<1>3. CASE RowMade
  <2>1. /\ DOMAIN fresh' = {"seed", "made"} /\ fresh'.seed = fresh.seed /\ fresh'.made = time
        /\ time' = time /\ verdict' = verdict /\ fresh.made # time
      BY <1>3 DEF RowMade, ClocksInv
  <2>2. QED
      BY <2>1 DEF ClocksInv, SilenceMeansSeeded, StaleAfter
<1>4. CASE Watchdog
  <2>1. PICK readable \in BOOLEAN : verdict' = [at |-> time, problems |-> Problems(readable)]
      BY <1>4 DEF Watchdog
  <2>2. time' = time /\ fresh' = fresh
      BY <1>4 DEF Watchdog
  <2>3. verdict'.at = time /\ verdict'.problems = Problems(readable)
      BY <2>1
  <2>4. ASSUME Problems(readable) = {}, fresh.made <= fresh.seed PROVE time - fresh.seed <= StaleAfter
    <3>1. Newest = fresh.seed
        BY <2>4 DEF Newest, Max, ClocksInv
    <3>2. ~(time - Newest > StaleAfter)
        BY <2>4 DEF Problems
    <3>3. QED
        BY <3>1, <3>2 DEF ClocksInv, StaleAfter
  <2>5. QED
      BY <2>2, <2>3, <2>4 DEF ClocksInv, SilenceMeansSeeded
<1>5. QED
    BY <1>1, <1>2, <1>3, <1>4 DEF InboxNext, inboxVars, Clocks, DropFile, RejectBatch, StartApproval, ReadStaged, CommitLine,
       FinishApproval, ApprovalBreaks, StartUpload, CheckContent, InsertBatch, InsertLines, StagerDies, StartPoll, NextEntry

LEMMA FilesAreSafe ==
    ASSUME FilesInv, ApprovalsInv
    PROVE  PaidAsStated /\ PaidOnce /\ CommittedPays /\ NothingDroppedSilently
PROOF
<1>1. ASSUME NEW t \in paid
      PROVE  /\ t.file \in Files /\ t.by \in DOMAIN approvals /\ approvals[t.by].file = t.file
             /\ \E l \in inbox[t.file].lines : t = [file |-> t.file, of |-> l.of, line |-> l.line, by |-> t.by]
    BY <1>1, ApprovalFiles DEF ApprovalsInv, PaidIsStaged
<1>2. ASSUME NEW t \in paid
      PROVE  \/ t.line.amount = Amount(Document[t.file].rows[t.line.row].month)
             \/ Document[t.file].suffix = "pdf" /\ approvals[t.by].confirmed
  <2>1. LineOK(t.file, t.line)
      BY <1>1, <1>2 DEF FilesInv, BatchOK
  <2>2. Document[t.file].suffix = "pdf" => approvals[t.by].confirmed
      BY <1>1, <1>2 DEF ApprovalsInv, ApprovalOK
  <2>3. QED
      BY <2>1, <2>2 DEF LineOK
<1>3. ASSUME NEW t \in paid, NEW u \in paid, t.file = u.file, t.line.row = u.line.row
      PROVE  t = u \/ (t.by # u.by /\ t.by \notin approvals[u.by].after)
  <2>1. approvals[u.by].after = {}
      BY <1>1, ApprovalFiles
  <2>2. ASSUME t.by = u.by PROVE t = u
    <3>1. PICK f \in Files : f = t.file /\ f = u.file
        BY <1>1, <1>3
    <3>2. PICK l \in inbox[f].lines : t = [file |-> f, of |-> l.of, line |-> l.line, by |-> t.by]
        BY <1>1, <3>1
    <3>3. PICK m \in inbox[f].lines : u = [file |-> f, of |-> m.of, line |-> m.line, by |-> u.by]
        BY <1>1, <3>1
    <3>4. t.line = l.line /\ u.line = m.line
        BY <3>2, <3>3
    <3>5. l.row = m.row
        BY <1>3, <3>4 DEF FilesInv, BatchOK
    <3>6. l = m
        BY <3>5 DEF FilesInv, BatchOK, OnePerRow
    <3>7. QED
        BY <2>2, <3>2, <3>3, <3>6
  <2>3. QED
      BY <2>1, <2>2
<1>4. ASSUME NEW f \in Files, inbox[f].status # "none", ~inbox[f].told, ~(DOMAIN Document[f].rows \subseteq RowsOf(inbox[f].lines))
      PROVE  Cardinality(RowsOf(inbox[f].lines)) < inbox[f].count
  <2>1. PICK all : all = DOMAIN Document[f].rows
      OBVIOUS
  <2>2. PICK got : got = RowsOf(inbox[f].lines)
      OBVIOUS
  <2>3. IsFiniteSet(all)
      BY <2>1, StatementInboxAssumption DEF Files
  <2>4. got \in SUBSET all /\ got # all
      BY <1>4, <2>1, <2>2 DEF RowsOf, FilesInv, BatchOK, LineOK
  <2>5. inbox[f].count = Cardinality(all)
      BY <1>4, <2>1 DEF FilesInv, BatchOK
  <2>6. Cardinality(got) <= Cardinality(all) /\ Cardinality(got) # Cardinality(all)
      BY <2>3, <2>4, FS_Subset
  <2>7. Cardinality(got) \in Nat /\ Cardinality(all) \in Nat
      BY <2>3, <2>4, FS_Subset, FS_CardinalityType
  <2>8. QED
      BY <2>2, <2>5, <2>6, <2>7
<1>5. QED
    BY <1>2, <1>3, <1>4 DEF PaidAsStated, PaidOnce, NothingDroppedSilently, ApprovalsInv

\* What the ledger takes from a statement is what it says, or what an approver said it
\* says, once for an approval; a row that is not staged is told of or missing in the count;
\* and a seed that stops is noticed (carriers.py, statements.py, pdf.py, jobs.py).  A content
\* has one batch, filled by one stager with one line of a row, and an approval begins only
\* while the batch waits, so that none of it has ended.
THEOREM InboxIsSafe == InboxSpec => []InboxSafe
PROOF
<1>1. InboxInit => FilesInv
  <2>1. SUFFICES ASSUME InboxInit PROVE FilesInv
      OBVIOUS
  <2>2. \A s \in Stager : stager[s] = Away
      BY <2>1 DEF InboxInit
  <2>3. \A s \in Stager : AtStage(stager[s]) /\ FillsAlone(s)
      BY <2>2, AwayIsAtStage DEF FillsAlone
  <2>4. \A f \in Files : BatchOK(inbox[f], f)
      BY <2>1 DEF InboxInit, BatchOK, NoBatch, OnePerRow
  <2>5. QED
      BY <2>1, <2>3, <2>4 DEF InboxInit, FilesInv
<1>2. InboxInit => ApprovalsInv
  <2>1. SUFFICES ASSUME InboxInit PROVE ApprovalsInv
      OBVIOUS
  <2>2. approvals \in Seq(Approval) /\ DOMAIN approvals = {} /\ paid = {}
      BY <2>1 DEF InboxInit
  <2>3. DOMAIN approver = Approvers /\ \A a \in Approvers : AtApproval(approver[a])
      BY <2>1 DEF InboxInit, AtApproval, NoApproval
  <2>4. CommittedPays
      BY <2>1 DEF InboxInit, CommittedPays, NoBatch
  <2>5. QED
      BY <2>2, <2>3, <2>4 DEF ApprovalsInv
<1>3. InboxInit => ClocksInv
    BY DEF InboxInit, ClocksInv, SilenceMeansSeeded
<1>4. FilesInv /\ ApprovalsInv /\ ClocksInv /\ [InboxNext]_inboxVars => FilesInv' /\ ApprovalsInv' /\ ClocksInv'
    BY FilesStep, ClocksStep
<1>5. FilesInv /\ ApprovalsInv /\ ClocksInv => InboxSafe
    BY FilesAreSafe DEF InboxSafe, ClocksInv
<1>6. QED
    BY <1>1, <1>2, <1>3, <1>4, <1>5, PTL DEF InboxSpec

-----------------------------------------------------------------------------
(* BookHealth: what a check reads of two books that move, and compares.     *)

\* How many of S come before g, when the greatest come first.
Before(S, w, g) == {h \in S : w[h] > w[g]}

\* Numbers that differ put a finite set in an order: each place is somebody's.
LEMMA PlacesAreTaken ==
    ASSUME NEW S, IsFiniteSet(S), NEW w \in [S -> Int], \A g, h \in S : w[g] = w[h] => g = h
    PROVE  /\ \A g \in S : Cardinality(Before(S, w, g)) \in 0..(Cardinality(S) - 1)
           /\ \A g, h \in S : Cardinality(Before(S, w, g)) = Cardinality(Before(S, w, h)) => g = h
           /\ \A k \in 1..Cardinality(S) : \E g \in S : Cardinality(Before(S, w, g)) = k - 1
PROOF
<1>1. PICK n \in Nat : n = Cardinality(S)
    BY FS_CardinalityType
<1>2. \A g \in S : IsFiniteSet(Before(S, w, g)) /\ Cardinality(Before(S, w, g)) \in 0..(n - 1)
  <2>1. TAKE g \in S
  <2>2. IsFiniteSet(S \ {g}) /\ Cardinality(S \ {g}) = n - 1
      BY <1>1, FS_RemoveElement
  <2>3. Before(S, w, g) \in SUBSET (S \ {g})
      BY DEF Before
  <2>4. IsFiniteSet(Before(S, w, g)) /\ Cardinality(Before(S, w, g)) <= n - 1
      BY <2>2, <2>3, FS_Subset
  <2>5. QED
      BY <1>1, <2>4, FS_CardinalityType
<1>3. ASSUME NEW g \in S, NEW h \in S, w[g] > w[h]
      PROVE  Cardinality(Before(S, w, g)) < Cardinality(Before(S, w, h))
  <2>1. Before(S, w, g) \in SUBSET Before(S, w, h) /\ g \in Before(S, w, h) /\ g \notin Before(S, w, g)
      BY <1>3 DEF Before
  <2>2. /\ Cardinality(Before(S, w, g)) <= Cardinality(Before(S, w, h))
        /\ Cardinality(Before(S, w, h)) = Cardinality(Before(S, w, g)) => Before(S, w, h) = Before(S, w, g)
      BY <1>2, <2>1, FS_Subset
  <2>3. QED
      BY <1>2, <2>1, <2>2
<1>4. ASSUME NEW g \in S, NEW h \in S, Cardinality(Before(S, w, g)) = Cardinality(Before(S, w, h))
      PROVE  g = h
  <2>1. w[g] \in Int /\ w[h] \in Int
      OBVIOUS
  <2>2. ~(w[g] > w[h]) /\ ~(w[h] > w[g])
      BY <1>2, <1>3, <1>4
  <2>3. QED
      BY <2>1, <2>2
<1>5. PICK place : place = [g \in S |-> Cardinality(Before(S, w, g)) + 1]
    OBVIOUS
<1>6. place \in [S -> 1..n]
    BY <1>2, <1>5
<1>7. place \in Injection(S, 1..n)
    BY <1>2, <1>4, <1>5, <1>6 DEF Injection, IsInjective
<1>8. IsFiniteSet(1..n) /\ Cardinality(1..n) = n
    BY FS_Interval
<1>9. place \in Surjection(S, 1..n)
    BY <1>1, <1>7, <1>8, FS_Injection
<1>10. \A k \in 1..n : \E g \in S : place[g] = k
    BY <1>9 DEF Surjection
<1>11. QED
    BY <1>1, <1>2, <1>4, <1>5, <1>10
HealthText == STRING \cup {"", "Geico", "GEICO CHOICE"}
HealthRow == [number: {NumberOf[g] : g \in Guids}, live: BOOLEAN, carrier: HealthText]
AmsSides == [Guids -> [live: BOOLEAN, carrier: HealthText, date: Nat]]

\* No two policies were changed at the same time.
DatesDiffer(side) == \A g, h \in Guids : side[g].date = side[h].date => g = h

\* The place of g in the list of NowCerts, from 0.
AmsPlace(side, g) == Cardinality({h \in Guids : side[h].date > side[g].date})

LEMMA AmsPlaces ==
    ASSUME NEW side \in AmsSides, DatesDiffer(side)
    PROVE  /\ Cardinality(Guids) \in Nat /\ IsFiniteSet(Guids)
           /\ \A g \in Guids : AmsPlace(side, g) \in 0..(Cardinality(Guids) - 1)
           /\ \A g, h \in Guids : AmsPlace(side, g) = AmsPlace(side, h) => g = h
           /\ \A k \in 1..Cardinality(Guids) : \E g \in Guids : AmsPlace(side, g) = k - 1
PROOF
<1>1. IsFiniteSet(Guids) /\ Cardinality(Guids) \in Nat
    BY HealthAssumption, FS_CardinalityType
<1>2. PICK w : w = [g \in Guids |-> side[g].date]
    OBVIOUS
<1>3. w \in [Guids -> Int] /\ \A g, h \in Guids : w[g] = w[h] => g = h
    BY <1>2 DEF AmsSides, DatesDiffer
<1>4. \A g \in Guids : Before(Guids, w, g) = {h \in Guids : side[h].date > side[g].date}
    BY <1>2 DEF Before
<1>5. \A g \in Guids : Cardinality(Before(Guids, w, g)) = AmsPlace(side, g)
    BY <1>4 DEF AmsPlace
<1>6. /\ \A g \in Guids : Cardinality(Before(Guids, w, g)) \in 0..(Cardinality(Guids) - 1)
      /\ \A g, h \in Guids : Cardinality(Before(Guids, w, g)) = Cardinality(Before(Guids, w, h)) => g = h
      /\ \A k \in 1..Cardinality(Guids) : \E g \in Guids : Cardinality(Before(Guids, w, g)) = k - 1
    BY <1>1, <1>3, PlacesAreTaken
<1>7. QED
    BY <1>1, <1>5, <1>6

\* What is changed goes to the front, and nothing else forward.
LEMMA LatestIsLast ==
    ASSUME amsSide \in AmsSides, DatesDiffer(amsSide), NEW g \in Guids
    PROVE  Latest \in Nat /\ \A h \in Guids : amsSide[h].date <= Latest
PROOF
<1>1. Cardinality(Guids) \in Nat /\ AmsPlace(amsSide, g) \in 0..(Cardinality(Guids) - 1)
    BY AmsPlaces
<1>2. PICK top \in Guids : AmsPlace(amsSide, top) = 0
  <2>1. 1 \in 1..Cardinality(Guids)
      BY <1>1
  <2>2. QED
      BY <2>1, AmsPlaces
<1>3. {h \in Guids : amsSide[h].date > amsSide[top].date} = {}
  <2>1. IsFiniteSet({h \in Guids : amsSide[h].date > amsSide[top].date})
      BY AmsPlaces, FS_Subset
  <2>2. QED
      BY <1>2, <2>1, FS_EmptySet DEF AmsPlace
<1>4. \A h \in Guids : amsSide[h].date <= amsSide[top].date
    BY <1>3 DEF AmsSides
<1>5. \E d \in {amsSide[h].date : h \in Guids} : \A h \in Guids : amsSide[h].date <= d
    BY <1>4
<1>6. Latest \in {amsSide[h].date : h \in Guids} /\ \A h \in Guids : amsSide[h].date <= Latest
    BY <1>5 DEF Latest
<1>7. QED
    BY <1>6 DEF AmsSides

AmsEntry == [live: BOOLEAN, carrier: HealthText, date: Nat]

NoneGoesForward(side, next, g) ==
    \A h \in Guids \ {g} : next[h] = side[h] /\ AmsPlace(next, h) >= AmsPlace(side, h)

LEMMA ChangedGoesFirst ==
    ASSUME NEW side \in AmsSides, DatesDiffer(side), NEW g \in Guids, NEW new \in AmsEntry,
           \A h \in Guids : side[h].date < new.date
    PROVE  /\ [side EXCEPT ![g] = new] \in AmsSides /\ DatesDiffer([side EXCEPT ![g] = new])
           /\ NoneGoesForward(side, [side EXCEPT ![g] = new], g)
PROOF
<1>0. PICK next : next = [side EXCEPT ![g] = new]
    OBVIOUS
<1>1. /\ next \in AmsSides /\ next[g] = new
      /\ \A h \in Guids \ {g} : next[h] = side[h]
    BY <1>0 DEF AmsSides, AmsEntry
<1>2. new.date \in Nat /\ \A h \in Guids : side[h].date \in Nat
    BY DEF AmsSides, AmsEntry
<1>3. DatesDiffer(next)
    BY <1>1, <1>2 DEF DatesDiffer
<1>4. ASSUME NEW h \in Guids \ {g} PROVE AmsPlace(next, h) >= AmsPlace(side, h)
  <2>1. PICK S : S = {x \in Guids : side[x].date > side[h].date}
      OBVIOUS
  <2>2. PICK T : T = {x \in Guids : next[x].date > next[h].date}
      OBVIOUS
  <2>3. IsFiniteSet(T) /\ S \in SUBSET T
    <3>1. IsFiniteSet(Guids) /\ T \in SUBSET Guids
        BY <2>2, AmsPlaces
    <3>2. ASSUME NEW x \in S PROVE x \in T
        BY <1>1, <1>2, <2>1, <2>2
    <3>3. QED
        BY <3>1, <3>2, FS_Subset
  <2>4. Cardinality(S) <= Cardinality(T) /\ Cardinality(S) \in Nat /\ Cardinality(T) \in Nat
      BY <2>3, FS_Subset, FS_CardinalityType
  <2>5. QED
      BY <2>1, <2>2, <2>4 DEF AmsPlace
<1>5. QED
    BY <1>0, <1>1, <1>3, <1>4 DEF NoneGoesForward

LEMMA AmsList ==
    ASSUME amsSide \in AmsSides, DatesDiffer(amsSide)
    PROVE  /\ ByChange \in Seq(Guids) /\ Len(ByChange) = Cardinality(Guids)
           /\ \A g \in Guids : ByChange[AmsPlace(amsSide, g) + 1] = g
PROOF
<1>1. PICK n \in Nat : n = Cardinality(Guids)
    BY AmsPlaces
<1>2. PICK list : list = [k \in 1..n |-> CHOOSE g \in Guids : AmsPlace(amsSide, g) = k - 1]
    OBVIOUS
<1>3. ByChange = list
    BY <1>1, <1>2 DEF ByChange, AmsPlace
<1>4. \A k \in 1..n : list[k] \in Guids /\ AmsPlace(amsSide, list[k]) = k - 1
    BY <1>1, <1>2, AmsPlaces
<1>5. list \in Seq(Guids) /\ Len(list) = n
    BY <1>2, <1>4
<1>6. ASSUME NEW g \in Guids PROVE list[AmsPlace(amsSide, g) + 1] = g
  <2>1. AmsPlace(amsSide, g) \in 0..(n - 1)
      BY <1>1, AmsPlaces
  <2>2. AmsPlace(amsSide, g) + 1 \in 1..n
      BY <2>1
  <2>3. list[AmsPlace(amsSide, g) + 1] \in Guids
        /\ AmsPlace(amsSide, list[AmsPlace(amsSide, g) + 1]) = AmsPlace(amsSide, g)
      BY <1>4, <2>1, <2>2
  <2>4. QED
      BY <2>3, AmsPlaces
<1>7. QED
    BY <1>1, <1>3, <1>5, <1>6

LEMMA MirrorList ==
    ASSUME mirrorSide \in [Guids -> [there: BOOLEAN, live: BOOLEAN, carrier: HealthText]]
    PROVE  ByGuid \in Seq({g \in Guids : mirrorSide[g].there})
PROOF
<1>1. PICK there \in SUBSET Guids : there = {g \in Guids : mirrorSide[g].there}
    OBVIOUS
<1>2. IsFiniteSet(there) /\ Cardinality(there) \in Nat
    BY HealthAssumption, FS_Subset, FS_CardinalityType
<1>3. \A g \in Guids : g \in Int
  <2>1. Cardinality(Guids) \in Nat
      BY HealthAssumption, FS_CardinalityType
  <2>2. QED
      BY <2>1, HealthAssumption
<1>4. PICK w : w = [g \in there |-> 0 - g]
    OBVIOUS
<1>5. w \in [there -> Int] /\ \A g, h \in there : (w[g] = w[h] => g = h) /\ (w[h] > w[g] <=> h < g)
    BY <1>3, <1>4
<1>6. \A g \in there : Before(there, w, g) = {h \in there : h < g}
    BY <1>5 DEF Before
<1>7. \A k \in 1..Cardinality(there) : \E g \in there : Cardinality(Before(there, w, g)) = k - 1
    BY <1>2, <1>5, PlacesAreTaken
<1>8. \A k \in 1..Cardinality(there) : \E g \in there : Cardinality({h \in there : h < g}) = k - 1
    BY <1>6, <1>7
<1>9. PICK list : list = [k \in 1..Cardinality(there) |-> CHOOSE g \in there : Cardinality({h \in there : h < g}) = k - 1]
    OBVIOUS
<1>10. list \in Seq(there)
  <2>1. PICK n \in Nat : n = Cardinality(there)
      BY <1>2
  <2>2. \A k \in 1..n : list[k] \in there
      BY <1>8, <1>9, <2>1
  <2>3. list \in [1..n -> there]
      BY <1>9, <2>1, <2>2
  <2>4. QED
      BY <2>3
<1>11. ByGuid = list
    BY <1>1, <1>9 DEF ByGuid
<1>12. QED
    BY <1>1, <1>10, <1>11
LEMMA PageOfList ==
    ASSUME NEW S, NEW list \in Seq(S), NEW page \in Nat, NEW got, got = HealthPageOf(list, page)
    PROVE  /\ got \in Seq(S)
           /\ \A k \in 1..Len(list) :
                 /\ page * HealthPage < k /\ k <= (page + 1) * HealthPage => \E j \in DOMAIN got : got[j] = list[k]
                 /\ Len(got) # HealthPage => Len(got) < HealthPage /\ k <= (page + 1) * HealthPage
PROOF
<1>1. HealthPage \in Nat \ {0}
    BY HealthAssumption
<1>2. PICK from \in Nat, upto \in Nat : from = page * HealthPage /\ upto = (page + 1) * HealthPage
    BY <1>1
<1>3. upto = from + HealthPage
    BY <1>1, <1>2
<1>4. PICK n \in Nat : n = Len(list)
    OBVIOUS
<1>5. PICK end \in Nat : end = IF n < upto THEN n ELSE upto
    BY <1>4
<1>6. got = SubSeq(list, from + 1, end)
    BY <1>2, <1>4, <1>5 DEF HealthPageOf
<1>7. end <= n /\ end <= upto /\ \A k \in (from + 1)..end : list[k] \in S
    BY <1>4, <1>5
<1>8. /\ got \in Seq(S) /\ Len(got) = IF from + 1 <= end THEN end - from ELSE 0
      /\ \A j \in 1..Len(got) : got[j] = list[from + j]
    BY <1>4, <1>6, <1>7, SubSeqProperties
<1>9. ASSUME NEW k \in 1..n, from < k, k <= upto PROVE \E j \in DOMAIN got : got[j] = list[k]
  <2>1. k - from \in 1..Len(got) /\ from + (k - from) = k
      BY <1>4, <1>5, <1>8, <1>9
  <2>2. got[k - from] = list[k] /\ k - from \in DOMAIN got
      BY <1>8, <2>1
  <2>3. QED
      BY <2>2
<1>10. ASSUME NEW k \in 1..n, Len(got) # HealthPage PROVE Len(got) < HealthPage /\ k <= upto
    BY <1>1, <1>3, <1>4, <1>5, <1>8, <1>10
<1>11. QED
    BY <1>2, <1>4, <1>8, <1>9, <1>10

\* Whatever is in one of two lists is in their concatenation, and nothing else.
AllIn(s, u) == \A j \in DOMAIN s : \E k \in DOMAIN u : u[k] = s[j]
NothingElse(s, t, u) == \A k \in DOMAIN u : (\E j \in DOMAIN s : u[k] = s[j]) \/ (\E j \in DOMAIN t : u[k] = t[j])

LEMMA Joined ==
    ASSUME NEW S, NEW s \in Seq(S), NEW t \in Seq(S), NEW u, u = s \o t
    PROVE  u \in Seq(S) /\ NothingElse(s, t, u) /\ AllIn(s, u) /\ AllIn(t, u)
PROOF
<1>1. PICK m \in Nat, n \in Nat : m = Len(s) /\ n = Len(t)
    OBVIOUS
<1>2. u \in Seq(S) /\ Len(u) = m + n /\ DOMAIN u = 1..(m + n) /\ DOMAIN s = 1..m /\ DOMAIN t = 1..n
    BY <1>1
<1>3. /\ \A k \in 1..m : u[k] = s[k]
      /\ \A k \in (m + 1)..(m + n) : u[k] = t[k - m]
    BY <1>1, <1>2
<1>4. ASSUME NEW k \in DOMAIN u PROVE (\E j \in DOMAIN s : u[k] = s[j]) \/ (\E j \in DOMAIN t : u[k] = t[j])
  <2>1. CASE k <= m
      BY <1>2, <1>3, <1>4, <2>1
  <2>2. CASE k > m
    <3>1. k \in (m + 1)..(m + n) /\ k - m \in 1..n
        BY <1>2, <1>4, <2>2
    <3>2. QED
        BY <1>2, <1>3, <3>1
  <2>3. QED
      BY <1>2, <1>4, <2>1, <2>2
<1>5. ASSUME NEW j \in DOMAIN t PROVE \E k \in DOMAIN u : u[k] = t[j]
  <2>1. m + j \in (m + 1)..(m + n) /\ (m + j) - m = j /\ m + j \in DOMAIN u
      BY <1>2, <1>5
  <2>2. QED
      BY <1>3, <2>1
<1>6. ASSUME NEW j \in DOMAIN s PROVE \E k \in DOMAIN u : u[k] = s[j]
  <2>1. j \in DOMAIN u /\ u[j] = s[j]
      BY <1>2, <1>3, <1>6
  <2>2. QED
      BY <2>1
<1>7. QED
    BY <1>2, <1>4, <1>5, <1>6 DEF NothingElse, AllIn

-----------------------------------------------------------------------------

HealthChecks ==
    [at: {"ams", "rows", "judge", "over"}, page: Nat, ams: Seq(HealthRow), rows: Seq(HealthRow),
     errors: BOOLEAN, cut: BOOLEAN, verdict: {"", "healthy", "drift"}]

HealthTypeOK ==
    /\ amsSide \in AmsSides /\ DatesDiffer(amsSide)
    /\ mirrorSide \in [Guids -> [there: BOOLEAN, live: BOOLEAN, carrier: HealthText]]
    /\ health \in HealthChecks
    /\ touched \subseteq Guids

\* The list has a record of g, as NowCerts has it.
Listed(ams, g) == \E k \in DOMAIN ams : ams[k] = AmsRecord(g)

\* Not yet listed is what stands on later pages.
ListedUpTo(ams, page) == \A g \in Guids \ touched : Listed(ams, g) \/ AmsPlace(amsSide, g) >= page * HealthPage

AllListed(ams) == \A g \in Guids \ touched : Listed(ams, g)

\* What was read of a policy nobody has touched in NowCerts is still so there, and what
\* was read of its row was so during the check.
AmsIsCurrent(ams) ==
    \A k \in DOMAIN ams : \E g \in Guids : ams[k].number = NumberOf[g] /\ (g \notin touched => ams[k] = AmsRecord(g))

WasSo(r, g) ==
    /\ r.number = NumberOf[g]
    /\ (g \notin touched /\ r.live = amsSide[g].live /\ r.carrier = amsSide[g].carrier) => g \in matched

RowsWereSo(rows) == \A k \in DOMAIN rows : \E g \in Guids : WasSo(rows[k], g)

InStepIsMatched == \A g \in Guids : InStep(g) => g \in matched

CheckOK ==
    health.at # "over" =>
        /\ health.at = "ams" => ListedUpTo(health.ams, health.page)
        /\ health.at # "ams" /\ ~health.errors /\ ~health.cut => AllListed(health.ams)
        /\ AmsIsCurrent(health.ams) /\ RowsWereSo(health.rows) /\ InStepIsMatched
        /\ health.verdict = ""

HealthInv == HealthTypeOK /\ CheckOK /\ HealthyMeansLive

LEMMA RecordsAreRows ==
    ASSUME HealthTypeOK, NEW g \in Guids
    PROVE  AmsRecord(g) \in HealthRow /\ MirrorRecord(g) \in HealthRow
BY DEF HealthTypeOK, AmsRecord, MirrorRecord, HealthRow, AmsSides

LEMMA StaysListed ==
    ASSUME NEW s, NEW u, AllIn(s, u), NEW g, Listed(s, g)
    PROVE  Listed(u, g)
BY DEF AllIn, Listed

LEMMA PlaceInList ==
    ASSUME NEW n \in Nat, NEW p \in 0..(n - 1)
    PROVE  \E k \in 1..n : k = p + 1
OBVIOUS

LEMMA AmsPageRead ==
    ASSUME HealthTypeOK, NEW page \in Nat, NEW ams \in Seq(HealthRow), AmsIsCurrent(ams), ListedUpTo(ams, page),
           NEW got, got = HealthPageOf(ByChange, page), NEW more, more = [k \in DOMAIN got |-> AmsRecord(got[k])],
           NEW u, u = ams \o more
    PROVE  /\ u \in Seq(HealthRow) /\ AmsIsCurrent(u) /\ ListedUpTo(u, page + 1)
           /\ Len(got) # HealthPage => AllListed(u)
PROOF
<1>1. PICK list \in Seq(Guids) : list = ByChange
    BY AmsList DEF HealthTypeOK
<1>2. /\ Len(list) = Cardinality(Guids) /\ Cardinality(Guids) \in Nat
      /\ \A g \in Guids : list[AmsPlace(amsSide, g) + 1] = g /\ AmsPlace(amsSide, g) \in 0..(Cardinality(Guids) - 1)
    BY <1>1, AmsList, AmsPlaces DEF HealthTypeOK
<1>3. /\ got \in Seq(Guids)
      /\ \A k \in 1..Len(list) :
            /\ page * HealthPage < k /\ k <= (page + 1) * HealthPage => \E j \in DOMAIN got : got[j] = list[k]
            /\ Len(got) # HealthPage => Len(got) < HealthPage /\ k <= (page + 1) * HealthPage
  <2>1. got = HealthPageOf(list, page)
      BY <1>1
  <2>2. QED
      BY <2>1, PageOfList
<1>4. more \in Seq(HealthRow) /\ DOMAIN more = DOMAIN got /\ \A j \in DOMAIN got : more[j] = AmsRecord(got[j])
  <2>1. PICK n \in Nat : DOMAIN got = 1..n
      BY <1>3
  <2>2. more \in [1..n -> HealthRow]
      BY <1>3, <2>1, RecordsAreRows
  <2>3. QED
      BY <2>1, <2>2
<1>5. u \in Seq(HealthRow) /\ NothingElse(ams, more, u) /\ AllIn(ams, u) /\ AllIn(more, u)
    BY <1>4, Joined
<1>6. AmsIsCurrent(u)
  <2>1. SUFFICES ASSUME NEW k \in DOMAIN u
                 PROVE  \E g \in Guids : u[k].number = NumberOf[g] /\ (g \notin touched => u[k] = AmsRecord(g))
      BY DEF AmsIsCurrent
  <2>2. CASE \E j \in DOMAIN ams : u[k] = ams[j]
      BY <2>2 DEF AmsIsCurrent
  <2>3. ASSUME NEW j \in DOMAIN more, u[k] = more[j]
        PROVE  \E g \in Guids : u[k].number = NumberOf[g] /\ (g \notin touched => u[k] = AmsRecord(g))
    <3>1. got[j] \in Guids /\ u[k] = AmsRecord(got[j])
        BY <1>3, <1>4, <2>3
    <3>2. AmsRecord(got[j]).number = NumberOf[got[j]]
        BY DEF AmsRecord
    <3>3. QED
        BY <3>1, <3>2
  <2>4. QED
      BY <1>5, <2>2, <2>3 DEF NothingElse
<1>7. ASSUME NEW g \in Guids \ touched PROVE Listed(u, g) \/ AmsPlace(amsSide, g) >= (page + 1) * HealthPage
  <2>0. HealthPage \in Nat
      BY HealthAssumption
  <2>1. PICK from \in Nat, upto \in Nat : from = page * HealthPage /\ upto = (page + 1) * HealthPage
      BY HealthAssumption
  <2>2. PICK k \in 1..Len(list) : k = AmsPlace(amsSide, g) + 1
    <3>1. AmsPlace(amsSide, g) \in 0..(Cardinality(Guids) - 1) /\ Cardinality(Guids) \in Nat
        BY <1>2
    <3>2. \E k \in 1..Cardinality(Guids) : k = AmsPlace(amsSide, g) + 1
        BY <3>1, PlaceInList
    <3>3. QED
        BY <1>2, <3>2
  <2>3. CASE Listed(ams, g)
      BY <1>5, <2>3, StaysListed
  <2>4. CASE k <= from
    <3>1. ~(AmsPlace(amsSide, g) >= from)
        BY <1>2, <2>2, <2>4
    <3>2. Listed(ams, g)
        BY <1>7, <2>1, <3>1 DEF ListedUpTo
    <3>3. QED
        BY <2>3, <3>2
  <2>5. CASE from < k /\ k <= upto
    <3>1. PICK j \in DOMAIN got : got[j] = list[k]
        BY <1>3, <2>1, <2>5
    <3>2. list[k] = g
        BY <1>2, <2>2
    <3>3. more[j] = AmsRecord(g) /\ j \in DOMAIN more
        BY <1>4, <3>1, <3>2
    <3>4. QED
      <4>1. Listed(more, g)
          BY <3>3 DEF Listed
      <4>2. QED
          BY <1>5, <4>1, StaysListed
  <2>6. CASE k > upto
    <3>1. AmsPlace(amsSide, g) >= upto
        BY <1>2, <2>2, <2>6
    <3>2. QED
        BY <2>1, <3>1
  <2>7. QED
      BY <2>4, <2>5, <2>6
<1>8. ASSUME NEW g \in Guids \ touched, Len(got) # HealthPage PROVE Listed(u, g)
  <2>1. PICK k \in 1..Len(list) : k = AmsPlace(amsSide, g) + 1
    <3>1. AmsPlace(amsSide, g) \in 0..(Cardinality(Guids) - 1) /\ Cardinality(Guids) \in Nat
        BY <1>2
    <3>2. \E k \in 1..Cardinality(Guids) : k = AmsPlace(amsSide, g) + 1
        BY <3>1, PlaceInList
    <3>3. QED
        BY <1>2, <3>2
  <2>2. PICK upto \in Nat : upto = (page + 1) * HealthPage
      BY HealthAssumption
  <2>3. k <= upto
      BY <1>3, <1>8, <2>2
  <2>4. ~(AmsPlace(amsSide, g) >= upto)
      BY <1>2, <2>1, <2>3
  <2>5. QED
      BY <1>7, <2>2, <2>4
<1>9. QED
    BY <1>5, <1>6, <1>7, <1>8 DEF ListedUpTo, AllListed

LEMMA RowsPageRead ==
    ASSUME HealthTypeOK, InStepIsMatched, NEW page \in Nat, NEW rows \in Seq(HealthRow), RowsWereSo(rows),
           NEW got, got = HealthPageOf(ByGuid, page), NEW more, more = [k \in DOMAIN got |-> MirrorRecord(got[k])],
           NEW u, u = rows \o more
    PROVE  u \in Seq(HealthRow) /\ RowsWereSo(u)
PROOF
<1>1. PICK there : there = {g \in Guids : mirrorSide[g].there}
    OBVIOUS
<1>2. PICK list \in Seq(there) : list = ByGuid
    BY <1>1, MirrorList DEF HealthTypeOK
<1>3. got \in Seq(there)
    BY <1>2, PageOfList
<1>4. more \in Seq(HealthRow) /\ DOMAIN more = DOMAIN got /\ \A j \in DOMAIN got : more[j] = MirrorRecord(got[j])
  <2>1. PICK n \in Nat : DOMAIN got = 1..n
      BY <1>3
  <2>2. more \in [1..n -> HealthRow]
      BY <1>1, <1>3, <2>1, RecordsAreRows
  <2>3. QED
      BY <2>1, <2>2
<1>5. u \in Seq(HealthRow) /\ NothingElse(rows, more, u)
    BY <1>4, Joined
<1>6. ASSUME NEW k \in DOMAIN u PROVE \E g \in Guids : WasSo(u[k], g)
  <2>1. CASE \E j \in DOMAIN rows : u[k] = rows[j]
      BY <2>1 DEF RowsWereSo
  <2>2. ASSUME NEW j \in DOMAIN more, u[k] = more[j] PROVE \E g \in Guids : WasSo(u[k], g)
    <3>1. PICK g \in Guids : g = got[j] /\ mirrorSide[g].there
        BY <1>1, <1>3, <1>4
    <3>2. u[k] = MirrorRecord(g)
        BY <1>4, <2>2, <3>1
    <3>3. mirrorSide[g].live = amsSide[g].live /\ mirrorSide[g].carrier = amsSide[g].carrier => InStep(g)
        BY <3>1 DEF InStep, HealthTypeOK
    <3>4. WasSo(MirrorRecord(g), g)
        BY <3>3 DEF InStepIsMatched, MirrorRecord, WasSo
    <3>5. QED
        BY <3>2, <3>4
  <2>3. QED
      BY <1>5, <2>1, <2>2 DEF NothingElse
<1>7. QED
    BY <1>5, <1>6 DEF RowsWereSo
-----------------------------------------------------------------------------

LEMMA HealthStart ==
    ASSUME NEW sides \in SUBSET AmsSides, \A side \in sides : DatesDiffer(side), NEW copied,
           HealthInit(sides, copied)
    PROVE  HealthInv
PROOF
<1>1. amsSide \in AmsSides /\ DatesDiffer(amsSide)
    BY DEF HealthInit
<1>2. mirrorSide \in [Guids -> [there: BOOLEAN, live: BOOLEAN, carrier: HealthText]]
    BY <1>1 DEF HealthInit, AmsSides, HealthText
<1>3. health = [at |-> "over", page |-> 0, ams |-> <<>>, rows |-> <<>>, errors |-> FALSE, cut |-> FALSE, verdict |-> ""]
    BY DEF HealthInit, Beginning
<1>4. health \in HealthChecks
  <2>1. <<>> \in Seq(HealthRow)
      OBVIOUS
  <2>2. QED
      BY <1>3, <2>1 DEF HealthChecks
<1>6. HealthTypeOK
    BY <1>1, <1>2, <1>4 DEF HealthTypeOK, HealthInit
<1>5. QED
    BY <1>3, <1>6 DEF HealthInv, CheckOK, HealthyMeansLive

LEMMA BeginStep ==
    ASSUME HealthInv, BeginCheck PROVE HealthInv'
PROOF
<1>1. health' = [at |-> "ams", page |-> 0, ams |-> <<>>, rows |-> <<>>, errors |-> FALSE, cut |-> FALSE, verdict |-> ""]
    BY DEF BeginCheck, Beginning
<1>2. touched' = {} /\ matched' = {g \in Guids : InStep(g)} /\ amsSide' = amsSide /\ mirrorSide' = mirrorSide
    BY DEF BeginCheck
<1>0. HealthTypeOK
    BY DEF HealthInv
<1>3. HealthTypeOK'
  <2>1. <<>> \in Seq(HealthRow)
      OBVIOUS
  <2>2. health' \in HealthChecks
      BY <1>1, <2>1 DEF HealthChecks
  <2>3. QED
      BY <1>0, <1>2, <2>2 DEF HealthTypeOK
<1>4. InStepIsMatched'
    BY <1>2 DEF InStepIsMatched, InStep
<1>5. ListedUpTo(health.ams, health.page)'
  <2>1. \A g \in Guids : AmsPlace(amsSide, g) \in Nat
      BY <1>0, AmsPlaces DEF HealthTypeOK
  <2>2. \A g \in Guids : AmsPlace(amsSide, g)' = AmsPlace(amsSide, g)
      BY <1>2 DEF AmsPlace
  <2>3. 0 * HealthPage = 0
      BY HealthAssumption
  <2>4. health'.page = 0
      BY <1>1
  <2>5. \A g \in Guids : AmsPlace(amsSide, g)' >= health'.page * HealthPage
      BY <2>1, <2>2, <2>3, <2>4
  <2>6. QED
      BY <2>5 DEF ListedUpTo
<1>6. AmsIsCurrent(health.ams)' /\ RowsWereSo(health.rows)'
  <2>1. DOMAIN <<>> = {}
      OBVIOUS
  <2>2. QED
      BY <1>1, <2>1 DEF AmsIsCurrent, RowsWereSo
<1>7. QED
    BY <1>1, <1>3, <1>4, <1>5, <1>6 DEF HealthInv, CheckOK, HealthyMeansLive

\* What the check does leaves both sides, and what is said of them.
LEMMA SidesStay ==
    ASSUME HealthTypeOK, UNCHANGED <<amsSide, mirrorSide, touched, matched>>,
           health' \in HealthChecks, health'.at # "over", health'.verdict = "",
           health'.at = "ams" => ListedUpTo(health'.ams, health'.page),
           health'.at # "ams" /\ ~health'.errors /\ ~health'.cut => AllListed(health'.ams),
           AmsIsCurrent(health'.ams), RowsWereSo(health'.rows), InStepIsMatched
    PROVE  HealthInv'
PROOF
<1>1. HealthTypeOK'
    BY DEF HealthTypeOK
<1>2. InStepIsMatched'
    BY DEF InStepIsMatched, InStep
<1>3. \A g : AmsRecord(g)' = AmsRecord(g) /\ AmsPlace(amsSide, g)' = AmsPlace(amsSide, g)
    BY DEF AmsRecord, AmsPlace
<1>4. /\ health'.at = "ams" => ListedUpTo(health.ams, health.page)'
      /\ health'.at # "ams" /\ ~health'.errors /\ ~health'.cut => AllListed(health.ams)'
    BY <1>3 DEF ListedUpTo, AllListed, Listed
<1>5. AmsIsCurrent(health.ams)'
    BY <1>3 DEF AmsIsCurrent
<1>6. RowsWereSo(health.rows)'
    BY DEF RowsWereSo, WasSo
<1>7. QED
    BY <1>1, <1>2, <1>4, <1>5, <1>6 DEF HealthInv, CheckOK, HealthyMeansLive

LEMMA ReadAmsStep ==
    ASSUME HealthInv, ReadAms PROVE HealthInv'
PROOF
<1>1. /\ HealthTypeOK /\ health.at = "ams" /\ ListedUpTo(health.ams, health.page) /\ AmsIsCurrent(health.ams)
      /\ RowsWereSo(health.rows) /\ InStepIsMatched /\ health.verdict = ""
      /\ UNCHANGED <<amsSide, mirrorSide, touched, matched>>
    BY DEF HealthInv, CheckOK, ReadAms, Environs
<1>2. PICK page \in Nat, ams \in Seq(HealthRow) : page = health.page /\ ams = health.ams
    BY <1>1 DEF HealthTypeOK, HealthChecks
<1>3. PICK got : got = HealthPageOf(ByChange, page)
    OBVIOUS
<1>4. PICK u : u = ams \o [k \in DOMAIN got |-> AmsRecord(got[k])]
    OBVIOUS
<1>5. /\ u \in Seq(HealthRow) /\ AmsIsCurrent(u) /\ ListedUpTo(u, page + 1)
      /\ Len(got) # HealthPage => AllListed(u)
    BY <1>1, <1>2, <1>3, <1>4, AmsPageRead
<1>6. \/ health' = [health EXCEPT !.ams = u, !.page = page + 1]
      \/ health' = [health EXCEPT !.ams = u, !.page = 0, !.at = "rows", !.cut = Len(got) = HealthPage]
      \/ health' = [health EXCEPT !.at = "rows", !.page = 0, !.ams = <<>>, !.errors = TRUE]
  <2>1. PICK read : read = [health EXCEPT !.ams = u, !.page = page + 1]
      OBVIOUS
  <2>2. \/ health' = read
        \/ health' = [read EXCEPT !.at = "rows", !.page = 0, !.cut = Len(got) = HealthPage]
        \/ health' = [health EXCEPT !.at = "rows", !.page = 0, !.ams = <<>>, !.errors = TRUE]
      BY <1>2, <1>3, <1>4, <2>1, Zenon DEF ReadAms
  <2>3. [read EXCEPT !.at = "rows", !.page = 0, !.cut = Len(got) = HealthPage]
            = [health EXCEPT !.ams = u, !.page = 0, !.at = "rows", !.cut = Len(got) = HealthPage]
      BY <2>1
  <2>4. QED
      BY <2>1, <2>2, <2>3
<1>7. CASE health' = [health EXCEPT !.ams = u, !.page = page + 1]
  <2>1. health' \in HealthChecks /\ health'.at # "over" /\ health'.verdict = ""
    <3>1. health \in HealthChecks /\ page + 1 \in Nat
      <4>1. health \in HealthChecks
          BY <1>1 DEF HealthTypeOK
      <4>2. QED
          BY <4>1
    <3>2. health' \in HealthChecks
        BY <1>5, <1>7, <3>1 DEF HealthChecks
    <3>3. health'.at = "ams" /\ health'.verdict = ""
        BY <1>1, <1>7, <3>1 DEF HealthChecks
    <3>4. QED
        BY <3>2, <3>3
  <2>2. health'.at = "ams" /\ health'.ams = u /\ health'.page = page + 1 /\ health'.rows = health.rows
      BY <1>1, <1>7 DEF HealthTypeOK, HealthChecks
  <2>3. QED
      BY <1>1, <1>5, <2>1, <2>2, SidesStay
<1>8. CASE health' = [health EXCEPT !.ams = u, !.page = 0, !.at = "rows", !.cut = Len(got) = HealthPage]
  <2>1. health' \in HealthChecks /\ health'.at # "over" /\ health'.verdict = ""
      BY <1>1, <1>2, <1>5, <1>8 DEF HealthTypeOK, HealthChecks
  <2>2. health'.at = "rows" /\ health'.ams = u /\ health'.rows = health.rows /\ (~health'.cut => Len(got) # HealthPage)
      BY <1>1, <1>8 DEF HealthTypeOK, HealthChecks
  <2>3. QED
      BY <1>1, <1>5, <2>1, <2>2, SidesStay
<1>11. <<>> \in Seq(HealthRow)
    OBVIOUS
<1>9. CASE health' = [health EXCEPT !.at = "rows", !.page = 0, !.ams = <<>>, !.errors = TRUE]
  <2>1. health' \in HealthChecks /\ health'.at # "over" /\ health'.verdict = ""
      BY <1>1, <1>9, <1>11 DEF HealthTypeOK, HealthChecks
  <2>2. health'.at = "rows" /\ health'.ams = <<>> /\ health'.rows = health.rows /\ health'.errors
      BY <1>1, <1>9 DEF HealthTypeOK, HealthChecks
  <2>3. AmsIsCurrent(health'.ams)
      BY <2>2 DEF AmsIsCurrent
  <2>4. QED
      BY <1>1, <2>1, <2>2, <2>3, SidesStay
<1>10. QED
    BY <1>6, <1>7, <1>8, <1>9

LEMMA ReadRowsStep ==
    ASSUME HealthInv, ReadRows PROVE HealthInv'
PROOF
<1>1. /\ HealthTypeOK /\ health.at = "rows" /\ AmsIsCurrent(health.ams)
      /\ ~health.errors /\ ~health.cut => AllListed(health.ams)
      /\ RowsWereSo(health.rows) /\ InStepIsMatched /\ health.verdict = ""
      /\ UNCHANGED <<amsSide, mirrorSide, touched, matched>>
    BY DEF HealthInv, CheckOK, ReadRows, Environs
<1>2. PICK page \in Nat, rows \in Seq(HealthRow) : page = health.page /\ rows = health.rows
    BY <1>1 DEF HealthTypeOK, HealthChecks
<1>3. PICK got : got = HealthPageOf(ByGuid, page)
    OBVIOUS
<1>4. PICK u : u = rows \o [k \in DOMAIN got |-> MirrorRecord(got[k])]
    OBVIOUS
<1>5. u \in Seq(HealthRow) /\ RowsWereSo(u)
    BY <1>1, <1>2, <1>3, <1>4, RowsPageRead
<1>6. \/ health' = [health EXCEPT !.rows = u, !.page = page + 1]
      \/ health' = [health EXCEPT !.rows = u, !.page = page + 1, !.at = "judge"]
      \/ health' = [health EXCEPT !.at = "judge", !.rows = <<>>, !.errors = TRUE]
    BY <1>1, <1>2, <1>3, <1>4 DEF ReadRows, HealthTypeOK
<1>11. <<>> \in Seq(HealthRow)
    OBVIOUS
<1>7. /\ health' \in HealthChecks /\ health'.at # "over" /\ health'.verdict = ""
      /\ health'.at # "ams" /\ health'.ams = health.ams /\ health'.cut = health.cut
      /\ ~health'.errors => ~health.errors
      /\ health'.rows = u \/ health'.rows = <<>>
  <2>1. health \in HealthChecks /\ page + 1 \in Nat
    <3>1. health \in HealthChecks
        BY <1>1 DEF HealthTypeOK
    <3>2. QED
        BY <3>1
  <2>2. CASE health' = [health EXCEPT !.rows = u, !.page = page + 1]
      BY <1>1, <1>5, <2>1, <2>2 DEF HealthChecks
  <2>3. CASE health' = [health EXCEPT !.rows = u, !.page = page + 1, !.at = "judge"]
      BY <1>1, <1>5, <2>1, <2>3 DEF HealthChecks
  <2>4. CASE health' = [health EXCEPT !.at = "judge", !.rows = <<>>, !.errors = TRUE]
      BY <1>1, <1>11, <2>1, <2>4 DEF HealthChecks
  <2>5. QED
      BY <1>6, <2>2, <2>3, <2>4
<1>8. RowsWereSo(<<>>)
    BY DEF RowsWereSo
<1>9. RowsWereSo(health'.rows)
    BY <1>5, <1>7, <1>8
<1>10. QED
    BY <1>1, <1>7, <1>9, SidesStay
\* The last row of a number.
LEMMA LastOfSome ==
    ASSUME NEW ams \in Seq(HealthRow), NEW k \in DOMAIN ams
    PROVE  \E last \in DOMAIN ams :
              ams[last].number = ams[k].number /\ \A j \in DOMAIN ams : j > last => ams[j].number # ams[k].number
PROOF
<1>1. PICK n \in Nat : DOMAIN ams = 1..n
    OBVIOUS
<1>2. PICK back : back = {i \in Nat : i < n /\ ams[n - i].number = ams[k].number}
    OBVIOUS
<1>3. n - k \in back /\ back \in SUBSET Nat
  <2>1. n - k \in Nat /\ n - k < n /\ n - (n - k) = k
      BY <1>1
  <2>2. QED
      BY <1>2, <2>1
<1>4. PICK m \in back : \A x \in back : m <= x
    BY <1>3, FirstOfSome
<1>5. n - m \in DOMAIN ams /\ ams[n - m].number = ams[k].number
    BY <1>1, <1>2
<1>6. ASSUME NEW j \in DOMAIN ams, j > n - m, ams[j].number = ams[k].number PROVE FALSE
  <2>1. n - j \in Nat /\ n - j < n /\ n - (n - j) = j
      BY <1>1
  <2>2. n - j \in back
      BY <1>2, <1>6, <2>1
  <2>3. m <= n - j /\ m \in Nat
      BY <1>2, <1>4, <2>2
  <2>4. QED
      BY <1>1, <1>6, <2>3
<1>7. QED
    BY <1>5, <1>6

\* A report that says healthy found the row of every live number, under its carrier.
OneOfItsNumber(ams, k) == \A j \in DOMAIN ams : ams[j].number = ams[k].number => ams[j] = ams[k]
RowFound(ams, rows, k) ==
    \E r \in DOMAIN rows : rows[r].number = ams[k].number /\ rows[r].live /\ rows[r].carrier = ams[k].carrier

LEMMA HealthyCompares ==
    ASSUME NEW ams \in Seq(HealthRow), NEW rows \in Seq(HealthRow), Tombstoned(ams, rows) = {}, Mismatched(ams, rows) = {},
           NEW k \in DOMAIN ams, ams[k].live, ams[k].number # "", OneOfItsNumber(ams, k)
    PROVE  RowFound(ams, rows, k)
PROOF
<1>1. PICK r \in LastOfNumber(rows, DOMAIN rows) : rows[r].number = ams[k].number /\ rows[r].live
    BY DEF Tombstoned, LiveRows
<1>2. /\ r \in DOMAIN rows /\ rows[r].number # ""
      /\ ~\E j \in DOMAIN rows : j > r /\ rows[j].number = rows[r].number
    BY <1>1 DEF LastOfNumber
<1>3. r \in LastOfNumber(rows, LiveRows(rows))
    BY <1>1, <1>2 DEF LastOfNumber, LiveRows
<1>4. PICK last \in DOMAIN ams :
        ams[last].number = ams[k].number /\ \A j \in DOMAIN ams : j > last => ams[j].number # ams[k].number
    BY LastOfSome
<1>8. last \in LastOfNumber(ams, LiveRows(ams))
  <2>1. ams[last] = ams[k] /\ last \in LiveRows(ams)
      BY <1>4 DEF LiveRows, OneOfItsNumber
  <2>2. ~\E j \in LiveRows(ams) : j > last /\ ams[j].number = ams[last].number
      BY <1>4, <2>1 DEF LiveRows
  <2>3. QED
      BY <2>1, <2>2 DEF LastOfNumber
<1>9. ~(rows[r].number = ams[last].number /\ rows[r].carrier # ams[last].carrier)
    BY <1>3, <1>8 DEF Mismatched
<1>10. rows[r].carrier = ams[k].carrier
    BY <1>1, <1>4, <1>9 DEF OneOfItsNumber
<1>11. QED
    BY <1>1, <1>2, <1>10 DEF RowFound

LEMMA JudgeStep ==
    ASSUME HealthInv, NEW audits, Judge(audits) PROVE HealthInv'
PROOF
<1>1. /\ HealthTypeOK /\ health.at = "judge" /\ AmsIsCurrent(health.ams)
      /\ ~health.errors /\ ~health.cut => AllListed(health.ams)
      /\ RowsWereSo(health.rows)
      /\ UNCHANGED <<amsSide, mirrorSide, touched, matched>>
    BY DEF HealthInv, CheckOK, Judge, Environs
<1>2. PICK judged \in {"healthy", "drift"} :
        /\ health' = [health EXCEPT !.at = "over", !.page = 0, !.verdict = judged]
        /\ judged = "healthy" => /\ Tombstoned(health.ams, health.rows) = {}
                                  /\ Mismatched(health.ams, health.rows) = {} /\ ~health.errors
    BY DEF Judge
<1>3. PICK ams \in Seq(HealthRow), rows \in Seq(HealthRow) : ams = health.ams /\ rows = health.rows
    BY <1>1 DEF HealthTypeOK, HealthChecks
<1>4. health' \in HealthChecks /\ health'.at = "over" /\ health'.verdict = judged /\ health'.cut = health.cut
    BY <1>1, <1>2 DEF HealthTypeOK, HealthChecks
<1>5. HealthTypeOK'
    BY <1>1, <1>4 DEF HealthTypeOK
<1>6. ASSUME judged = "healthy", ~health.cut, NEW g \in Guids \ touched, amsSide[g].live, OwnNumber(g)
      PROVE  g \in matched
  <2>1. PICK k \in DOMAIN ams : ams[k] = AmsRecord(g)
      BY <1>1, <1>2, <1>3, <1>6 DEF AllListed, Listed
  <2>2. ams[k].number = NumberOf[g] /\ ams[k].live /\ ams[k].number # "" /\ ams[k].carrier = amsSide[g].carrier
    <3>1. ams[k].number = NumberOf[g] /\ ams[k].live = amsSide[g].live /\ ams[k].carrier = amsSide[g].carrier
        BY <2>1 DEF AmsRecord
    <3>2. NumberOf[g] # ""
        BY <1>6 DEF OwnNumber
    <3>3. QED
        BY <1>6, <3>1, <3>2
  <2>3. ASSUME NEW j \in DOMAIN ams, ams[j].number = ams[k].number PROVE ams[j] = ams[k]
    <3>1. PICK h \in Guids : ams[j].number = NumberOf[h] /\ (h \notin touched => ams[j] = AmsRecord(h))
        BY <1>1, <1>3 DEF AmsIsCurrent
    <3>2. h = g
        BY <1>6, <2>2, <2>3, <3>1 DEF OwnNumber
    <3>3. QED
        BY <1>6, <2>1, <3>1, <3>2
  <2>4. PICK r \in DOMAIN rows : rows[r].number = ams[k].number /\ rows[r].live /\ rows[r].carrier = ams[k].carrier
    <3>1. Tombstoned(ams, rows) = {} /\ Mismatched(ams, rows) = {}
        BY <1>2, <1>3, <1>6
    <3>2. OneOfItsNumber(ams, k) /\ ams[k].live /\ ams[k].number # ""
        BY <2>2, <2>3 DEF OneOfItsNumber
    <3>3. RowFound(ams, rows, k)
        BY <3>1, <3>2, HealthyCompares
    <3>4. QED
        BY <3>3 DEF RowFound
  <2>5. PICK h \in Guids : WasSo(rows[r], h)
      BY <1>1, <1>3 DEF RowsWereSo
  <2>6. h = g
      BY <1>6, <2>2, <2>4, <2>5 DEF OwnNumber, WasSo
  <2>7. rows[r].live = amsSide[g].live
    <3>1. rows[r] \in HealthRow /\ amsSide[g].live \in BOOLEAN
        BY <1>1 DEF HealthTypeOK, AmsSides
    <3>2. QED
        BY <1>6, <2>4, <3>1 DEF HealthRow
  <2>8. QED
      BY <1>6, <2>2, <2>4, <2>5, <2>6, <2>7 DEF WasSo
<1>7. HealthyMeansLive'
    BY <1>1, <1>4, <1>6 DEF HealthyMeansLive
<1>8. QED
    BY <1>4, <1>5, <1>7 DEF HealthInv, CheckOK
\* Others change the sides: what the check has read is told apart by touched and matched.
LEMMA OthersStir ==
    ASSUME HealthInv, NEW g \in Guids, touched' \in {touched, touched \cup {g}},
           amsSide' \in AmsSides, DatesDiffer(amsSide'), mirrorSide' \in [Guids -> [there: BOOLEAN, live: BOOLEAN, carrier: HealthText]],
           \A h \in Guids \ touched' : amsSide'[h] = amsSide[h] /\ AmsPlace(amsSide', h) >= AmsPlace(amsSide, h),
           Stirs
    PROVE  HealthInv'
PROOF
<1>1. /\ HealthTypeOK /\ touched \subseteq touched' /\ touched' \subseteq Guids
      /\ matched' = matched \cup {h \in Guids : InStep(h)'}
      /\ health' = IF health.at = "over" THEN [health EXCEPT !.verdict = ""] ELSE health
    BY DEF HealthInv, HealthTypeOK, Stirs
<1>2. health' \in HealthChecks /\ health'.at = health.at
    BY <1>1 DEF HealthTypeOK, HealthChecks
<1>3. HealthTypeOK'
    BY <1>1, <1>2 DEF HealthTypeOK
<1>4. CASE health.at = "over"
  <2>1. health'.verdict = "" /\ health'.at = "over"
      BY <1>1, <1>4 DEF HealthTypeOK, HealthChecks
  <2>2. QED
      BY <1>3, <2>1 DEF HealthInv, CheckOK, HealthyMeansLive
<1>5. CASE health.at # "over"
  <2>1. /\ health.at = "ams" => ListedUpTo(health.ams, health.page)
        /\ health.at # "ams" /\ ~health.errors /\ ~health.cut => AllListed(health.ams)
        /\ AmsIsCurrent(health.ams) /\ RowsWereSo(health.rows) /\ health.verdict = "" /\ health' = health
      BY <1>1, <1>5 DEF HealthInv, CheckOK
  <2>2. InStepIsMatched'
      BY <1>1 DEF InStepIsMatched
  <2>3. \A h \in Guids \ touched' : h \in Guids \ touched /\ AmsRecord(h)' = AmsRecord(h)
      BY <1>1 DEF AmsRecord
  <2>4. PICK ams \in Seq(HealthRow), rows \in Seq(HealthRow) : ams = health.ams /\ rows = health.rows
      BY <1>1 DEF HealthTypeOK, HealthChecks
  <2>5. AmsIsCurrent(health.ams)'
    <3>1. SUFFICES ASSUME NEW k \in DOMAIN ams
                   PROVE  \E h \in Guids : ams[k].number = NumberOf[h] /\ (h \notin touched' => ams[k] = AmsRecord(h)')
        BY <2>1, <2>4 DEF AmsIsCurrent
    <3>2. PICK h \in Guids : ams[k].number = NumberOf[h] /\ (h \notin touched => ams[k] = AmsRecord(h))
        BY <2>1, <2>4 DEF AmsIsCurrent
    <3>3. QED
        BY <2>3, <3>2
  <2>6. RowsWereSo(health.rows)'
    <3>1. SUFFICES ASSUME NEW k \in DOMAIN rows PROVE \E h \in Guids : WasSo(rows[k], h)'
        BY <2>1, <2>4 DEF RowsWereSo
    <3>2. PICK h \in Guids : WasSo(rows[k], h)
        BY <2>1, <2>4 DEF RowsWereSo
    <3>3. WasSo(rows[k], h)'
        BY <1>1, <3>2 DEF WasSo
    <3>4. QED
        BY <3>3
  <2>7. ASSUME NEW h \in Guids \ touched', Listed(ams, h) PROVE Listed(ams, h)'
      BY <2>3, <2>7 DEF Listed
  <2>8. health.at = "ams" => ListedUpTo(health.ams, health.page)'
    <3>1. SUFFICES ASSUME health.at = "ams", NEW h \in Guids \ touched'
                   PROVE  Listed(ams, h)' \/ AmsPlace(amsSide', h) >= health.page * HealthPage
        BY <2>1, <2>4 DEF ListedUpTo
    <3>2. Listed(ams, h) \/ AmsPlace(amsSide, h) >= health.page * HealthPage
        BY <2>1, <2>3, <2>4, <3>1 DEF ListedUpTo
    <3>3. PICK n \in Nat : n = health.page * HealthPage
      <4>1. health.page \in Nat /\ HealthPage \in Nat
          BY <1>1, HealthAssumption DEF HealthTypeOK, HealthChecks
      <4>2. health.page * HealthPage \in Nat
          BY <4>1
      <4>3. QED
          BY <4>2
    <3>4. PICK a \in Nat, b \in Nat : a = AmsPlace(amsSide, h) /\ b = AmsPlace(amsSide', h)
      <4>1. AmsPlace(amsSide, h) \in 0..(Cardinality(Guids) - 1)
          BY <1>1, AmsPlaces DEF HealthTypeOK
      <4>2. PICK next \in AmsSides : next = amsSide'
          OBVIOUS
      <4>3. AmsPlace(next, h) \in 0..(Cardinality(Guids) - 1)
          BY <4>2, AmsPlaces
      <4>4. QED
          BY <4>1, <4>2, <4>3
    <3>5. b >= a
        BY <3>4
    <3>6. QED
        BY <2>7, <3>2, <3>3, <3>4, <3>5
  <2>9. health.at # "ams" /\ ~health.errors /\ ~health.cut => AllListed(health.ams)'
      BY <2>1, <2>3, <2>4, <2>7 DEF AllListed
  <2>10. QED
      BY <1>3, <1>5, <2>1, <2>2, <2>5, <2>6, <2>8, <2>9 DEF HealthInv, CheckOK, HealthyMeansLive
<1>6. QED
    BY <1>4, <1>5

LEMMA EditStep ==
    ASSUME HealthInv, NEW g \in Guids, EditAmsPolicy(g) PROVE HealthInv'
PROOF
<1>1. HealthTypeOK /\ amsSide \in AmsSides /\ DatesDiffer(amsSide)
    BY DEF HealthInv, HealthTypeOK
<1>2. PICK latest \in Nat : latest = Latest /\ \A h \in Guids : amsSide[h].date <= latest
    BY <1>1, LatestIsLast
<1>3. PICK new \in AmsEntry : new.date = latest + 1 /\ amsSide' = [amsSide EXCEPT ![g] = new]
  <2>1. latest + 1 \in Nat
      OBVIOUS
  <2>2. PICK live, carrier :
          /\ live \in BOOLEAN /\ carrier \in HealthText
          /\ amsSide' = [amsSide EXCEPT ![g] = [live |-> live, carrier |-> carrier, date |-> latest + 1]]
      BY <1>2 DEF EditAmsPolicy, HealthText
  <2>3. [live |-> live, carrier |-> carrier, date |-> latest + 1] \in AmsEntry
      BY <2>1, <2>2 DEF AmsEntry
  <2>4. QED
      BY <2>2, <2>3
<1>4. \A h \in Guids : amsSide[h].date < new.date
  <2>1. \A h \in Guids : amsSide[h].date \in Nat
      BY <1>1 DEF AmsSides
  <2>2. QED
      BY <1>2, <1>3, <2>1
<1>5. amsSide' \in AmsSides /\ DatesDiffer(amsSide') /\ NoneGoesForward(amsSide, amsSide', g)
    BY <1>1, <1>3, <1>4, ChangedGoesFirst
<1>8. touched' = touched \cup {g} /\ mirrorSide' = mirrorSide /\ Stirs
    BY DEF EditAmsPolicy
<1>9. \A h \in Guids \ touched' : amsSide'[h] = amsSide[h] /\ AmsPlace(amsSide', h) >= AmsPlace(amsSide, h)
    BY <1>5, <1>8 DEF NoneGoesForward
<1>10. mirrorSide' \in [Guids -> [there: BOOLEAN, live: BOOLEAN, carrier: HealthText]]
    BY <1>1, <1>8 DEF HealthTypeOK
<1>11. QED
    BY <1>5, <1>8, <1>9, <1>10, OthersStir

LEMMA MirrorSteps ==
    ASSUME HealthInv, NEW g \in Guids, MirrorPolicy(g) \/ ClearRow(g) PROVE HealthInv'
PROOF
<1>1. HealthTypeOK /\ amsSide' = amsSide /\ touched' = touched /\ Stirs
    BY DEF HealthInv, MirrorPolicy, ClearRow
<1>2. mirrorSide' \in [Guids -> [there: BOOLEAN, live: BOOLEAN, carrier: HealthText]]
  <2>1. PICK rows \in [Guids -> [there: BOOLEAN, live: BOOLEAN, carrier: HealthText]] : rows = mirrorSide
      BY <1>1 DEF HealthTypeOK
  <2>2. amsSide[g].live \in BOOLEAN /\ amsSide[g].carrier \in HealthText
      BY <1>1 DEF HealthTypeOK, AmsSides
  <2>3. CASE mirrorSide' = [mirrorSide EXCEPT ![g] = [there |-> TRUE, live |-> amsSide[g].live, carrier |-> amsSide[g].carrier]]
      BY <2>1, <2>2, <2>3
  <2>4. CASE mirrorSide' = [mirrorSide EXCEPT ![g].live = FALSE]
      BY <2>1, <2>4
  <2>5. QED
      BY <2>3, <2>4 DEF MirrorPolicy, ClearRow
<1>3. \A h \in Guids : AmsPlace(amsSide, h) \in Nat
    BY <1>1, AmsPlaces DEF HealthTypeOK
<1>4. /\ amsSide' \in AmsSides /\ DatesDiffer(amsSide')
      /\ \A h \in Guids \ touched' : amsSide'[h] = amsSide[h] /\ AmsPlace(amsSide', h) >= AmsPlace(amsSide, h)
    BY <1>1, <1>3 DEF HealthTypeOK
<1>5. QED
    BY <1>1, <1>2, <1>4, OthersStir

LEMMA HealthStep ==
    ASSUME HealthInv, [HealthNext]_healthVars PROVE HealthInv'
PROOF
<1>1. CASE UNCHANGED healthVars
  <2>1. UNCHANGED <<amsSide, mirrorSide, health, touched, matched>>
      BY <1>1 DEF healthVars
  <2>2. InStepIsMatched' <=> InStepIsMatched
      BY <2>1 DEF InStepIsMatched, InStep
  <2>3. HealthTypeOK'
      BY <2>1 DEF HealthInv, HealthTypeOK
  <2>4. CheckOK'
    <3>1. AmsIsCurrent(health.ams)' <=> AmsIsCurrent(health.ams)
        BY <2>1 DEF AmsIsCurrent, AmsRecord
    <3>2. RowsWereSo(health.rows)' <=> RowsWereSo(health.rows)
        BY <2>1 DEF RowsWereSo, WasSo
    <3>3. /\ \A g : Listed(health.ams, g)' <=> Listed(health.ams, g)
          /\ \A g : AmsPlace(amsSide, g)' = AmsPlace(amsSide, g)
      <4>1. \A g : AmsRecord(g)' = AmsRecord(g)
          BY <2>1 DEF AmsRecord
      <4>2. \A g : Listed(health.ams, g)' <=> Listed(health.ams, g)
          BY <2>1, <4>1 DEF Listed
      <4>3. \A g : AmsPlace(amsSide, g)' = AmsPlace(amsSide, g)
          BY <2>1 DEF AmsPlace
      <4>4. QED
          BY <4>2, <4>3
    <3>4. ListedUpTo(health.ams, health.page)' <=> ListedUpTo(health.ams, health.page)
        BY <2>1, <3>3 DEF ListedUpTo
    <3>5. AllListed(health.ams)' <=> AllListed(health.ams)
        BY <2>1, <3>3 DEF AllListed
    <3>6. QED
        BY <2>1, <2>2, <3>1, <3>2, <3>3, <3>4, <3>5 DEF HealthInv, CheckOK
  <2>5. HealthyMeansLive'
      BY <2>1 DEF HealthInv, HealthyMeansLive
  <2>6. QED
      BY <2>3, <2>4, <2>5 DEF HealthInv
<1>2. CASE HealthNext
    BY <1>2, BeginStep, ReadAmsStep, ReadRowsStep, JudgeStep, EditStep, MirrorSteps DEF HealthNext
<1>3. QED
    BY <1>1, <1>2

\* A health report that says healthy missed no policy that nobody touched meanwhile (see
\* HealthyMeansLive), for any number of policies and pages, from dates that differ.
THEOREM HealthyIsLive ==
    ASSUME NEW sides \in SUBSET AmsSides, \A side \in sides : DatesDiffer(side), NEW copied
    PROVE  HealthSpec(sides, copied) => []HealthyMeansLive
PROOF
<1>1. HealthInit(sides, copied) => HealthInv
    BY HealthStart
<1>2. HealthInv /\ [HealthNext]_healthVars => HealthInv'
    BY HealthStep
<1>3. HealthInv => HealthyMeansLive
    BY DEF HealthInv
<1>4. QED
    BY <1>1, <1>2, <1>3, PTL DEF HealthSpec

-----------------------------------------------------------------------------
(* ZohoBackfill: what a run leaves in Zoho, and what it leaves alone.         *)

LEMMA LeastIn ==
    ASSUME NEW S \in SUBSET Nat, S # {}
    PROVE  Min(S) \in S
BY FirstOfSome DEF Min

ZohoModules == {"Accounts", "Policies", "Renewals"}
Risks == {"", "Urgent", "At Risk", "Upcoming"}
ZohoKeys == Names \cup Numbers \cup {""}
ZohoDates == Nat \cup {NoDate}
ZohoRecord == [module : ZohoModules, guid : STRING, key : ZohoKeys, account : Nat, exp : ZohoDates, version : Nat, risk : Risks]

\* No two records have one GUID, nor two policies, nor two insureds.
OneEach(s) == \A j, k \in DOMAIN s : s[j].guid # "" /\ s[j].guid = s[k].guid => j = k
OneRecordEach(z) ==
    \A r, s \in DOMAIN z : z[r].module = z[s].module /\ z[r].guid # "" /\ z[r].guid = z[s].guid => r = s

\* A record of a policy that has no number in NowCerts has none either, and only
\* renewals have a risk.
KeysOK(z, policies) ==
    \A r \in DOMAIN z :
        /\ z[r].module = "Policies" => z[r].risk = ""
        /\ \A k \in DOMAIN policies :
              (z[r].module # "Accounts" /\ policies[k].guid # "" /\ policies[k].number = "" /\ z[r].guid = policies[k].guid)
                  => z[r].key = ""

\* What the lookups find.
MatchedIn(z, payload, by, e) ==
    /\ e \in 0..Len(z)
    /\ e > 0 => Matches(z[e], payload, by)
    /\ e = 0 => \A r \in DOMAIN z : ~Matches(z[r], payload, by)

LEMMA LookedUp ==
    ASSUME zoho \in Seq(ZohoRecord), NEW payload, NEW by
    PROVE  MatchedIn(zoho, payload, by, Found(payload, by))
PROOF
<1>1. PICK z \in Seq(ZohoRecord) : z = zoho
    OBVIOUS
<1>2. PICK I : I = {i \in 1..Len(z) : Matches(z[i], payload, by)}
    OBVIOUS
<1>3. Found(payload, by) = IF I # {} THEN Min(I) ELSE 0
    BY <1>1, <1>2 DEF Found, SelectInSeq
<1>4. I \in SUBSET Nat /\ DOMAIN z = 1..Len(z) /\ Len(z) \in Nat
    BY <1>2
<1>5. CASE I = {}
    BY <1>1, <1>2, <1>3, <1>4, <1>5 DEF MatchedIn
<1>6. CASE I # {}
  <2>1. PICK m \in I : m = Found(payload, by)
      BY <1>3, <1>4, <1>6, LeastIn
  <2>2. QED
      BY <1>1, <1>2, <1>4, <2>1 DEF MatchedIn
<1>7. QED
    BY <1>5, <1>6

\* A record is written over if it has the GUID; if it has the key, and either the payload
\* has no GUID or no account has it.
HasGuid(r, payload) == r.module = payload.module /\ r.guid = payload.guid
WrittenOver(z, payload, e) ==
    /\ e \in 0..Len(z)
    /\ e > 0 => \/ payload.guid # "" /\ HasGuid(z[e], payload)
                \/ /\ z[e].module = payload.module /\ z[e].key = payload.key
                   /\ payload.guid # "" => payload.module = "Accounts" /\ \A r \in DOMAIN z : ~HasGuid(z[r], payload)
    /\ e = 0 /\ payload.guid # "" => \A r \in DOMAIN z : ~HasGuid(z[r], payload)

LEMMA ExistingIs ==
    ASSUME zoho \in Seq(ZohoRecord), NEW payload
    PROVE  WrittenOver(zoho, payload, Existing(payload))
PROOF
<1>1. PICK g : g = Found(payload, "guid")
    OBVIOUS
<1>2. PICK n : n = Found(payload, "key")
    OBVIOUS
<1>3. MatchedIn(zoho, payload, "guid", g) /\ MatchedIn(zoho, payload, "key", n)
    BY <1>1, <1>2, LookedUp
<1>4. PICK z \in Seq(ZohoRecord) : z = zoho
    OBVIOUS
<1>5. /\ g \in 0..Len(z) /\ n \in 0..Len(z) /\ Len(z) \in Nat /\ DOMAIN z = 1..Len(z)
      /\ g > 0 => HasGuid(z[g], payload)
      /\ g = 0 => \A r \in DOMAIN z : ~HasGuid(z[r], payload)
      /\ n > 0 => z[n].module = payload.module /\ z[n].key = payload.key
    BY <1>3, <1>4 DEF MatchedIn, Matches, HasGuid
<1>6. Existing(payload) = IF payload.guid # "" /\ (g > 0 \/ payload.module # "Accounts") THEN g ELSE n
    BY <1>1, <1>2 DEF Existing
<1>7. PICK e : e = Existing(payload)
    OBVIOUS
<1>8. CASE payload.guid # "" /\ (g > 0 \/ payload.module # "Accounts")
  <2>1. e = g
      BY <1>6, <1>7, <1>8
  <2>2. e \in 0..Len(z)
      BY <1>5, <2>1
  <2>3. e > 0 => payload.guid # "" /\ HasGuid(z[e], payload)
      BY <1>5, <1>8, <2>1
  <2>4. e = 0 => \A r \in DOMAIN z : ~HasGuid(z[r], payload)
      BY <1>5, <2>1
  <2>5. QED
      BY <1>4, <1>7, <2>2, <2>3, <2>4 DEF WrittenOver
<1>9. CASE ~(payload.guid # "" /\ (g > 0 \/ payload.module # "Accounts"))
  <2>1. e = n
      BY <1>6, <1>7, <1>9
  <2>2. e \in 0..Len(z)
      BY <1>5, <2>1
  <2>3. e > 0 => z[e].module = payload.module /\ z[e].key = payload.key
      BY <1>5, <2>1
  <2>4. g \in Nat /\ (payload.guid # "" => payload.module = "Accounts" /\ ~(g > 0))
    <3>1. g \in Nat
        BY <1>5
    <3>2. QED
        BY <1>9, <3>1
  <2>5. payload.guid # "" => payload.module = "Accounts" /\ \A r \in DOMAIN z : ~HasGuid(z[r], payload)
    <3>1. g \in Nat
        BY <2>4
    <3>2. g > 0 \/ g = 0
        BY <3>1
    <3>3. QED
        BY <1>5, <2>4, <3>2
  <2>6. QED
      BY <1>4, <1>7, <2>2, <2>3, <2>5 DEF WrittenOver
<1>10. QED
    BY <1>8, <1>9

\* What is kept of a record that is written over.
IsKept(k, old, new) ==
    /\ k \in ZohoRecord /\ k.module = new.module
    /\ k.guid = IF new.guid = "" THEN old.guid ELSE new.guid
    /\ k.key = IF new.key = "" THEN old.key ELSE new.key
    /\ k.account = IF new.account = 0 THEN old.account ELSE new.account
    /\ k.exp = IF new.exp = NoDate THEN old.exp ELSE new.exp
    /\ k.version = IF new.version = 0 THEN old.version ELSE new.version
    /\ k.risk = IF new.risk = "" THEN old.risk ELSE new.risk

LEMMA KeptIs ==
    ASSUME NEW old \in ZohoRecord, NEW new \in ZohoRecord
    PROVE  IsKept(Kept(old, new), old, new)
PROOF
<1>1. DOMAIN new = {"module", "guid", "key", "account", "exp", "version", "risk"}
    BY DEF ZohoRecord
<1>2. PICK k : k = [f \in DOMAIN new |-> IF new[f] = BlankRecord[f] THEN old[f] ELSE new[f]]
    OBVIOUS
<1>3. k = [module |-> IF new.module = "" THEN old.module ELSE new.module,
           guid |-> IF new.guid = "" THEN old.guid ELSE new.guid,
           key |-> IF new.key = "" THEN old.key ELSE new.key,
           account |-> IF new.account = 0 THEN old.account ELSE new.account,
           exp |-> IF new.exp = NoDate THEN old.exp ELSE new.exp,
           version |-> IF new.version = 0 THEN old.version ELSE new.version,
           risk |-> IF new.risk = "" THEN old.risk ELSE new.risk]
    BY <1>1, <1>2 DEF BlankRecord
<1>4. new.module # ""
    BY DEF ZohoRecord, ZohoModules
<1>5. IsKept(k, old, new)
    BY <1>3, <1>4 DEF IsKept, ZohoRecord
<1>6. QED
    BY <1>2, <1>5 DEF Kept

LEMMA PlaceWritten ==
    ASSUME NEW z \in Seq(ZohoRecord), NEW payload, NEW e, WrittenOver(z, payload, e)
    PROVE  e \in 0..Len(z) /\ Len(z) \in Nat /\ DOMAIN z = 1..Len(z)
PROOF
<1>1. e \in 0..Len(z)
    BY DEF WrittenOver
<1>2. QED
    BY <1>1

\* What a write leaves behind.
Rewritten(z, y, payload, e) ==
    /\ y \in Seq(ZohoRecord) /\ Len(z) <= Len(y)
    /\ \A r \in DOMAIN z : y[r] = z[r] \/ (r = e /\ IsKept(y[r], z[r], payload))
    /\ \A r \in DOMAIN y \ DOMAIN z : y[r] = payload /\ e = 0
WrittenAt(z, y, payload, e, id) ==
    id # NoId => id \in DOMAIN y /\ (y[id] = payload \/ (id = e /\ e \in DOMAIN z /\ IsKept(y[id], z[id], payload)))

LEMMA UpsertedIs ==
    ASSUME zoho \in Seq(ZohoRecord), NEW payload \in ZohoRecord
    PROVE  /\ Rewritten(zoho, Upserted(payload), payload, Existing(payload))
           /\ WrittenAt(zoho, Upserted(payload), payload, Existing(payload),
                        IF Existing(payload) > 0 THEN Existing(payload) ELSE Len(zoho) + 1)
           /\ Len(Upserted(payload)) <= Len(zoho) + 1
           /\ Existing(payload) # 0 => Len(Upserted(payload)) = Len(zoho)
PROOF
<1>1. PICK e : e = Existing(payload)
    OBVIOUS
<1>2. PICK z \in Seq(ZohoRecord) : z = zoho
    OBVIOUS
<1>3. e \in 0..Len(z) /\ Len(z) \in Nat /\ DOMAIN z = 1..Len(z)
    BY <1>1, <1>2, ExistingIs, PlaceWritten
<1>4. PICK y : y = Upserted(payload)
    OBVIOUS
<1>5. CASE e > 0
  <2>1. e \in DOMAIN z /\ z[e] \in ZohoRecord
      BY <1>3, <1>5
  <2>2. PICK k : k = Kept(z[e], payload)
      OBVIOUS
  <2>3. IsKept(k, z[e], payload) /\ k \in ZohoRecord
      BY <2>1, <2>2, KeptIs DEF IsKept
  <2>4. y = [z EXCEPT ![e] = k]
      BY <1>1, <1>2, <1>4, <1>5, <2>2 DEF Upserted
  <2>5. y \in Seq(ZohoRecord) /\ Len(y) = Len(z) /\ DOMAIN y = DOMAIN z /\ y[e] = k
      BY <2>1, <2>3, <2>4
  <2>6. \A r \in DOMAIN z : y[r] = z[r] \/ (r = e /\ IsKept(y[r], z[r], payload))
      BY <2>3, <2>4, <2>5
  <2>7. Rewritten(z, y, payload, e)
      BY <1>3, <2>5, <2>6 DEF Rewritten
  <2>8. WrittenAt(z, y, payload, e, e)
      BY <2>1, <2>3, <2>5 DEF WrittenAt
  <2>9. QED
      BY <1>1, <1>2, <1>3, <1>4, <1>5, <2>5, <2>7, <2>8
<1>6. CASE e = 0
  <2>1. y = Append(z, payload)
      BY <1>1, <1>2, <1>4, <1>6 DEF Upserted
  <2>2. y \in Seq(ZohoRecord) /\ Len(y) = Len(z) + 1 /\ DOMAIN y = 1..(Len(z) + 1) /\ y[Len(z) + 1] = payload
      BY <1>3, <2>1
  <2>3. \A r \in DOMAIN z : y[r] = z[r]
      BY <1>3, <2>1
  <2>4. \A r \in DOMAIN y \ DOMAIN z : y[r] = payload
      BY <1>3, <2>2
  <2>5. Rewritten(z, y, payload, e)
      BY <1>3, <1>6, <2>2, <2>3, <2>4 DEF Rewritten
  <2>6. WrittenAt(z, y, payload, e, Len(z) + 1)
      BY <1>3, <2>2 DEF WrittenAt
  <2>7. QED
      BY <1>1, <1>2, <1>3, <1>4, <1>6, <2>2, <2>5, <2>6
<1>7. QED
    BY <1>3, <1>5, <1>6

\* A request: what it found, what it left, and whether one was made without an answer.
Asked(z, y, payload, e, id, before, after) ==
    /\ WrittenOver(z, payload, e)
    /\ Rewritten(z, y, payload, e)
    /\ WrittenAt(z, y, payload, e, id)
    /\ ~after => ~before /\ Len(y) <= Len(z) + 1
    /\ after \in BOOLEAN

LEMMA NothingRewritten ==
    ASSUME NEW z \in Seq(ZohoRecord), NEW payload, NEW e PROVE Rewritten(z, z, payload, e)
BY DEF Rewritten

LEMMA UpsertIs ==
    ASSUME zoho \in Seq(ZohoRecord), unanswered \in BOOLEAN, NEW payload \in ZohoRecord, NEW id, Upsert(payload, id)
    PROVE  Asked(zoho, zoho', payload, Existing(payload), id, unanswered, unanswered')
PROOF
<1>1. PICK e : e = Existing(payload)
    OBVIOUS
<1>2. PICK z \in Seq(ZohoRecord) : z = zoho
    OBVIOUS
<1>3. WrittenOver(z, payload, e)
    BY <1>1, <1>2, ExistingIs
<1>4. e \in 0..Len(z) /\ Len(z) \in Nat /\ DOMAIN z = 1..Len(z)
    BY <1>2, <1>3, PlaceWritten
<1>5. PICK y : y = Upserted(payload)
    OBVIOUS
<1>6. /\ Rewritten(z, y, payload, e) /\ WrittenAt(z, y, payload, e, IF e > 0 THEN e ELSE Len(z) + 1)
      /\ Len(y) <= Len(z) + 1 /\ (e # 0 => Len(y) = Len(z))
    BY <1>1, <1>2, <1>5, UpsertedIs
<1>7. Rewritten(z, z, payload, e)
    BY NothingRewritten
<1>8. WrittenAt(z, z, payload, e, NoId) /\ WrittenAt(z, y, payload, e, NoId)
    BY DEF WrittenAt
<1>9. CASE zoho' = Upserted(payload) /\ UNCHANGED unanswered /\ id = IF Existing(payload) > 0 THEN Existing(payload) ELSE Len(zoho) + 1
    BY <1>1, <1>2, <1>3, <1>5, <1>6, <1>9 DEF Asked
<1>10. CASE id = NoId /\ UNCHANGED <<zoho, unanswered>>
    BY <1>1, <1>2, <1>3, <1>4, <1>7, <1>8, <1>10 DEF Asked
<1>11. CASE id = NoId /\ zoho' = Upserted(payload) /\ unanswered' = (unanswered \/ Existing(payload) = 0)
    BY <1>1, <1>2, <1>3, <1>5, <1>6, <1>8, <1>11 DEF Asked
<1>12. CASE /\ Existing(payload) = 0 /\ zoho' = zoho \o <<payload, payload>> /\ unanswered' = TRUE
            /\ id = Len(zoho) + 2
  <2>1. PICK w : w = z \o <<payload, payload>>
      OBVIOUS
  <2>2. w \in Seq(ZohoRecord) /\ Len(w) = Len(z) + 2 /\ DOMAIN w = 1..(Len(z) + 2)
      BY <1>4, <2>1
  <2>3. \A r \in DOMAIN z : w[r] = z[r]
      BY <1>4, <2>1
  <2>4. w[Len(z) + 1] = payload /\ w[Len(z) + 2] = payload
      BY <1>4, <2>1
  <2>5. \A r \in DOMAIN w \ DOMAIN z : w[r] = payload
      BY <1>4, <2>2, <2>4
  <2>6. Rewritten(z, w, payload, e)
      BY <1>1, <1>4, <1>12, <2>2, <2>3, <2>5 DEF Rewritten
  <2>7. WrittenAt(z, w, payload, e, Len(z) + 2)
      BY <1>4, <2>2, <2>4 DEF WrittenAt
  <2>8. QED
      BY <1>1, <1>2, <1>3, <1>12, <2>1, <2>6, <2>7 DEF Asked
<1>13. QED
    BY <1>9, <1>10, <1>11, <1>12 DEF Upsert

-----------------------------------------------------------------------------
\* What a write keeps.

\* A payload made of one of these policies.
FitsPolicies(payload, P) ==
    /\ payload.module = "Policies" => payload.risk = ""
    /\ \A k \in DOMAIN P :
          (payload.module # "Accounts" /\ P[k].guid # "" /\ P[k].number = "" /\ payload.guid = P[k].guid) => payload.key = ""

LEMMA RecordsInZoho ==
    ASSUME NEW z \in Seq(ZohoRecord), NEW e \in DOMAIN z PROVE z[e] \in ZohoRecord
OBVIOUS

LEMMA PlaceOver ==
    ASSUME NEW z \in Seq(ZohoRecord), NEW payload, NEW e \in DOMAIN z, WrittenOver(z, payload, e)
    PROVE  /\ z[e].module = payload.module
           /\ payload.module # "Accounts" => \/ payload.guid # "" /\ z[e].guid = payload.guid
                                             \/ payload.guid = "" /\ z[e].key = payload.key
PROOF
<1>1. e > 0
    OBVIOUS
<1>2. CASE payload.guid # "" /\ HasGuid(z[e], payload)
    BY <1>2 DEF HasGuid
<1>3. CASE /\ z[e].module = payload.module /\ z[e].key = payload.key
           /\ payload.guid # "" => payload.module = "Accounts"
    BY <1>3
<1>4. QED
    BY <1>1, <1>2, <1>3 DEF WrittenOver

LEMMA OneRecordStays ==
    ASSUME NEW z \in Seq(ZohoRecord), NEW y, NEW payload \in ZohoRecord, NEW e,
           WrittenOver(z, payload, e), Rewritten(z, y, payload, e), Len(y) <= Len(z) + 1, OneRecordEach(z)
    PROVE  OneRecordEach(y)
PROOF
<1>1. y \in Seq(ZohoRecord) /\ Len(z) \in Nat /\ Len(y) \in Nat /\ Len(z) <= Len(y) /\ DOMAIN z = 1..Len(z) /\ DOMAIN y = 1..Len(y)
    BY DEF Rewritten
<1>2. \A r \in DOMAIN z : y[r].module = z[r].module /\ (y[r].guid # z[r].guid => r = e /\ y[r].guid = payload.guid)
  <2>1. SUFFICES ASSUME NEW r \in DOMAIN z PROVE y[r].module = z[r].module /\ (y[r].guid # z[r].guid => r = e /\ y[r].guid = payload.guid)
      OBVIOUS
  <2>2. CASE y[r] = z[r]
      BY <2>2
  <2>3. CASE r = e /\ IsKept(y[r], z[r], payload)
    <3>1. z[r].module = payload.module
        BY <2>3, PlaceOver
    <3>2. QED
        BY <2>3, <3>1 DEF IsKept
  <2>4. QED
      BY <2>2, <2>3 DEF Rewritten
<1>3. \A r \in DOMAIN z : y[r].guid # z[r].guid => payload.guid # "" /\ \A s \in DOMAIN z : ~HasGuid(z[s], payload)
  <2>1. SUFFICES ASSUME NEW r \in DOMAIN z, y[r].guid # z[r].guid
                 PROVE  payload.guid # "" /\ \A s \in DOMAIN z : ~HasGuid(z[s], payload)
      OBVIOUS
  <2>2. r = e /\ IsKept(y[r], z[r], payload) /\ e > 0
      BY <1>1, <2>1 DEF Rewritten
  <2>3. payload.guid # "" /\ z[e].guid # payload.guid
      BY <2>1, <2>2 DEF IsKept
  <2>4. ~HasGuid(z[e], payload)
      BY <2>3 DEF HasGuid
  <2>5. QED
      BY <2>2, <2>3, <2>4 DEF WrittenOver
<1>4. \A r \in DOMAIN z : y[r].guid # z[r].guid => y[r].module = payload.module /\ y[r].guid = payload.guid
  <2>1. SUFFICES ASSUME NEW r \in DOMAIN z, y[r].guid # z[r].guid
                 PROVE  y[r].module = payload.module
      BY <1>2
  <2>2. r = e /\ IsKept(y[r], z[r], payload)
      BY <2>1 DEF Rewritten
  <2>3. QED
      BY <2>2 DEF IsKept
<1>5. \A r \in DOMAIN y \ DOMAIN z : r = Len(z) + 1 /\ y[r] = payload /\ (payload.guid # "" => \A s \in DOMAIN z : ~HasGuid(z[s], payload) /\ y[s] = z[s])
  <2>1. SUFFICES ASSUME NEW r \in DOMAIN y \ DOMAIN z
                 PROVE  r = Len(z) + 1 /\ y[r] = payload /\ (payload.guid # "" => \A s \in DOMAIN z : ~HasGuid(z[s], payload) /\ y[s] = z[s])
      OBVIOUS
  <2>2. y[r] = payload /\ e = 0
      BY DEF Rewritten
  <2>3. r = Len(z) + 1
      BY <1>1
  <2>4. payload.guid # "" => \A s \in DOMAIN z : ~HasGuid(z[s], payload)
      BY <2>2 DEF WrittenOver
  <2>5. \A s \in DOMAIN z : y[s] = z[s]
      BY <1>1, <2>2 DEF Rewritten
  <2>6. QED
      BY <2>2, <2>3, <2>4, <2>5
<1>6. SUFFICES ASSUME NEW r \in DOMAIN y, NEW s \in DOMAIN y,
                      y[r].module = y[s].module, y[r].guid # "", y[r].guid = y[s].guid
               PROVE  r = s
    BY DEF OneRecordEach
<1>7. CASE r \in DOMAIN z /\ s \in DOMAIN z
  <2>1. CASE y[r].guid = z[r].guid /\ y[s].guid = z[s].guid
      BY <1>2, <1>6, <1>7, <2>1 DEF OneRecordEach
  <2>2. CASE y[r].guid # z[r].guid /\ y[s].guid = z[s].guid
    <3>1. HasGuid(z[s], payload)
        BY <1>2, <1>4, <1>6, <1>7, <2>2 DEF HasGuid
    <3>2. QED
        BY <1>3, <1>7, <2>2, <3>1
  <2>3. CASE y[r].guid = z[r].guid /\ y[s].guid # z[s].guid
    <3>1. HasGuid(z[r], payload)
        BY <1>2, <1>4, <1>6, <1>7, <2>3 DEF HasGuid
    <3>2. QED
        BY <1>3, <1>7, <2>3, <3>1
  <2>4. CASE y[r].guid # z[r].guid /\ y[s].guid # z[s].guid
      BY <1>2, <1>7, <2>4
  <2>5. QED
      BY <2>1, <2>2, <2>3, <2>4
<1>8. CASE r \in DOMAIN z /\ s \notin DOMAIN z
  <2>1. y[s] = payload /\ ~HasGuid(z[r], payload) /\ y[r] = z[r]
      BY <1>5, <1>6, <1>8
  <2>2. QED
      BY <1>6, <2>1 DEF HasGuid
<1>9. CASE r \notin DOMAIN z /\ s \in DOMAIN z
  <2>1. y[r] = payload /\ ~HasGuid(z[s], payload) /\ y[s] = z[s]
      BY <1>5, <1>6, <1>9
  <2>2. QED
      BY <1>6, <2>1 DEF HasGuid
<1>10. CASE r \notin DOMAIN z /\ s \notin DOMAIN z
  <2>1. r = Len(z) + 1
      BY <1>5, <1>6, <1>10
  <2>2. s = Len(z) + 1
      BY <1>5, <1>6, <1>10
  <2>3. QED
      BY <2>1, <2>2
<1>11. QED
    BY <1>7, <1>8, <1>9, <1>10

LEMMA KeysStay ==
    ASSUME NEW z \in Seq(ZohoRecord), NEW y, NEW payload \in ZohoRecord, NEW e, NEW P,
           WrittenOver(z, payload, e), Rewritten(z, y, payload, e), KeysOK(z, P), FitsPolicies(payload, P)
    PROVE  KeysOK(y, P)
PROOF
<1>1. y \in Seq(ZohoRecord) /\ DOMAIN z = 1..Len(z) /\ Len(z) \in Nat
    BY DEF Rewritten
<1>2. ASSUME NEW r \in DOMAIN y
      PROVE  /\ y[r].module = "Policies" => y[r].risk = ""
             /\ \A k \in DOMAIN P : (y[r].module # "Accounts" /\ P[k].guid # "" /\ P[k].number = "" /\ y[r].guid = P[k].guid) => y[r].key = ""
  <2>1. CASE r \in DOMAIN z /\ y[r] = z[r]
      BY <2>1 DEF KeysOK
  <2>2. CASE r \notin DOMAIN z
    <3>1. y[r] = payload
        BY <2>2 DEF Rewritten
    <3>2. QED
        BY <3>1 DEF FitsPolicies
  <2>3. CASE r \in DOMAIN z /\ r = e /\ IsKept(y[r], z[r], payload)
    <3>1. PICK new \in ZohoRecord : new = y[r]
        BY <2>3 DEF IsKept
    <3>2. PICK old \in ZohoRecord : old = z[r]
        BY <2>3
    <3>3. /\ old.module = payload.module /\ (payload.module # "Accounts" => \/ payload.guid # "" /\ old.guid = payload.guid
                                                                            \/ payload.guid = "" /\ old.key = payload.key)
        BY <2>3, <3>2, PlaceOver
    <3>4. IsKept(new, old, payload)
        BY <2>3, <3>1, <3>2
    <3>5. /\ old.module = "Policies" => old.risk = ""
          /\ \A k \in DOMAIN P : (old.module # "Accounts" /\ P[k].guid # "" /\ P[k].number = "" /\ old.guid = P[k].guid) => old.key = ""
        BY <2>3, <3>2 DEF KeysOK
    <3>6. new.module = "Policies" => new.risk = ""
        BY <3>3, <3>4, <3>5 DEF IsKept, FitsPolicies
    <3>7. ASSUME NEW k \in DOMAIN P, new.module # "Accounts", P[k].guid # "", P[k].number = "", new.guid = P[k].guid
          PROVE  new.key = ""
      <4>1. new.guid = old.guid /\ payload.module # "Accounts"
          BY <3>3, <3>4, <3>7 DEF IsKept
      <4>2. old.key = ""
          BY <3>3, <3>5, <3>7, <4>1
      <4>3. payload.key = ""
          BY <3>3, <3>7, <4>1, <4>2 DEF FitsPolicies
      <4>4. QED
          BY <3>4, <4>2, <4>3 DEF IsKept
    <3>8. QED
        BY <3>1, <3>6, <3>7
  <2>4. QED
      BY <2>1, <2>2, <2>3 DEF Rewritten
<1>3. QED
    BY <1>2 DEF KeysOK

\* What is mirrored, and in the way of nothing that is written.
HasMirror(z, p) == \E r \in DOMAIN z : Mirrored(z[r], p)
Spared(z, p, payload) ==
    \/ payload.module # p.module
    \/ /\ payload.module # "Accounts"
       /\ IF payload.guid = "" THEN \A r \in DOMAIN z : Mirrored(z[r], p) => z[r].key # payload.key ELSE payload.guid # p.guid

LEMMA MirrorIs ==
    ASSUME NEW r, NEW p \in ZohoRecord
    PROVE  Mirrored(r, p) <=> r = [module |-> p.module, guid |-> p.guid, key |-> r.key, account |-> p.account, exp |-> p.exp,
                                   version |-> p.version, risk |-> p.risk] /\ p.key \in {"", r.key}
PROOF
<1>1. PICK k : k = r.key
    OBVIOUS
<1>2. PICK m : m = [p EXCEPT !.key = k]
    OBVIOUS
<1>3. m = [module |-> p.module, guid |-> p.guid, key |-> k, account |-> p.account, exp |-> p.exp, version |-> p.version, risk |-> p.risk]
    BY <1>2 DEF ZohoRecord
<1>4. QED
    BY <1>1, <1>2, <1>3 DEF Mirrored

LEMMA MirrorFields ==
    ASSUME NEW r, NEW p \in ZohoRecord, Mirrored(r, p)
    PROVE  r.module = p.module /\ r.guid = p.guid /\ p.key \in {"", r.key}
PROOF
<1>1. PICK k : k = r.key
    OBVIOUS
<1>2. /\ r = [module |-> p.module, guid |-> p.guid, key |-> k, account |-> p.account, exp |-> p.exp,
              version |-> p.version, risk |-> p.risk]
      /\ p.key \in {"", k}
    BY <1>1, MirrorIs
<1>3. PICK m : m = [module |-> p.module, guid |-> p.guid, key |-> k, account |-> p.account, exp |-> p.exp,
                    version |-> p.version, risk |-> p.risk]
    OBVIOUS
<1>4. m.module = p.module /\ m.guid = p.guid
    BY <1>3
<1>5. r = m
    BY <1>2, <1>3
<1>6. r.module = p.module /\ r.guid = p.guid
    BY <1>4, <1>5
<1>7. QED
    BY <1>1, <1>2, <1>6

LEMMA MirrorStays ==
    ASSUME NEW z \in Seq(ZohoRecord), NEW y, NEW payload \in ZohoRecord, NEW e, NEW p \in ZohoRecord,
           WrittenOver(z, payload, e), Rewritten(z, y, payload, e), HasMirror(z, p), Spared(z, p, payload)
    PROVE  HasMirror(y, p)
PROOF
<1>1. PICK r \in DOMAIN z : Mirrored(z[r], p)
    BY DEF HasMirror
<1>2. r \in DOMAIN y /\ r \in 1..Len(z)
    BY DEF Rewritten
<1>3. z[r].module = p.module /\ z[r].guid = p.guid
    BY <1>1, MirrorFields
<1>4. r # e
  <2>1. SUFFICES ASSUME r = e PROVE FALSE
      OBVIOUS
  <2>2. /\ z[r].module = payload.module
        /\ payload.module # "Accounts" => \/ payload.guid # "" /\ z[r].guid = payload.guid
                                          \/ payload.guid = "" /\ z[r].key = payload.key
      BY <2>1, PlaceOver
  <2>3. QED
      BY <1>1, <1>3, <2>2 DEF Spared
<1>5. y[r] = z[r]
    BY <1>4 DEF Rewritten
<1>6. QED
    BY <1>1, <1>2, <1>5 DEF HasMirror

\* A payload that says everything is mirrored where it was written.
LEMMA MirrorMade ==
    ASSUME NEW z \in Seq(ZohoRecord), NEW y, NEW payload \in ZohoRecord, NEW e, NEW id, NEW P,
           Rewritten(z, y, payload, e), WrittenOver(z, payload, e), WrittenAt(z, y, payload, e, id), id # NoId,
           KeysOK(z, P), payload.guid # "", payload.account # 0, payload.exp # NoDate, payload.version # 0,
           payload.module = "Policies" \/ payload.risk # "", payload.module = "Policies" => payload.risk = ""
    PROVE  HasMirror(y, payload)
PROOF
<1>1. id \in DOMAIN y
    BY DEF WrittenAt
<1>2. CASE y[id] = payload
    BY <1>1, <1>2, MirrorIs DEF HasMirror, ZohoRecord
<1>3. CASE id = e /\ e \in DOMAIN z /\ IsKept(y[id], z[id], payload)
  <2>1. PICK new \in ZohoRecord : new = y[id]
      BY <1>3 DEF IsKept
  <2>2. PICK old \in ZohoRecord : old = z[id]
    <3>1. z[e] \in ZohoRecord
        BY <1>3, RecordsInZoho
    <3>2. QED
        BY <1>3, <3>1
  <2>3. IsKept(new, old, payload)
      BY <1>3, <2>1, <2>2
  <2>4. old.module = payload.module
      BY <1>3, <2>2, PlaceOver
  <2>5. old.module = "Policies" => old.risk = ""
      BY <1>3, <2>2 DEF KeysOK
  <2>6. new.risk = payload.risk
      BY <2>3, <2>4, <2>5 DEF IsKept
  <2>7. /\ new.module = payload.module /\ new.guid = payload.guid /\ new.account = payload.account /\ new.exp = payload.exp
        /\ new.version = payload.version
      BY <2>3 DEF IsKept
  <2>8. payload.key \in {"", new.key}
      BY <2>3 DEF IsKept
  <2>9. Mirrored(new, payload)
      BY <2>6, <2>7, <2>8, MirrorIs DEF ZohoRecord
  <2>10. QED
      BY <1>1, <2>1, <2>9 DEF HasMirror
<1>4. QED
    BY <1>2, <1>3 DEF WrittenAt

-----------------------------------------------------------------------------
\* What is sent to Zoho.

LEMMA AccountSent ==
    ASSUME NEW i \in InsuredRecord, NEW filed
    PROVE  /\ AccountOf(i, filed) \in ZohoRecord
           /\ AccountOf(i, filed).module = "Accounts" /\ AccountOf(i, filed).guid = i.guid /\ AccountOf(i, filed).key = i.name
PROOF
<1>1. PICK v \in Nat : v = IF filed THEN 1 ELSE 0
    OBVIOUS
<1>2. PICK guid \in STRING : guid = i.guid
    BY DEF InsuredRecord
<1>3. PICK name \in Names : name = i.name
    BY DEF InsuredRecord
<1>4. AccountOf(i, filed) = [module |-> "Accounts", guid |-> guid, key |-> name, account |-> 0, exp |-> NoDate, version |-> v, risk |-> ""]
  <2>1. PICK b : b = [module |-> "", guid |-> "", key |-> "", account |-> 0, exp |-> NoDate, version |-> 0, risk |-> ""]
      OBVIOUS
  <2>2. AccountOf(i, filed) = [b EXCEPT !.module = "Accounts", !.guid = guid, !.key = name, !.version = v]
      BY <1>1, <1>2, <1>3, <2>1 DEF AccountOf, BlankRecord
  <2>3. QED
      BY <2>1, <2>2
<1>5. /\ "Accounts" \in ZohoModules /\ name \in ZohoKeys /\ 0 \in Nat /\ NoDate \in ZohoDates /\ "" \in Risks
    BY DEF ZohoModules, ZohoKeys, Risks, ZohoDates
<1>6. [module |-> "Accounts", guid |-> guid, key |-> name, account |-> 0, exp |-> NoDate, version |-> v, risk |-> ""] \in ZohoRecord
    BY <1>5 DEF ZohoRecord
<1>7. PICK q : q = [module |-> "Accounts", guid |-> guid, key |-> name, account |-> 0, exp |-> NoDate, version |-> v, risk |-> ""]
    OBVIOUS
<1>8. q.module = "Accounts" /\ q.guid = guid /\ q.key = name /\ q \in ZohoRecord
    BY <1>6, <1>7
<1>9. AccountOf(i, filed) = q
    BY <1>4, <1>7
<1>10. QED
    BY <1>2, <1>3, <1>8, <1>9

LEMMA PolicySent ==
    ASSUME NEW p \in PolicyRecord, NEW account \in Nat
    PROVE  /\ PolicyOf(p, account) \in ZohoRecord
           /\ PolicyOf(p, account).module = "Policies" /\ PolicyOf(p, account).guid = p.guid /\ PolicyOf(p, account).key = p.number
           /\ PolicyOf(p, account).account = account /\ PolicyOf(p, account).exp # NoDate /\ PolicyOf(p, account).version # 0
           /\ PolicyOf(p, account).risk = ""
PROOF
<1>1. p.guid \in STRING /\ p.number \in ZohoKeys /\ p.exp \in Nat /\ p.version \in Nat /\ p.version # 0
    BY DEF PolicyRecord, ZohoKeys
<1>2. p.exp \in ZohoDates /\ p.exp # NoDate
    BY <1>1 DEF ZohoDates, NoDate
<1>3. QED
    BY <1>1, <1>2 DEF PolicyOf, ZohoRecord, ZohoModules, Risks

LEMMA RiskIs ==
    ASSUME NEW p \in PolicyRecord PROVE RiskOf(p) \in Risks /\ RiskOf(p) # ""
PROOF
<1>1. BackfillDay \in Nat /\ UrgentDays \in Nat /\ RiskDays \in Nat
    BY BackfillAssumption
<1>2. PICK d \in Int : d = p.exp - BackfillDay
  <2>1. p.exp \in Nat
      BY DEF PolicyRecord
  <2>2. p.exp - BackfillDay \in Int
      BY <1>1, <2>1
  <2>3. QED
      BY <2>2
<1>3. CASE d <= UrgentDays
  <2>1. ~(d \in (UrgentDays + 1)..RiskDays)
      BY <1>1, <1>2, <1>3
  <2>2. RiskOf(p) = "Urgent"
      BY <1>2, <1>3, <2>1 DEF RiskOf
  <2>3. QED
      BY <2>2 DEF Risks
<1>4. CASE ~(d <= UrgentDays) /\ d \in (UrgentDays + 1)..RiskDays
  <2>1. RiskOf(p) = "At Risk"
      BY <1>2, <1>4 DEF RiskOf
  <2>2. QED
      BY <2>1 DEF Risks
<1>5. CASE ~(d <= UrgentDays) /\ ~(d \in (UrgentDays + 1)..RiskDays)
  <2>1. RiskOf(p) = "Upcoming"
      BY <1>2, <1>5 DEF RiskOf
  <2>2. QED
      BY <2>1 DEF Risks
<1>6. QED
    BY <1>3, <1>4, <1>5

LEMMA RenewalSent ==
    ASSUME NEW p \in PolicyRecord, NEW account \in Nat
    PROVE  /\ RenewalOf(p, account) \in ZohoRecord
           /\ RenewalOf(p, account).module = "Renewals" /\ RenewalOf(p, account).guid = p.guid /\ RenewalOf(p, account).key = p.number
           /\ RenewalOf(p, account).account = account /\ RenewalOf(p, account).exp # NoDate /\ RenewalOf(p, account).version # 0
           /\ RenewalOf(p, account).risk # ""
PROOF
<1>1. p.guid \in STRING /\ p.number \in ZohoKeys /\ p.exp \in Nat /\ p.version \in Nat /\ p.version # 0
    BY DEF PolicyRecord, ZohoKeys
<1>2. p.exp \in ZohoDates /\ p.exp # NoDate
    BY <1>1 DEF ZohoDates, NoDate
<1>3. PICK risk \in Risks : risk = RiskOf(p) /\ risk # ""
    BY RiskIs
<1>4. RenewalOf(p, account) = [module |-> "Renewals", guid |-> p.guid, key |-> p.number, account |-> account, exp |-> p.exp,
                               version |-> p.version, risk |-> risk]
  <2>1. PICK q : q = PolicyOf(p, account)
      OBVIOUS
  <2>2. RenewalOf(p, account) = [q EXCEPT !.module = "Renewals", !.risk = risk]
      BY <1>3, <2>1 DEF RenewalOf
  <2>3. q = [module |-> "Policies", guid |-> p.guid, key |-> p.number, account |-> account, exp |-> p.exp,
             version |-> p.version, risk |-> ""]
      BY <2>1 DEF PolicyOf
  <2>4. QED
      BY <2>2, <2>3
<1>5. "Renewals" \in ZohoModules
    BY DEF ZohoModules
<1>6. [module |-> "Renewals", guid |-> p.guid, key |-> p.number, account |-> account, exp |-> p.exp,
       version |-> p.version, risk |-> risk] \in ZohoRecord
    BY <1>1, <1>2, <1>5 DEF ZohoRecord
<1>7. PICK q : q = RenewalOf(p, account)
    OBVIOUS
<1>8. q \in ZohoRecord
    BY <1>4, <1>6, <1>7
<1>9. /\ q.module = "Renewals" /\ q.guid = p.guid /\ q.key = p.number /\ q.account = account /\ q.exp = p.exp
      /\ q.version = p.version /\ q.risk = risk
    BY <1>4, <1>7
<1>10. QED
    BY <1>1, <1>2, <1>3, <1>7, <1>8, <1>9

\* A policy, and the renewal of it, as a run under an account writes them.
SentFor(payload, p, account) == payload = PolicyOf(p, account) \/ payload = RenewalOf(p, account)
SentRecord(payload, p, account) ==
    /\ payload \in ZohoRecord /\ payload.guid = p.guid /\ payload.key = p.number /\ payload.module # "Accounts"
    /\ payload.account = account /\ payload.exp # NoDate /\ payload.version # 0
    /\ payload.module = "Policies" => payload.risk = ""
    /\ payload.module # "Policies" => payload.risk # ""

LEMMA SentIs ==
    ASSUME NEW p \in PolicyRecord, NEW account \in Nat, NEW payload, SentFor(payload, p, account)
    PROVE  SentRecord(payload, p, account)
PROOF
<1>1. CASE payload = PolicyOf(p, account)
    BY <1>1, PolicySent DEF SentRecord
<1>2. CASE payload = RenewalOf(p, account)
    BY <1>2, RenewalSent DEF SentRecord
<1>3. QED
    BY <1>1, <1>2 DEF SentFor

LEMMA PoliciesInList ==
    ASSUME NEW P \in Seq(PolicyRecord), NEW k \in DOMAIN P PROVE P[k] \in PolicyRecord
OBVIOUS

LEMMA SentFits ==
    ASSUME NEW P \in Seq(PolicyRecord), OneEach(P), NEW k \in DOMAIN P, NEW account \in Nat, NEW payload, SentFor(payload, P[k], account)
    PROVE  FitsPolicies(payload, P)
PROOF
<1>1. PICK p \in PolicyRecord : p = P[k]
    BY PoliciesInList
<1>2. payload.guid = p.guid /\ payload.key = p.number /\ (payload.module = "Policies" => payload.risk = "")
  <2>1. SentRecord(payload, p, account)
      BY <1>1, SentIs
  <2>2. QED
      BY <2>1 DEF SentRecord
<1>3. ASSUME NEW j \in DOMAIN P, P[j].guid # "", P[j].number = "", payload.guid = P[j].guid PROVE payload.key = ""
  <2>1. j = k
      BY <1>1, <1>2, <1>3 DEF OneEach
  <2>2. QED
      BY <1>1, <1>2, <1>3, <2>1
<1>4. QED
    BY <1>2, <1>3 DEF FitsPolicies

LEMMA AccountFits ==
    ASSUME NEW P, NEW payload, payload.module = "Accounts" PROVE FitsPolicies(payload, P)
BY DEF FitsPolicies

\* What is written for one policy is never in the way of what is written for another.
OwnIn(P, p) == p.guid # "" /\ \A j \in DOMAIN P : P[j].guid = "" => P[j].number # p.number

LEMMA OthersSpared ==
    ASSUME NEW z \in Seq(ZohoRecord), NEW P \in Seq(PolicyRecord), OneEach(P), KeysOK(z, P),
           NEW j \in DOMAIN P, NEW k \in DOMAIN P, j # k, Keyed(P[j]), OwnIn(P, P[k]),
           NEW a \in Nat, NEW b \in Nat, NEW payload, SentFor(payload, P[j], a), NEW p, SentFor(p, P[k], b)
    PROVE  Spared(z, p, payload)
PROOF
<1>1. PICK pj \in PolicyRecord : pj = P[j]
    BY PoliciesInList
<1>2. PICK pk \in PolicyRecord : pk = P[k]
    BY PoliciesInList
<1>3. payload.guid = pj.guid /\ payload.key = pj.number /\ payload.module # "Accounts"
  <2>1. SentRecord(payload, pj, a)
      BY <1>1, SentIs
  <2>2. QED
      BY <2>1 DEF SentRecord
<1>4. p \in ZohoRecord /\ p.guid = pk.guid /\ p.key = pk.number /\ p.module # "Accounts"
  <2>1. SentRecord(p, pk, b)
      BY <1>2, SentIs
  <2>2. QED
      BY <2>1 DEF SentRecord
<1>5. CASE pj.guid = ""
  <2>1. pj.number # "" /\ pj.number # pk.number
      BY <1>1, <1>2, <1>5 DEF Keyed, OwnIn
  <2>2. ASSUME NEW r \in DOMAIN z, Mirrored(z[r], p) PROVE z[r].key # payload.key
    <3>1. PICK key : key = z[r].key
        OBVIOUS
    <3>2. z[r].guid = pk.guid /\ z[r].module # "Accounts" /\ pk.number \in {"", key}
      <4>1. z[r].module = p.module /\ z[r].guid = p.guid /\ p.key \in {"", z[r].key}
          BY <1>4, <2>2, MirrorFields
      <4>2. QED
          BY <1>4, <3>1, <4>1
    <3>3. CASE pk.number = ""
      <4>1. pk.guid # ""
          BY <1>2 DEF OwnIn
      <4>2. key = ""
          BY <1>2, <3>1, <3>2, <3>3, <4>1 DEF KeysOK
      <4>3. QED
          BY <1>3, <2>1, <3>1, <4>2
    <3>4. CASE pk.number # ""
        BY <1>3, <2>1, <3>1, <3>2, <3>4
    <3>5. QED
        BY <3>3, <3>4
  <2>3. QED
      BY <1>3, <1>5, <2>2 DEF Spared
<1>6. CASE pj.guid # ""
  <2>1. pj.guid # pk.guid
      BY <1>1, <1>2, <1>6 DEF OneEach
  <2>2. QED
      BY <1>3, <1>4, <1>6, <2>1 DEF Spared
<1>7. QED
    BY <1>5, <1>6

-----------------------------------------------------------------------------
\* What a run has done so far.

AccountIs(z, a, i) == a \in DOMAIN z /\ z[a].module = "Accounts" /\ z[a].guid = i.guid /\ z[a].key = i.name
OwnedBy(P, guid) == {k \in DOMAIN P : P[k].owner = guid}
PolicyDone(z, P, k, a) ==
    OwnIn(P, P[k]) => HasMirror(z, PolicyOf(P[k], a)) /\ (Expiring(P[k]) => HasMirror(z, RenewalOf(P[k], a)))
NoNamesake(I, n) == \A m \in DOMAIN I : m # n => I[m].name # I[n].name
InsuredDone(z, I, P, n) ==
    /\ I[n].guid # ""
    /\ NoNamesake(I, n) => \E a \in DOMAIN z : AccountIs(z, a, I[n]) /\ \A k \in OwnedBy(P, I[n].guid) : PolicyDone(z, P, k, a)

LEMMA InsuredsInList ==
    ASSUME NEW I \in Seq(InsuredRecord), NEW n \in DOMAIN I PROVE I[n] \in InsuredRecord
OBVIOUS

LEMMA AccountStays ==
    ASSUME NEW z \in Seq(ZohoRecord), NEW y, NEW payload, NEW e, WrittenOver(z, payload, e), Rewritten(z, y, payload, e),
           NEW a, NEW i, AccountIs(z, a, i), payload.module # "Accounts" \/ (payload.guid # i.guid /\ payload.key # i.name)
    PROVE  AccountIs(y, a, i)
PROOF
<1>1. a \in DOMAIN z /\ a \in 1..Len(z) /\ z[a].module = "Accounts" /\ z[a].guid = i.guid /\ z[a].key = i.name
    BY DEF AccountIs
<1>2. a \in DOMAIN y
    BY <1>1 DEF Rewritten
<1>3. a # e
  <2>1. SUFFICES ASSUME a = e PROVE FALSE
      OBVIOUS
  <2>2. e > 0
      BY <1>1, <2>1
  <2>3. CASE payload.guid # "" /\ HasGuid(z[e], payload)
      BY <1>1, <2>1, <2>3 DEF HasGuid
  <2>4. CASE z[e].module = payload.module /\ z[e].key = payload.key
      BY <1>1, <2>1, <2>4
  <2>5. QED
      BY <2>2, <2>3, <2>4 DEF WrittenOver
<1>4. y[a] = z[a]
    BY <1>1, <1>3 DEF Rewritten
<1>5. QED
    BY <1>1, <1>2, <1>4 DEF AccountIs

LEMMA AccountMade ==
    ASSUME NEW z \in Seq(ZohoRecord), NEW y, NEW i \in InsuredRecord, i.guid # "", NEW filed, NEW payload, payload = AccountOf(i, filed),
           NEW e, NEW id, id # NoId, WrittenAt(z, y, payload, e, id)
    PROVE  id \in DOMAIN y /\ AccountIs(y, id, i)
PROOF
<1>1. payload \in ZohoRecord /\ payload.module = "Accounts" /\ payload.guid = i.guid /\ payload.key = i.name
    BY AccountSent
<1>2. id \in DOMAIN y
    BY DEF WrittenAt
<1>3. i.name # ""
    BY BackfillAssumption DEF InsuredRecord
<1>4. CASE y[id] = payload
    BY <1>1, <1>2, <1>4 DEF AccountIs
<1>5. CASE IsKept(y[id], z[id], payload)
  <2>1. y[id].module = "Accounts" /\ y[id].guid = i.guid /\ y[id].key = i.name
      BY <1>1, <1>3, <1>5 DEF IsKept
  <2>2. QED
      BY <1>2, <2>1 DEF AccountIs
<1>6. QED
    BY <1>4, <1>5 DEF WrittenAt

\* A request leaves what other requests have done.
LEMMA PolicyDoneStays ==
    ASSUME NEW z \in Seq(ZohoRecord), NEW y, NEW P \in Seq(PolicyRecord), NEW payload \in ZohoRecord, NEW e,
           WrittenOver(z, payload, e), Rewritten(z, y, payload, e), NEW k \in DOMAIN P, NEW a \in Nat, PolicyDone(z, P, k, a),
           \A p : SentFor(p, P[k], a) /\ OwnIn(P, P[k]) => Spared(z, p, payload)
    PROVE  PolicyDone(y, P, k, a)
PROOF
<1>1. SUFFICES ASSUME OwnIn(P, P[k])
               PROVE  HasMirror(y, PolicyOf(P[k], a)) /\ (Expiring(P[k]) => HasMirror(y, RenewalOf(P[k], a)))
    BY DEF PolicyDone
<1>2. P[k] \in PolicyRecord
    BY PoliciesInList
<1>3. PolicyOf(P[k], a) \in ZohoRecord /\ RenewalOf(P[k], a) \in ZohoRecord
    BY <1>2, PolicySent, RenewalSent
<1>4. Spared(z, PolicyOf(P[k], a), payload) /\ Spared(z, RenewalOf(P[k], a), payload)
    BY <1>1 DEF SentFor
<1>5. HasMirror(z, PolicyOf(P[k], a)) /\ (Expiring(P[k]) => HasMirror(z, RenewalOf(P[k], a)))
    BY <1>1 DEF PolicyDone
<1>6. HasMirror(y, PolicyOf(P[k], a))
    BY <1>3, <1>4, <1>5, MirrorStays
<1>7. Expiring(P[k]) => HasMirror(y, RenewalOf(P[k], a))
    BY <1>3, <1>4, <1>5, MirrorStays
<1>8. QED
    BY <1>6, <1>7

LEMMA OtherPoliciesStay ==
    ASSUME NEW z \in Seq(ZohoRecord), NEW y, NEW P \in Seq(PolicyRecord), OneEach(P), KeysOK(z, P),
           NEW j \in DOMAIN P, Keyed(P[j]), NEW b \in Nat, NEW payload, SentFor(payload, P[j], b), NEW e,
           WrittenOver(z, payload, e), Rewritten(z, y, payload, e), NEW k \in DOMAIN P, k # j, NEW a \in Nat, PolicyDone(z, P, k, a)
    PROVE  PolicyDone(y, P, k, a)
PROOF
<1>1. payload \in ZohoRecord
  <2>1. SentRecord(payload, P[j], b)
      BY PoliciesInList, SentIs
  <2>2. QED
      BY <2>1 DEF SentRecord
<1>2. \A p : SentFor(p, P[k], a) /\ OwnIn(P, P[k]) => Spared(z, p, payload)
    BY OthersSpared
<1>3. QED
    BY <1>1, <1>2, PolicyDoneStays

LEMMA AccountSparesPolicies ==
    ASSUME NEW z \in Seq(ZohoRecord), NEW y, NEW P \in Seq(PolicyRecord), NEW payload \in ZohoRecord, payload.module = "Accounts", NEW e,
           WrittenOver(z, payload, e), Rewritten(z, y, payload, e), NEW k \in DOMAIN P, NEW a \in Nat, PolicyDone(z, P, k, a)
    PROVE  PolicyDone(y, P, k, a)
PROOF
<1>1. \A p : SentFor(p, P[k], a) => Spared(z, p, payload)
  <2>1. SUFFICES ASSUME NEW p, SentFor(p, P[k], a) PROVE Spared(z, p, payload)
      OBVIOUS
  <2>2. SentRecord(p, P[k], a)
      BY <2>1, PoliciesInList, SentIs
  <2>3. QED
      BY <2>2 DEF SentRecord, Spared
<1>2. QED
    BY <1>1, PolicyDoneStays

LEMMA OtherInsuredsStay ==
    ASSUME NEW z \in Seq(ZohoRecord), NEW y, NEW I \in Seq(InsuredRecord), NEW P \in Seq(PolicyRecord), OneEach(I), OneEach(P), KeysOK(z, P),
           NEW m \in DOMAIN I, NEW j \in OwnedBy(P, I[m].guid), Keyed(P[j]), NEW b \in Nat, NEW payload, SentFor(payload, P[j], b), NEW e,
           WrittenOver(z, payload, e), Rewritten(z, y, payload, e), NEW n \in DOMAIN I, n # m, InsuredDone(z, I, P, n)
    PROVE  InsuredDone(y, I, P, n)
PROOF
<1>1. I[n].guid # ""
    BY DEF InsuredDone
<1>2. I[n].guid # I[m].guid
    BY <1>1 DEF OneEach
<1>3. SUFFICES ASSUME NoNamesake(I, n)
               PROVE  \E a \in DOMAIN y : AccountIs(y, a, I[n]) /\ \A k \in OwnedBy(P, I[n].guid) : PolicyDone(y, P, k, a)
    BY <1>1 DEF InsuredDone
<1>4. PICK a \in DOMAIN z : AccountIs(z, a, I[n]) /\ \A k \in OwnedBy(P, I[n].guid) : PolicyDone(z, P, k, a)
    BY <1>3 DEF InsuredDone
<1>5. j \in DOMAIN P /\ a \in Nat
    BY DEF OwnedBy
<1>6. payload.module # "Accounts"
  <2>1. SentRecord(payload, P[j], b)
      BY <1>5, PoliciesInList, SentIs
  <2>2. QED
      BY <2>1 DEF SentRecord
<1>7. AccountIs(y, a, I[n])
    BY <1>4, <1>6, AccountStays
<1>8. ASSUME NEW k \in OwnedBy(P, I[n].guid) PROVE PolicyDone(y, P, k, a)
  <2>1. k \in DOMAIN P /\ k # j
      BY <1>2 DEF OwnedBy
  <2>2. PolicyDone(z, P, k, a)
      BY <1>4
  <2>3. QED
      BY <1>5, <2>1, <2>2, OtherPoliciesStay
<1>9. a \in DOMAIN y
    BY <1>7 DEF AccountIs
<1>10. QED
    BY <1>7, <1>8, <1>9

LEMMA InsuredsStayByAccount ==
    ASSUME NEW z \in Seq(ZohoRecord), NEW y, NEW I \in Seq(InsuredRecord), NEW P \in Seq(PolicyRecord), OneEach(I),
           NEW m \in DOMAIN I, NEW filed, NEW payload, payload = AccountOf(I[m], filed), NEW e,
           WrittenOver(z, payload, e), Rewritten(z, y, payload, e), NEW n \in DOMAIN I, n # m, InsuredDone(z, I, P, n)
    PROVE  InsuredDone(y, I, P, n)
PROOF
<1>1. I[n].guid # ""
    BY DEF InsuredDone
<1>2. I[n].guid # I[m].guid
    BY <1>1 DEF OneEach
<1>3. SUFFICES ASSUME NoNamesake(I, n)
               PROVE  \E a \in DOMAIN y : AccountIs(y, a, I[n]) /\ \A k \in OwnedBy(P, I[n].guid) : PolicyDone(y, P, k, a)
    BY <1>1 DEF InsuredDone
<1>4. PICK a \in DOMAIN z : AccountIs(z, a, I[n]) /\ \A k \in OwnedBy(P, I[n].guid) : PolicyDone(z, P, k, a)
    BY <1>3 DEF InsuredDone
<1>5. a \in Nat
    OBVIOUS
<1>6. payload \in ZohoRecord /\ payload.module = "Accounts" /\ payload.guid = I[m].guid /\ payload.key = I[m].name
    BY InsuredsInList, AccountSent
<1>7. I[m].name # I[n].name
    BY <1>3 DEF NoNamesake
<1>8. AccountIs(y, a, I[n])
    BY <1>2, <1>4, <1>6, <1>7, AccountStays
<1>9. ASSUME NEW k \in OwnedBy(P, I[n].guid) PROVE PolicyDone(y, P, k, a)
  <2>1. k \in DOMAIN P
      BY DEF OwnedBy
  <2>2. PolicyDone(z, P, k, a)
      BY <1>4
  <2>3. QED
      BY <1>5, <1>6, <2>1, <2>2, AccountSparesPolicies
<1>10. a \in DOMAIN y
    BY <1>8 DEF AccountIs
<1>11. QED
    BY <1>8, <1>9, <1>10

-----------------------------------------------------------------------------
\* The invariant of a run: its place, and that what it has passed without an error is
\* in Zoho and stays there.

RunPlaces == {"over", "insured", "account", "policy", "renewal"}
BackfillRun ==
    [at: RunPlaces, flags: FlagSets \cup {{}}, insured: Nat, left: SUBSET Nat, account: Nat, errors: BOOLEAN, exit: Int]

PlaceOK(I, P, b) ==
    /\ b.at # "over" => b.exit = -1 /\ b.insured <= Len(I)
    /\ b.at \in {"account", "policy", "renewal"} => b.insured \in DOMAIN I /\ I[b.insured].guid # ""
    /\ b.at \in {"policy", "renewal"} => b.left \subseteq OwnedBy(P, I[b.insured].guid)
    /\ b.at = "renewal" => b.left # {}

\* Before the current insured, and what of the current one is behind the run.
PassedDone(z, I, P, b) == \A n \in 1..(b.insured - 1) : InsuredDone(z, I, P, n)
CurrentDone(z, I, P, b) ==
    /\ b.at = "insured" /\ b.insured # 0 => InsuredDone(z, I, P, b.insured)
    /\ b.at \in {"policy", "renewal"} =>
          /\ AccountIs(z, b.account, I[b.insured])
          /\ \A k \in OwnedBy(P, I[b.insured].guid) \ b.left : PolicyDone(z, P, k, b.account)
    /\ b.at = "renewal" =>
          (OwnIn(P, P[Min(b.left)]) => HasMirror(z, PolicyOf(P[Min(b.left)], b.account)))
Faultless(b) == b.at # "over" /\ b.flags = {} /\ ~b.errors
DoneSoFar(z, I, P, b) == Faultless(b) => PassedDone(z, I, P, b) /\ CurrentDone(z, I, P, b)
ZeroIsDone(z, I, P, b) == (b.at = "over" /\ b.exit = 0 /\ b.flags = {}) => \A n \in DOMAIN I : InsuredDone(z, I, P, n)

RunInv(z, I, P, b) == b \in BackfillRun /\ PlaceOK(I, P, b) /\ DoneSoFar(z, I, P, b) /\ ZeroIsDone(z, I, P, b)
KeysInv(z, I, P, u) ==
    /\ z \in Seq(ZohoRecord) /\ I \in Seq(InsuredRecord) /\ P \in Seq(PolicyRecord) /\ u \in BOOLEAN
    /\ OneEach(I) /\ OneEach(P) /\ KeysOK(z, P)
    /\ ~u => OneRecordEach(z)

BackfillInv ==
    /\ KeysInv(zoho, momentumInsureds, momentumPolicies, unanswered)
    /\ RunInv(zoho, momentumInsureds, momentumPolicies, backfill)

LEMMA RequestKeeps ==
    ASSUME NEW z, NEW y, NEW I, NEW P, NEW u, NEW w, KeysInv(z, I, P, u), NEW payload \in ZohoRecord, FitsPolicies(payload, P),
           NEW e, NEW id, Asked(z, y, payload, e, id, u, w)
    PROVE  KeysInv(y, I, P, w)
PROOF
<1>1. z \in Seq(ZohoRecord) /\ KeysOK(z, P)
    BY DEF KeysInv
<1>2. WrittenOver(z, payload, e) /\ Rewritten(z, y, payload, e) /\ w \in BOOLEAN
    BY DEF Asked
<1>3. y \in Seq(ZohoRecord)
    BY <1>2 DEF Rewritten
<1>4. KeysOK(y, P)
    BY <1>1, <1>2, KeysStay
<1>5. ASSUME ~w PROVE OneRecordEach(y)
  <2>1. ~u /\ Len(y) <= Len(z) + 1
      BY <1>5 DEF Asked
  <2>2. OneRecordEach(z)
      BY <2>1 DEF KeysInv
  <2>3. QED
      BY <1>1, <1>2, <2>1, <2>2, OneRecordStays
<1>6. QED
    BY <1>2, <1>3, <1>4, <1>5 DEF KeysInv

\* A run that is over and has not ended with 0.
LEMMA RunIsOver ==
    ASSUME NEW z, NEW I, NEW P, NEW flags \in FlagSets \cup {{}}, NEW exit \in Int, exit # 0 \/ \A n \in DOMAIN I : InsuredDone(z, I, P, n)
    PROVE  RunInv(z, I, P, Ended(flags, exit))
PROOF
<1>1. PICK c : c = Ended(flags, exit)
    OBVIOUS
<1>2. c \in BackfillRun /\ c.at = "over" /\ c.exit = exit
    BY <1>1 DEF Ended, BackfillRun, RunPlaces
<1>3. PlaceOK(I, P, c)
    BY <1>2 DEF PlaceOK
<1>4. DoneSoFar(z, I, P, c)
    BY <1>2 DEF DoneSoFar, Faultless
<1>5. ZeroIsDone(z, I, P, c)
    BY <1>2 DEF ZeroIsDone
<1>6. QED
    BY <1>1, <1>2, <1>3, <1>4, <1>5 DEF RunInv

\* A run goes on with errors, or with flags that leave something out.
LEMMA RunHasFaults ==
    ASSUME NEW z, NEW I, NEW P, NEW c \in BackfillRun, PlaceOK(I, P, c), c.at # "over", c.errors \/ c.flags # {}
    PROVE  RunInv(z, I, P, c)
BY DEF RunInv, DoneSoFar, Faultless, ZeroIsDone

LEMMA RunGoesOn ==
    ASSUME NEW z, NEW I, NEW P, NEW c \in BackfillRun, PlaceOK(I, P, c), c.at # "over",
           Faultless(c) => PassedDone(z, I, P, c) /\ CurrentDone(z, I, P, c)
    PROVE  RunInv(z, I, P, c)
BY DEF RunInv, DoneSoFar, ZeroIsDone

LEMMA BackfillStart ==
    ASSUME NEW insureds, insureds \subseteq Seq(InsuredRecord), NEW policies, policies \subseteq Seq(PolicyRecord),
           NEW records, records \subseteq Seq(ZohoRecord),
           \A I \in insureds : OneEach(I), \A P \in policies : OneEach(P),
           \A z \in records : OneRecordEach(z) /\ \A P \in policies : KeysOK(z, P),
           BackfillInit(insureds, policies, records)
    PROVE  BackfillInv
PROOF
<1>1. /\ momentumInsureds \in insureds /\ momentumPolicies \in policies /\ zoho \in records
      /\ backfill = Ended({}, -1) /\ unanswered = FALSE
    BY DEF BackfillInit
<1>2. KeysInv(zoho, momentumInsureds, momentumPolicies, unanswered)
    BY <1>1 DEF KeysInv
<1>3. RunInv(zoho, momentumInsureds, momentumPolicies, Ended({}, -1))
    BY RunIsOver
<1>4. QED
    BY <1>1, <1>2, <1>3 DEF BackfillInv

LEMMA StartStep ==
    ASSUME BackfillInv, NEW flags \in FlagSets, StartBackfill(flags) PROVE BackfillInv'
PROOF
<1>1. UNCHANGED <<momentumInsureds, momentumPolicies, zoho, unanswered>>
    BY DEF StartBackfill, Momentum
<1>2. PICK I \in Seq(InsuredRecord) : I = momentumInsureds
    BY DEF BackfillInv, KeysInv
<1>3. PICK b : b = Ended(flags, -1)
    OBVIOUS
<1>4. PICK c : c = [b EXCEPT !.at = "insured"]
    OBVIOUS
<1>5. backfill' = c
    BY <1>3, <1>4 DEF StartBackfill, Run
<1>6. c \in BackfillRun /\ c.at = "insured" /\ c.insured = 0 /\ c.exit = -1
  <2>1. b \in BackfillRun /\ b.insured = 0 /\ b.exit = -1
      BY <1>3 DEF Ended, BackfillRun, RunPlaces
  <2>2. c \in BackfillRun
      BY <1>4, <2>1 DEF BackfillRun, RunPlaces
  <2>3. QED
      BY <1>4, <2>1, <2>2 DEF BackfillRun
<1>7. PlaceOK(I, momentumPolicies, c)
    BY <1>6 DEF PlaceOK
<1>8. PassedDone(zoho, I, momentumPolicies, c) /\ CurrentDone(zoho, I, momentumPolicies, c)
    BY <1>6 DEF PassedDone, CurrentDone
<1>9. RunInv(zoho, I, momentumPolicies, c)
    BY <1>6, <1>7, <1>8, RunGoesOn
<1>10. QED
    BY <1>1, <1>2, <1>5, <1>9 DEF BackfillInv

LEMMA EndSteps ==
    ASSUME BackfillInv, CannotStart \/ BackfillDies PROVE BackfillInv'
PROOF
<1>1. UNCHANGED <<momentumInsureds, momentumPolicies, zoho, unanswered>>
    BY DEF CannotStart, BackfillDies, Momentum, BackfillIdle
<1>2. backfill' = Ended({}, 2) \/ backfill' = Ended({}, 130)
    BY DEF CannotStart, BackfillDies, Run
<1>3. /\ RunInv(zoho, momentumInsureds, momentumPolicies, Ended({}, 2))
      /\ RunInv(zoho, momentumInsureds, momentumPolicies, Ended({}, 130))
    BY RunIsOver
<1>4. RunInv(zoho, momentumInsureds, momentumPolicies, backfill')
    BY <1>2, <1>3
<1>5. QED
    BY <1>1, <1>4 DEF BackfillInv

LEMMA NextInsuredStep ==
    ASSUME BackfillInv, NextInsured PROVE BackfillInv'
PROOF
<1>1. UNCHANGED <<momentumInsureds, momentumPolicies, zoho, unanswered>>
    BY DEF NextInsured, Momentum, BackfillIdle
<1>2. PICK I \in Seq(InsuredRecord) : I = momentumInsureds
    BY DEF BackfillInv, KeysInv
<1>3. PICK P : P = momentumPolicies
    OBVIOUS
<1>4. PICK b \in BackfillRun : b = backfill
    BY DEF BackfillInv, RunInv
<1>5. b.at = "insured" /\ b.insured \in Nat /\ b.errors \in BOOLEAN /\ b.exit \in Int /\ Len(I) \in Nat /\ DOMAIN I = 1..Len(I)
  <2>1. b.at = "insured"
      BY <1>4 DEF NextInsured
  <2>2. b.insured \in Nat /\ b.errors \in BOOLEAN /\ b.exit \in Int
      BY DEF BackfillRun
  <2>3. Len(I) \in Nat /\ DOMAIN I = 1..Len(I)
      OBVIOUS
  <2>4. QED
      BY <2>1, <2>2, <2>3
<1>6. b.exit = -1 /\ b.insured <= Len(I) /\ DoneSoFar(zoho, I, P, b)
    BY <1>2, <1>3, <1>4, <1>5 DEF BackfillInv, RunInv, PlaceOK
<1>7. Faultless(b) => \A n \in 1..b.insured : InsuredDone(zoho, I, P, n)
  <2>1. SUFFICES ASSUME Faultless(b), NEW n \in 1..b.insured PROVE InsuredDone(zoho, I, P, n)
      OBVIOUS
  <2>2. PassedDone(zoho, I, P, b) /\ CurrentDone(zoho, I, P, b)
      BY <1>6, <2>1 DEF DoneSoFar
  <2>3. CASE n = b.insured
      BY <1>5, <2>2, <2>3 DEF CurrentDone
  <2>4. CASE n # b.insured
    <3>1. n \in 1..(b.insured - 1)
        BY <1>5, <2>4
    <3>2. QED
        BY <2>2, <3>1 DEF PassedDone
  <2>5. QED
      BY <2>3, <2>4
<1>8. CASE backfill.insured = Len(momentumInsureds) \/ (Flag("limit") /\ backfill.insured = 1)
  <2>1. PICK exit \in Int : exit = IF b.errors THEN 1 ELSE 0
      OBVIOUS
  <2>2. backfill' = Ended(b.flags, exit)
      BY <1>4, <1>8, <2>1 DEF NextInsured, Run
  <2>3. b.flags \in FlagSets \cup {{}}
      BY DEF BackfillRun
  <2>4. CASE exit # 0
    <3>1. RunInv(zoho, I, P, Ended(b.flags, exit))
        BY <2>3, <2>4, RunIsOver
    <3>2. QED
        BY <1>1, <1>2, <1>3, <2>2, <3>1 DEF BackfillInv
  <2>5. CASE exit = 0 /\ b.flags # {}
    <3>1. PICK c : c = Ended(b.flags, exit)
        OBVIOUS
    <3>2. c \in BackfillRun /\ c.at = "over" /\ c.flags # {}
        BY <2>3, <2>5, <3>1 DEF Ended, BackfillRun, RunPlaces
    <3>3. RunInv(zoho, I, P, c)
        BY <3>2 DEF RunInv, PlaceOK, DoneSoFar, Faultless, ZeroIsDone
    <3>4. QED
        BY <1>1, <1>2, <1>3, <2>2, <3>1, <3>3 DEF BackfillInv
  <2>6. CASE exit = 0 /\ b.flags = {}
    <3>1. Faultless(b)
        BY <1>5, <2>1, <2>6 DEF Faultless
    <3>2. b.insured = Len(I)
        BY <1>2, <1>4, <1>8, <2>6 DEF Flag
    <3>3. \A n \in DOMAIN I : InsuredDone(zoho, I, P, n)
        BY <1>5, <1>7, <3>1, <3>2
    <3>4. RunInv(zoho, I, P, Ended(b.flags, exit))
        BY <2>3, <3>3, RunIsOver
    <3>5. QED
        BY <1>1, <1>2, <1>3, <2>2, <3>4 DEF BackfillInv
  <2>7. QED
      BY <2>4, <2>5, <2>6
<1>9. CASE ~(backfill.insured = Len(momentumInsureds) \/ (Flag("limit") /\ backfill.insured = 1))
  <2>1. PICK n \in Nat : n = b.insured + 1
      BY <1>5
  <2>2. n \in DOMAIN I
      BY <1>2, <1>4, <1>5, <1>6, <1>9, <2>1
  <2>3. PICK d : d = [b EXCEPT !.insured = n, !.account = 0]
      OBVIOUS
  <2>4. d \in BackfillRun /\ d.insured = n /\ d.at = "insured" /\ d.exit = -1 /\ d.flags = b.flags /\ d.errors = b.errors
      BY <1>5, <1>6, <2>3 DEF BackfillRun
  <2>5. backfill' = IF I[n].guid = "" THEN WithError(d) ELSE [d EXCEPT !.at = "account"]
      BY <1>2, <1>4, <1>9, <2>1, <2>3, <2>4 DEF NextInsured, Run
  <2>6. CASE I[n].guid = ""
    <3>1. PICK c : c = [d EXCEPT !.errors = TRUE]
        OBVIOUS
    <3>2. c \in BackfillRun /\ c.insured = n /\ c.at = "insured" /\ c.exit = -1 /\ c.errors
        BY <2>4, <3>1 DEF BackfillRun
    <3>3. PlaceOK(I, P, c)
        BY <1>5, <2>2, <3>2 DEF PlaceOK
    <3>4. RunInv(zoho, I, P, c)
        BY <3>2, <3>3, RunHasFaults
    <3>5. QED
        BY <1>1, <1>2, <1>3, <2>5, <2>6, <3>1, <3>4 DEF BackfillInv, WithError
  <2>7. CASE I[n].guid # ""
    <3>1. PICK c : c = [d EXCEPT !.at = "account"]
        OBVIOUS
    <3>2. c \in BackfillRun /\ c.insured = n /\ c.at = "account" /\ c.exit = -1 /\ c.errors = b.errors /\ c.flags = b.flags
        BY <2>4, <3>1 DEF BackfillRun, RunPlaces
    <3>3. PlaceOK(I, P, c)
      <4>1. n <= Len(I)
          BY <1>5, <2>2
      <4>2. QED
          BY <2>2, <2>7, <3>2, <4>1 DEF PlaceOK
    <3>4. Faultless(c) => PassedDone(zoho, I, P, c)
        BY <1>5, <1>7, <2>1, <3>2 DEF Faultless, PassedDone
    <3>5. CurrentDone(zoho, I, P, c)
        BY <3>2 DEF CurrentDone
    <3>6. RunInv(zoho, I, P, c)
        BY <3>2, <3>3, <3>4, <3>5, RunGoesOn
    <3>7. QED
        BY <1>1, <1>2, <1>3, <2>5, <2>7, <3>1, <3>6 DEF BackfillInv
  <2>8. QED
      BY <2>6, <2>7
<1>10. QED
    BY <1>8, <1>9

LEMMA UpsertAccountStep ==
    ASSUME BackfillInv, UpsertAccount PROVE BackfillInv'
PROOF
<1>1. UNCHANGED <<momentumInsureds, momentumPolicies>> /\ backfill.at = "account"
    BY DEF UpsertAccount, Momentum, BackfillIdle
<1>2. PICK I \in Seq(InsuredRecord) : I = momentumInsureds
    BY DEF BackfillInv, KeysInv
<1>3. PICK P \in Seq(PolicyRecord) : P = momentumPolicies
    BY DEF BackfillInv, KeysInv
<1>4. PICK b \in BackfillRun : b = backfill
    BY DEF BackfillInv, RunInv
<1>5. PICK z \in Seq(ZohoRecord) : z = zoho
    BY DEF BackfillInv, KeysInv
<1>6. KeysInv(z, I, P, unanswered) /\ PlaceOK(I, P, b) /\ DoneSoFar(z, I, P, b) /\ OneEach(I)
    BY <1>2, <1>3, <1>4, <1>5 DEF BackfillInv, RunInv, KeysInv
<1>7. b.at = "account" /\ b.exit = -1 /\ b.insured <= Len(I) /\ b.insured \in DOMAIN I /\ I[b.insured].guid # ""
    BY <1>1, <1>4, <1>6 DEF PlaceOK
<1>8. PICK i \in InsuredRecord : i = I[b.insured]
    BY <1>7, InsuredsInList
<1>9. PICK owned \in SUBSET Nat : owned = OwnedBy(P, i.guid)
  <2>1. DOMAIN P \subseteq Nat
      OBVIOUS
  <2>2. OwnedBy(P, i.guid) \in SUBSET Nat
      BY <2>1 DEF OwnedBy
  <2>3. QED
      BY <2>2
<1>10. Insured = i /\ PoliciesOf(Insured.guid) = owned
    BY <1>2, <1>3, <1>4, <1>8, <1>9 DEF Insured, PoliciesOf, OwnedBy
<1>11. PICK onward : onward = [b EXCEPT !.at = "policy", !.left = owned]
    OBVIOUS
<1>12. /\ onward \in BackfillRun /\ onward.at = "policy" /\ onward.left = owned /\ onward.insured = b.insured
       /\ onward.exit = -1 /\ onward.flags = b.flags /\ onward.errors = b.errors
    BY <1>7, <1>11 DEF BackfillRun, RunPlaces
<1>13. CASE Flag("dry_run")
  <2>1. backfill' = onward /\ UNCHANGED <<zoho, unanswered>>
      BY <1>4, <1>10, <1>11, <1>13 DEF UpsertAccount, Run
  <2>2. onward.flags # {}
      BY <1>4, <1>12, <1>13 DEF Flag
  <2>3. PlaceOK(I, P, onward)
      BY <1>7, <1>8, <1>9, <1>12 DEF PlaceOK
  <2>4. RunInv(z, I, P, onward)
      BY <1>12, <2>2, <2>3, RunHasFaults
  <2>5. QED
      BY <1>1, <1>2, <1>3, <1>5, <1>6, <2>1, <2>4 DEF BackfillInv
<1>14. CASE ~Flag("dry_run")
  <2>1. PICK filed \in BOOLEAN, id \in Ids :
           /\ Upsert(AccountOf(i, filed), id)
           /\ backfill' = IF id = NoId THEN WithError([b EXCEPT !.at = "insured"]) ELSE [onward EXCEPT !.account = id]
    <3>1. PICK filed \in BOOLEAN, id \in Ids :
             /\ Upsert(AccountOf(Insured, filed), id)
             /\ backfill' = IF id = NoId THEN WithError([backfill EXCEPT !.at = "insured"])
                            ELSE [[backfill EXCEPT !.at = "policy", !.left = PoliciesOf(Insured.guid)] EXCEPT !.account = id]
        BY <1>14 DEF UpsertAccount, Run
    <3>2. QED
        BY <1>4, <1>10, <1>11, <3>1
  <2>2. PICK payload : payload = AccountOf(i, filed)
      OBVIOUS
  <2>3. payload \in ZohoRecord /\ payload.module = "Accounts"
      BY <2>2, AccountSent
  <2>4. PICK y : y = zoho'
      OBVIOUS
  <2>5. PICK e : Asked(z, y, payload, e, id, unanswered, unanswered')
      BY <1>5, <1>6, <2>1, <2>2, <2>3, <2>4, UpsertIs DEF KeysInv
  <2>6. KeysInv(y, I, P, unanswered')
      BY <1>6, <2>3, <2>5, AccountFits, RequestKeeps
  <2>7. WrittenOver(z, payload, e) /\ Rewritten(z, y, payload, e) /\ WrittenAt(z, y, payload, e, id)
      BY <2>5 DEF Asked
  <2>8. CASE id = NoId
    <3>1. PICK d : d = [b EXCEPT !.at = "insured"]
        OBVIOUS
    <3>2. d \in BackfillRun /\ d.at = "insured" /\ d.insured = b.insured /\ d.exit = -1
        BY <1>7, <3>1 DEF BackfillRun, RunPlaces
    <3>3. PICK c : c = [d EXCEPT !.errors = TRUE]
        OBVIOUS
    <3>4. c \in BackfillRun /\ c.at = "insured" /\ c.insured = b.insured /\ c.exit = -1 /\ c.errors
        BY <3>2, <3>3 DEF BackfillRun
    <3>5. PlaceOK(I, P, c)
        BY <1>7, <3>4 DEF PlaceOK
    <3>6. RunInv(y, I, P, c)
        BY <3>4, <3>5, RunHasFaults
    <3>7. backfill' = c
        BY <2>1, <2>8, <3>1, <3>3 DEF WithError
    <3>8. QED
        BY <1>1, <1>2, <1>3, <2>4, <2>6, <3>6, <3>7 DEF BackfillInv
  <2>9. CASE id # NoId
    <3>1. PICK c : c = [onward EXCEPT !.account = id]
        OBVIOUS
    <3>2. id \in Nat
      <4>1. Len(z) \in Nat
          OBVIOUS
      <4>2. QED
          BY <1>5, <4>1 DEF Ids, NoId
    <3>3. /\ c \in BackfillRun /\ c.at = "policy" /\ c.left = owned /\ c.insured = b.insured /\ c.account = id
          /\ c.exit = -1 /\ c.flags = b.flags /\ c.errors = b.errors
        BY <1>12, <3>1, <3>2 DEF BackfillRun
    <3>4. PlaceOK(I, P, c)
        BY <1>7, <1>8, <1>9, <3>3 DEF PlaceOK
    <3>5. AccountIs(y, id, i)
        BY <1>7, <1>8, <2>2, <2>7, <2>9, AccountMade
    <3>6. CurrentDone(y, I, P, c)
        BY <1>8, <1>9, <3>3, <3>5 DEF CurrentDone
    <3>7. ASSUME Faultless(c) PROVE PassedDone(y, I, P, c)
      <4>1. PassedDone(z, I, P, b)
          BY <1>6, <1>7, <3>3, <3>7 DEF DoneSoFar, Faultless
      <4>2. SUFFICES ASSUME NEW n \in 1..(b.insured - 1) PROVE InsuredDone(y, I, P, n)
          BY <3>3 DEF PassedDone
      <4>3. InsuredDone(z, I, P, n)
          BY <4>1 DEF PassedDone
      <4>4. b.insured \in 1..Len(I) /\ Len(I) \in Nat /\ DOMAIN I = 1..Len(I)
        <5>1. Len(I) \in Nat /\ DOMAIN I = 1..Len(I)
            OBVIOUS
        <5>2. QED
            BY <1>7, <5>1
      <4>5. n \in 1..Len(I) /\ n # b.insured
          BY <4>4
      <4>6. n \in DOMAIN I
          BY <4>5
      <4>7. QED
          BY <1>6, <1>7, <1>8, <2>2, <2>7, <4>3, <4>5, <4>6, InsuredsStayByAccount
    <3>8. RunInv(y, I, P, c)
        BY <3>3, <3>4, <3>6, <3>7, RunGoesOn
    <3>9. backfill' = c
        BY <2>1, <2>9, <3>1
    <3>10. QED
        BY <1>1, <1>2, <1>3, <2>4, <2>6, <3>8, <3>9 DEF BackfillInv
  <2>10. QED
      BY <2>8, <2>9
<1>15. QED
    BY <1>13, <1>14

\* What a request for a policy leaves as it was.
LeavesDone(z, y, I, P, b) ==
    /\ PassedDone(z, I, P, b) => PassedDone(y, I, P, b)
    /\ AccountIs(z, b.account, I[b.insured]) => AccountIs(y, b.account, I[b.insured])
    /\ \A j \in OwnedBy(P, I[b.insured].guid) \ b.left : PolicyDone(z, P, j, b.account) => PolicyDone(y, P, j, b.account)

LEMMA PolicyWriteLeaves ==
    ASSUME NEW z, NEW y, NEW I, NEW P, NEW u, NEW w, KeysInv(z, I, P, u), NEW b \in BackfillRun, PlaceOK(I, P, b),
           b.at \in {"policy", "renewal"}, NEW k \in b.left, Keyed(P[k]), NEW payload, SentFor(payload, P[k], b.account),
           NEW e, NEW id, Asked(z, y, payload, e, id, u, w)
    PROVE  KeysInv(y, I, P, w) /\ LeavesDone(z, y, I, P, b) /\ payload \in ZohoRecord /\ payload.module # "Accounts"
PROOF
<1>1. z \in Seq(ZohoRecord) /\ I \in Seq(InsuredRecord) /\ P \in Seq(PolicyRecord) /\ OneEach(I) /\ OneEach(P) /\ KeysOK(z, P)
    BY DEF KeysInv
<1>2. WrittenOver(z, payload, e) /\ Rewritten(z, y, payload, e)
    BY DEF Asked
<1>3. b.insured \in DOMAIN I /\ k \in OwnedBy(P, I[b.insured].guid) /\ k \in DOMAIN P
    BY DEF PlaceOK, OwnedBy
<1>4. PICK a \in Nat : a = b.account
    BY DEF BackfillRun
<1>5. payload \in ZohoRecord /\ payload.module # "Accounts"
  <2>1. SentRecord(payload, P[k], a)
      BY <1>1, <1>3, <1>4, PoliciesInList, SentIs
  <2>2. QED
      BY <2>1 DEF SentRecord
<1>6. FitsPolicies(payload, P)
    BY <1>1, <1>3, <1>4, SentFits
<1>7. KeysInv(y, I, P, w)
    BY <1>5, <1>6, RequestKeeps
<1>8. ASSUME PassedDone(z, I, P, b) PROVE PassedDone(y, I, P, b)
  <2>1. SUFFICES ASSUME NEW n \in 1..(b.insured - 1) PROVE InsuredDone(y, I, P, n)
      BY DEF PassedDone
  <2>2. InsuredDone(z, I, P, n)
      BY <1>8 DEF PassedDone
  <2>3. b.insured \in 1..Len(I) /\ Len(I) \in Nat
      BY <1>1, <1>3
  <2>4. n \in 1..Len(I) /\ n # b.insured
      BY <2>3
  <2>5. n \in DOMAIN I
      BY <1>1, <2>4
  <2>6. QED
      BY <1>1, <1>2, <1>3, <1>4, <2>2, <2>4, <2>5, OtherInsuredsStay
<1>9. ASSUME AccountIs(z, a, I[b.insured]) PROVE AccountIs(y, a, I[b.insured])
    BY <1>1, <1>2, <1>5, <1>9, AccountStays
<1>10. ASSUME NEW j \in OwnedBy(P, I[b.insured].guid) \ b.left, PolicyDone(z, P, j, a) PROVE PolicyDone(y, P, j, a)
  <2>1. j \in DOMAIN P /\ j # k
      BY DEF OwnedBy
  <2>2. QED
      BY <1>1, <1>2, <1>3, <1>4, <1>10, <2>1, OtherPoliciesStay
<1>11. LeavesDone(z, y, I, P, b)
    BY <1>4, <1>8, <1>9, <1>10 DEF LeavesDone
<1>12. QED
    BY <1>5, <1>7, <1>11

\* A payload for a policy of an account says everything.
SaysAll(payload) ==
    /\ payload \in ZohoRecord /\ payload.guid # "" /\ payload.account # 0 /\ payload.exp # NoDate /\ payload.version # 0
    /\ payload.module = "Policies" \/ payload.risk # ""
    /\ payload.module = "Policies" => payload.risk = ""

LEMMA PolicySaysAll ==
    ASSUME NEW p \in PolicyRecord, p.guid # "", NEW a \in Nat, a # 0, NEW payload, SentFor(payload, p, a)
    PROVE  SaysAll(payload)
PROOF
<1>1. SentRecord(payload, p, a)
    BY SentIs
<1>2. QED
    BY <1>1 DEF SentRecord, SaysAll

LEMMA RequestMirrors ==
    ASSUME NEW z, NEW y, NEW I, NEW P, NEW u, NEW w, KeysInv(z, I, P, u), NEW payload, SaysAll(payload),
           NEW e, NEW id, id # NoId, Asked(z, y, payload, e, id, u, w)
    PROVE  HasMirror(y, payload)
PROOF
<1>1. z \in Seq(ZohoRecord) /\ KeysOK(z, P)
    BY DEF KeysInv
<1>2. WrittenOver(z, payload, e) /\ Rewritten(z, y, payload, e) /\ WrittenAt(z, y, payload, e, id)
    BY DEF Asked
<1>3. QED
    BY <1>1, <1>2, MirrorMade DEF SaysAll

LEMMA UpsertPolicyStep ==
    ASSUME BackfillInv, UpsertPolicy PROVE BackfillInv'
PROOF
<1>1. UNCHANGED <<momentumInsureds, momentumPolicies>> /\ backfill.at = "policy"
    BY DEF UpsertPolicy, Momentum, BackfillIdle
<1>2. PICK I \in Seq(InsuredRecord) : I = momentumInsureds
    BY DEF BackfillInv, KeysInv
<1>3. PICK P \in Seq(PolicyRecord) : P = momentumPolicies
    BY DEF BackfillInv, KeysInv
<1>4. PICK b \in BackfillRun : b = backfill
    BY DEF BackfillInv, RunInv
<1>5. PICK z \in Seq(ZohoRecord) : z = zoho
    BY DEF BackfillInv, KeysInv
<1>6. KeysInv(z, I, P, unanswered) /\ PlaceOK(I, P, b) /\ DoneSoFar(z, I, P, b)
    BY <1>2, <1>3, <1>4, <1>5 DEF BackfillInv, RunInv
<1>7. /\ b.at = "policy" /\ b.exit = -1 /\ b.insured <= Len(I) /\ b.insured \in DOMAIN I /\ I[b.insured].guid # ""
      /\ b.left \subseteq OwnedBy(P, I[b.insured].guid)
    BY <1>1, <1>4, <1>6 DEF PlaceOK
<1>8. ASSUME Faultless(b)
      PROVE  /\ PassedDone(z, I, P, b) /\ AccountIs(z, b.account, I[b.insured])
             /\ \A k \in OwnedBy(P, I[b.insured].guid) \ b.left : PolicyDone(z, P, k, b.account)
    BY <1>6, <1>7, <1>8 DEF DoneSoFar, CurrentDone
<1>9. CASE b.left = {}
  <2>1. PICK c : c = [b EXCEPT !.at = "insured"]
      OBVIOUS
  <2>2. /\ c \in BackfillRun /\ c.at = "insured" /\ c.insured = b.insured /\ c.exit = -1 /\ c.flags = b.flags /\ c.errors = b.errors
      BY <1>7, <2>1 DEF BackfillRun, RunPlaces
  <2>3. PlaceOK(I, P, c)
      BY <1>7, <2>2 DEF PlaceOK
  <2>4. ASSUME Faultless(c) PROVE PassedDone(z, I, P, c) /\ CurrentDone(z, I, P, c)
    <3>1. Faultless(b)
        BY <1>7, <2>2, <2>4 DEF Faultless
    <3>2. b.account \in DOMAIN z /\ AccountIs(z, b.account, I[b.insured])
        BY <1>8, <3>1 DEF AccountIs
    <3>3. InsuredDone(z, I, P, b.insured)
        BY <1>7, <1>8, <1>9, <3>1, <3>2 DEF InsuredDone
    <3>4. PassedDone(z, I, P, c)
        BY <1>8, <2>2, <3>1 DEF PassedDone
    <3>5. QED
        BY <2>2, <3>3, <3>4 DEF CurrentDone
  <2>5. RunInv(z, I, P, c)
      BY <2>2, <2>3, <2>4, RunGoesOn
  <2>6. backfill' = c /\ UNCHANGED <<zoho, unanswered>>
      BY <1>4, <1>9, <2>1 DEF UpsertPolicy, Run
  <2>7. QED
      BY <1>1, <1>2, <1>3, <1>5, <1>6, <2>5, <2>6 DEF BackfillInv
<1>10. CASE b.left # {}
  <2>1. b.left \in SUBSET Nat
      BY DEF BackfillRun
  <2>2. PICK k \in b.left : k = Min(b.left)
      BY <1>10, <2>1, LeastIn
  <2>3. k \in OwnedBy(P, I[b.insured].guid) /\ k \in DOMAIN P /\ Pol = P[k]
      BY <1>3, <1>4, <1>7, <2>2 DEF OwnedBy, Pol
  <2>4. PICK onward : onward = [b EXCEPT !.at = "renewal"]
      OBVIOUS
  <2>5. /\ onward \in BackfillRun /\ onward.at = "renewal" /\ onward.insured = b.insured /\ onward.left = b.left
        /\ onward.account = b.account /\ onward.exit = -1 /\ onward.flags = b.flags /\ onward.errors = b.errors
      BY <1>7, <2>4 DEF BackfillRun, RunPlaces
  <2>6. PlaceOK(I, P, onward)
      BY <1>7, <1>10, <2>5 DEF PlaceOK
  <2>7. Faultless(onward) => Faultless(b)
      BY <1>7, <2>5 DEF Faultless
  <2>8. CASE Flag("skip_policies") \/ Flag("dry_run") \/ ~Keyed(Pol)
    <3>1. backfill' = onward /\ UNCHANGED <<zoho, unanswered>>
        BY <1>4, <1>10, <2>4, <2>8 DEF UpsertPolicy, Run
    <3>2. ASSUME Faultless(onward) PROVE PassedDone(z, I, P, onward) /\ CurrentDone(z, I, P, onward)
      <4>1. ~Keyed(P[k])
          BY <1>4, <2>3, <2>5, <2>8, <3>2 DEF Faultless, Flag
      <4>2. ~OwnIn(P, P[k])
          BY <4>1 DEF Keyed, OwnIn
      <4>3. PassedDone(z, I, P, onward)
          BY <1>8, <2>5, <2>7, <3>2 DEF PassedDone
      <4>4. QED
          BY <1>8, <2>2, <2>5, <2>7, <3>2, <4>2, <4>3 DEF CurrentDone
    <3>3. RunInv(z, I, P, onward)
        BY <2>5, <2>6, <3>2, RunGoesOn
    <3>4. QED
        BY <1>1, <1>2, <1>3, <1>5, <1>6, <3>1, <3>3 DEF BackfillInv
  <2>9. CASE ~(Flag("skip_policies") \/ Flag("dry_run") \/ ~Keyed(Pol))
    <3>1. PICK id \in Ids :
             /\ Upsert(PolicyOf(P[k], b.account), id)
             /\ backfill' = IF id = NoId THEN WithError(onward) ELSE onward
        BY <1>4, <1>10, <2>3, <2>4, <2>9 DEF UpsertPolicy, Run
    <3>2. PICK payload : payload = PolicyOf(P[k], b.account)
        OBVIOUS
    <3>3. SentFor(payload, P[k], b.account) /\ Keyed(P[k])
        BY <2>3, <2>9, <3>2 DEF SentFor
    <3>4. PICK y : y = zoho'
        OBVIOUS
    <3>5. payload \in ZohoRecord
      <4>1. P[k] \in PolicyRecord /\ b.account \in Nat
          BY <2>3, PoliciesInList DEF BackfillRun
      <4>2. QED
          BY <3>2, <4>1, PolicySent
    <3>6. PICK e : Asked(z, y, payload, e, id, unanswered, unanswered')
        BY <1>5, <1>6, <3>1, <3>2, <3>4, <3>5, UpsertIs DEF KeysInv
    <3>7. KeysInv(y, I, P, unanswered') /\ LeavesDone(z, y, I, P, b)
        BY <1>6, <1>7, <3>3, <3>6, PolicyWriteLeaves
    <3>8. CASE id = NoId
      <4>1. PICK c : c = [onward EXCEPT !.errors = TRUE]
          OBVIOUS
      <4>2. /\ c \in BackfillRun /\ c.at = "renewal" /\ c.insured = b.insured /\ c.left = b.left /\ c.exit = -1 /\ c.errors
          BY <2>5, <4>1 DEF BackfillRun
      <4>3. PlaceOK(I, P, c)
          BY <1>7, <1>10, <4>2 DEF PlaceOK
      <4>4. RunInv(y, I, P, c)
          BY <4>2, <4>3, RunHasFaults
      <4>5. backfill' = c
          BY <3>1, <3>8, <4>1 DEF WithError
      <4>6. QED
          BY <1>1, <1>2, <1>3, <3>4, <3>7, <4>4, <4>5 DEF BackfillInv
    <3>9. CASE id # NoId
      <4>1. ASSUME Faultless(onward) PROVE PassedDone(y, I, P, onward) /\ CurrentDone(y, I, P, onward)
        <5>1. PassedDone(z, I, P, b) /\ AccountIs(z, b.account, I[b.insured])
            BY <1>8, <2>7, <4>1
        <5>2. PassedDone(y, I, P, b) /\ AccountIs(y, b.account, I[b.insured])
            BY <3>7, <5>1 DEF LeavesDone
        <5>3. \A j \in OwnedBy(P, I[b.insured].guid) \ b.left : PolicyDone(y, P, j, b.account)
            BY <1>8, <2>7, <3>7, <4>1 DEF LeavesDone
        <5>4. b.account \in Nat /\ b.account # 0
          <6>1. b.account \in DOMAIN z
              BY <5>1 DEF AccountIs
          <6>2. QED
              BY <6>1
        <5>5. ASSUME OwnIn(P, P[k]) PROVE HasMirror(y, payload)
          <6>1. P[k].guid # ""
              BY <5>5 DEF OwnIn
          <6>2. QED
            <7>1. P[k] \in PolicyRecord
                BY <2>3, PoliciesInList
            <7>2. SaysAll(payload)
                BY <3>3, <5>4, <6>1, <7>1, PolicySaysAll
            <7>3. QED
                BY <1>6, <3>6, <3>9, <7>2, RequestMirrors
        <5>6. PassedDone(y, I, P, onward)
            BY <2>5, <5>2 DEF PassedDone
        <5>7. QED
            BY <2>2, <2>5, <3>2, <5>2, <5>3, <5>5, <5>6 DEF CurrentDone
      <4>2. RunInv(y, I, P, onward)
          BY <2>5, <2>6, <4>1, RunGoesOn
      <4>3. backfill' = onward
          BY <3>1, <3>9
      <4>4. QED
          BY <1>1, <1>2, <1>3, <3>4, <3>7, <4>2, <4>3 DEF BackfillInv
    <3>10. QED
        BY <3>8, <3>9
  <2>10. QED
      BY <2>8, <2>9
<1>11. QED
    BY <1>9, <1>10

LEMMA UpsertRenewalStep ==
    ASSUME BackfillInv, UpsertRenewal PROVE BackfillInv'
PROOF
<1>1. UNCHANGED <<momentumInsureds, momentumPolicies>> /\ backfill.at = "renewal"
    BY DEF UpsertRenewal, Momentum, BackfillIdle
<1>2. PICK I \in Seq(InsuredRecord) : I = momentumInsureds
    BY DEF BackfillInv, KeysInv
<1>3. PICK P \in Seq(PolicyRecord) : P = momentumPolicies
    BY DEF BackfillInv, KeysInv
<1>4. PICK b \in BackfillRun : b = backfill
    BY DEF BackfillInv, RunInv
<1>5. PICK z \in Seq(ZohoRecord) : z = zoho
    BY DEF BackfillInv, KeysInv
<1>6. KeysInv(z, I, P, unanswered) /\ PlaceOK(I, P, b) /\ DoneSoFar(z, I, P, b)
    BY <1>2, <1>3, <1>4, <1>5 DEF BackfillInv, RunInv
<1>7. /\ b.at = "renewal" /\ b.exit = -1 /\ b.insured <= Len(I) /\ b.insured \in DOMAIN I /\ I[b.insured].guid # ""
      /\ b.left \subseteq OwnedBy(P, I[b.insured].guid) /\ b.left # {}
    BY <1>1, <1>4, <1>6 DEF PlaceOK
<1>8. b.left \in SUBSET Nat
    BY DEF BackfillRun
<1>9. PICK k \in b.left : k = Min(b.left)
    BY <1>7, <1>8, LeastIn
<1>10. k \in OwnedBy(P, I[b.insured].guid) /\ k \in DOMAIN P /\ Pol = P[k]
    BY <1>3, <1>4, <1>7, <1>9 DEF OwnedBy, Pol
<1>11. ASSUME Faultless(b)
       PROVE  /\ PassedDone(z, I, P, b) /\ AccountIs(z, b.account, I[b.insured])
              /\ \A j \in OwnedBy(P, I[b.insured].guid) \ b.left : PolicyDone(z, P, j, b.account)
              /\ OwnIn(P, P[k]) => HasMirror(z, PolicyOf(P[k], b.account))
    BY <1>6, <1>7, <1>9, <1>11 DEF DoneSoFar, CurrentDone
<1>12. PICK rest \in SUBSET Nat : rest = b.left \ {k}
    BY <1>8
<1>13. PICK onward : onward = [b EXCEPT !.at = "policy", !.left = rest]
    OBVIOUS
<1>14. /\ onward \in BackfillRun /\ onward.at = "policy" /\ onward.insured = b.insured /\ onward.left = rest
       /\ onward.account = b.account /\ onward.exit = -1 /\ onward.flags = b.flags /\ onward.errors = b.errors
    BY <1>7, <1>13 DEF BackfillRun, RunPlaces
<1>15. [backfill EXCEPT !.at = "policy", !.left = @ \ {Min(@)}] = onward
    BY <1>4, <1>9, <1>12, <1>13
<1>16. PlaceOK(I, P, onward)
    BY <1>7, <1>12, <1>14 DEF PlaceOK
<1>17. Faultless(onward) => Faultless(b)
    BY <1>7, <1>14 DEF Faultless
<1>18. CASE Flag("skip_renewals") \/ Flag("dry_run") \/ ~Expiring(Pol) \/ ~Keyed(Pol)
  <2>1. backfill' = onward /\ UNCHANGED <<zoho, unanswered>>
      BY <1>15, <1>18 DEF UpsertRenewal, Run
  <2>2. ASSUME Faultless(onward) PROVE PassedDone(z, I, P, onward) /\ CurrentDone(z, I, P, onward)
    <3>1. ~Expiring(P[k]) \/ ~Keyed(P[k])
        BY <1>4, <1>10, <1>14, <1>18, <2>2 DEF Faultless, Flag
    <3>2. PolicyDone(z, P, k, b.account)
        BY <1>11, <1>17, <2>2, <3>1 DEF PolicyDone, OwnIn, Keyed
    <3>3. PassedDone(z, I, P, onward)
        BY <1>11, <1>14, <1>17, <2>2 DEF PassedDone
    <3>4. \A j \in OwnedBy(P, I[b.insured].guid) \ rest : PolicyDone(z, P, j, b.account)
        BY <1>11, <1>12, <1>17, <2>2, <3>2
    <3>5. QED
        BY <1>11, <1>14, <1>17, <2>2, <3>3, <3>4 DEF CurrentDone
  <2>3. RunInv(z, I, P, onward)
      BY <1>14, <1>16, <2>2, RunGoesOn
  <2>4. QED
      BY <1>1, <1>2, <1>3, <1>5, <1>6, <2>1, <2>3 DEF BackfillInv
<1>19. CASE ~(Flag("skip_renewals") \/ Flag("dry_run") \/ ~Expiring(Pol) \/ ~Keyed(Pol))
  <2>1. PICK id \in Ids :
           /\ Upsert(RenewalOf(P[k], b.account), id)
           /\ backfill' = IF id = NoId THEN WithError(onward) ELSE onward
      BY <1>4, <1>10, <1>15, <1>19 DEF UpsertRenewal, Run
  <2>2. PICK payload : payload = RenewalOf(P[k], b.account)
      OBVIOUS
  <2>3. SentFor(payload, P[k], b.account) /\ Keyed(P[k])
      BY <1>10, <1>19, <2>2 DEF SentFor
  <2>4. PICK y : y = zoho'
      OBVIOUS
  <2>5. P[k] \in PolicyRecord /\ b.account \in Nat
      BY <1>10, PoliciesInList DEF BackfillRun
  <2>6. payload \in ZohoRecord /\ payload.module = "Renewals"
      BY <2>2, <2>5, RenewalSent
  <2>7. PICK e : Asked(z, y, payload, e, id, unanswered, unanswered')
      BY <1>5, <1>6, <2>1, <2>2, <2>4, <2>6, UpsertIs DEF KeysInv
  <2>8. KeysInv(y, I, P, unanswered') /\ LeavesDone(z, y, I, P, b)
      BY <1>6, <1>7, <2>3, <2>7, PolicyWriteLeaves
  <2>9. CASE id = NoId
    <3>1. PICK c : c = [onward EXCEPT !.errors = TRUE]
        OBVIOUS
    <3>2. /\ c \in BackfillRun /\ c.at = "policy" /\ c.insured = b.insured /\ c.left = rest /\ c.exit = -1 /\ c.errors
        BY <1>14, <3>1 DEF BackfillRun
    <3>3. PlaceOK(I, P, c)
        BY <1>7, <1>12, <3>2 DEF PlaceOK
    <3>4. RunInv(y, I, P, c)
        BY <3>2, <3>3, RunHasFaults
    <3>5. backfill' = c
        BY <2>1, <2>9, <3>1 DEF WithError
    <3>6. QED
        BY <1>1, <1>2, <1>3, <2>4, <2>8, <3>4, <3>5 DEF BackfillInv
  <2>10. CASE id # NoId
    <3>1. ASSUME Faultless(onward) PROVE PassedDone(y, I, P, onward) /\ CurrentDone(y, I, P, onward)
      <4>1. PassedDone(z, I, P, b) /\ AccountIs(z, b.account, I[b.insured])
          BY <1>11, <1>17, <3>1
      <4>2. PassedDone(y, I, P, b) /\ AccountIs(y, b.account, I[b.insured])
          BY <2>8, <4>1 DEF LeavesDone
      <4>3. \A j \in OwnedBy(P, I[b.insured].guid) \ b.left : PolicyDone(y, P, j, b.account)
          BY <1>11, <1>17, <2>8, <3>1 DEF LeavesDone
      <4>4. b.account # 0
        <5>1. b.account \in DOMAIN z
            BY <4>1 DEF AccountIs
        <5>2. QED
            BY <5>1
      <4>5. ASSUME OwnIn(P, P[k]) PROVE HasMirror(y, payload) /\ HasMirror(y, PolicyOf(P[k], b.account))
        <5>1. P[k].guid # ""
            BY <4>5 DEF OwnIn
        <5>2. HasMirror(y, payload)
          <6>1. SaysAll(payload)
              BY <2>3, <2>5, <4>4, <5>1, PolicySaysAll
          <6>2. QED
              BY <1>6, <2>7, <2>10, <6>1, RequestMirrors
        <5>3. HasMirror(z, PolicyOf(P[k], b.account))
            BY <1>11, <1>17, <3>1, <4>5
        <5>4. PolicyOf(P[k], b.account) \in ZohoRecord /\ PolicyOf(P[k], b.account).module = "Policies"
            BY <2>5, PolicySent
        <5>5. Spared(z, PolicyOf(P[k], b.account), payload)
            BY <2>6, <5>4 DEF Spared
        <5>6. WrittenOver(z, payload, e) /\ Rewritten(z, y, payload, e)
            BY <2>7 DEF Asked
        <5>7. HasMirror(y, PolicyOf(P[k], b.account))
            BY <2>6, <5>3, <5>4, <5>5, <5>6, MirrorStays
        <5>8. QED
            BY <5>2, <5>7
      <4>6. PolicyDone(y, P, k, b.account)
          BY <2>2, <4>5 DEF PolicyDone
      <4>7. PassedDone(y, I, P, onward)
          BY <1>14, <4>2 DEF PassedDone
      <4>8. \A j \in OwnedBy(P, I[b.insured].guid) \ rest : PolicyDone(y, P, j, b.account)
          BY <1>12, <4>3, <4>6
      <4>9. QED
          BY <1>14, <4>2, <4>7, <4>8 DEF CurrentDone
    <3>2. RunInv(y, I, P, onward)
        BY <1>14, <1>16, <3>1, RunGoesOn
    <3>3. backfill' = onward
        BY <2>1, <2>10
    <3>4. QED
        BY <1>1, <1>2, <1>3, <2>4, <2>8, <3>2, <3>3 DEF BackfillInv
  <2>11. QED
      BY <2>9, <2>10
<1>20. QED
    BY <1>18, <1>19

LEMMA PolicyChanged ==
    ASSUME NEW P \in Seq(PolicyRecord), NEW k \in DOMAIN P, NEW q \in PolicyRecord
    PROVE  [P EXCEPT ![k] = q] \in Seq(PolicyRecord) /\ DOMAIN [P EXCEPT ![k] = q] = DOMAIN P
OBVIOUS

LEMMA EditMomentumStep ==
    ASSUME BackfillInv, EditMomentum PROVE BackfillInv'
PROOF
<1>1. UNCHANGED <<momentumInsureds, zoho, unanswered>> /\ backfill' = Ended({}, -1)
    BY DEF EditMomentum, Run
<1>2. PICK I \in Seq(InsuredRecord) : I = momentumInsureds
    BY DEF BackfillInv, KeysInv
<1>3. PICK P \in Seq(PolicyRecord) : P = momentumPolicies
    BY DEF BackfillInv, KeysInv
<1>4. PICK z \in Seq(ZohoRecord) : z = zoho
    BY DEF BackfillInv, KeysInv
<1>5. KeysInv(z, I, P, unanswered)
    BY <1>2, <1>3, <1>4 DEF BackfillInv
<1>6. PICK Q \in Seq(PolicyRecord) : /\ momentumPolicies' = Q /\ DOMAIN Q = DOMAIN P
                                     /\ \A k \in DOMAIN P : Q[k].guid = P[k].guid /\ (Q[k].number = "" => P[k].number = "")
  <2>1. PICK k \in DOMAIN P :
            \/ \E n \in Numbers : momentumPolicies' = [P EXCEPT ![k].number = n]
            \/ momentumPolicies' = [P EXCEPT ![k].version = @ + 1]
            \/ \E d \in 1..2 : momentumPolicies' = [P EXCEPT ![k].exp = @ + d]
      BY <1>3 DEF EditMomentum
  <2>2. PICK p \in PolicyRecord : p = P[k]
      BY PoliciesInList
  <2>3. ASSUME NEW q \in PolicyRecord, q.guid = p.guid, q.number = "" => p.number = ""
        PROVE  \E Q \in Seq(PolicyRecord) : /\ Q = [P EXCEPT ![k] = q] /\ DOMAIN Q = DOMAIN P
                                            /\ \A j \in DOMAIN P : Q[j].guid = P[j].guid /\ (Q[j].number = "" => P[j].number = "")
    <3>1. PICK Q : Q = [P EXCEPT ![k] = q]
        OBVIOUS
    <3>2. Q \in Seq(PolicyRecord) /\ DOMAIN Q = DOMAIN P
        BY <2>3, <3>1, PolicyChanged
    <3>3. \A j \in DOMAIN P : Q[j].guid = P[j].guid /\ (Q[j].number = "" => P[j].number = "")
        BY <2>2, <2>3, <3>1
    <3>4. QED
        BY <3>1, <3>2, <3>3
  <2>4. CASE \E n \in Numbers : momentumPolicies' = [P EXCEPT ![k].number = n]
    <3>1. PICK n \in Numbers : momentumPolicies' = [P EXCEPT ![k].number = n]
        BY <2>4
    <3>2. PICK q : q = [p EXCEPT !.number = n]
        OBVIOUS
    <3>3. q \in PolicyRecord /\ q.guid = p.guid /\ q.number = n
        BY <3>2 DEF PolicyRecord
    <3>4. n # ""
        BY BackfillAssumption
    <3>5. momentumPolicies' = [P EXCEPT ![k] = q]
        BY <2>2, <3>1, <3>2
    <3>6. QED
        BY <2>3, <3>3, <3>4, <3>5
  <2>5. CASE momentumPolicies' = [P EXCEPT ![k].version = @ + 1]
    <3>1. PICK v \in Nat \ {0} : v = p.version + 1
      <4>1. p.version \in Nat
          BY DEF PolicyRecord
      <4>2. p.version + 1 \in Nat \ {0}
          BY <4>1
      <4>3. QED
          BY <4>2
    <3>2. PICK q : q = [p EXCEPT !.version = v]
        OBVIOUS
    <3>3. q \in PolicyRecord /\ q.guid = p.guid /\ q.number = p.number
        BY <3>2 DEF PolicyRecord
    <3>4. momentumPolicies' = [P EXCEPT ![k] = q]
        BY <2>2, <2>5, <3>1, <3>2
    <3>5. QED
        BY <2>3, <3>3, <3>4
  <2>6. CASE \E d \in 1..2 : momentumPolicies' = [P EXCEPT ![k].exp = @ + d]
    <3>1. PICK d \in 1..2 : momentumPolicies' = [P EXCEPT ![k].exp = @ + d]
        BY <2>6
    <3>2. PICK v \in Nat : v = p.exp + d
      <4>1. p.exp \in Nat
          BY DEF PolicyRecord
      <4>2. p.exp + d \in Nat
          BY <4>1
      <4>3. QED
          BY <4>2
    <3>3. PICK q : q = [p EXCEPT !.exp = v]
        OBVIOUS
    <3>4. q \in PolicyRecord /\ q.guid = p.guid /\ q.number = p.number
        BY <3>3 DEF PolicyRecord
    <3>5. momentumPolicies' = [P EXCEPT ![k] = q]
        BY <2>2, <3>1, <3>2, <3>3
    <3>6. QED
        BY <2>3, <3>4, <3>5
  <2>7. QED
      BY <2>1, <2>4, <2>5, <2>6
<1>7. OneEach(Q)
    BY <1>5, <1>6 DEF KeysInv, OneEach
<1>8. KeysOK(z, Q)
    BY <1>5, <1>6 DEF KeysInv, KeysOK
<1>9. KeysInv(z, I, Q, unanswered)
    BY <1>5, <1>6, <1>7, <1>8 DEF KeysInv
<1>10. RunInv(z, I, Q, Ended({}, -1))
    BY RunIsOver
<1>11. QED
    BY <1>1, <1>2, <1>4, <1>6, <1>9, <1>10 DEF BackfillInv

LEMMA BackfillStep ==
    ASSUME BackfillInv, [BackfillNext]_backfillVars PROVE BackfillInv'
PROOF
<1>1. CASE UNCHANGED backfillVars
    BY <1>1 DEF backfillVars, BackfillInv
<1>2. CASE BackfillNext
    BY <1>2, StartStep, EndSteps, NextInsuredStep, UpsertAccountStep, UpsertPolicyStep, UpsertRenewalStep, EditMomentumStep DEF BackfillNext
<1>3. QED
    BY <1>1, <1>2

LEMMA BackfillInvIsSafe ==
    ASSUME BackfillInv PROVE BackfillSafe
PROOF
<1>1. PICK I \in Seq(InsuredRecord) : I = momentumInsureds
    BY DEF BackfillInv, KeysInv
<1>2. PICK P \in Seq(PolicyRecord) : P = momentumPolicies
    BY DEF BackfillInv, KeysInv
<1>3. PICK b \in BackfillRun : b = backfill
    BY DEF BackfillInv, RunInv
<1>4. PICK z \in Seq(ZohoRecord) : z = zoho
    BY DEF BackfillInv, KeysInv
<1>5. KeysInv(z, I, P, unanswered) /\ PlaceOK(I, P, b) /\ ZeroIsDone(z, I, P, b)
    BY <1>1, <1>2, <1>3, <1>4 DEF BackfillInv, RunInv
<1>6. OneRecordPerPolicy
    BY <1>4, <1>5 DEF KeysInv, OneRecordEach, OneRecordPerPolicy
<1>7. ASSUME b.exit = 0, b.flags = {}, NEW i \in ToSet(I), \A j \in ToSet(I) \ {i} : j.name # i.name
      PROVE  \E a \in DOMAIN z :
                /\ z[a].module = "Accounts" /\ z[a].guid = i.guid /\ z[a].key = i.name
                /\ \A k \in PoliciesOf(i.guid) : OwnRecord(P[k]) =>
                      /\ \E r \in ToSet(z) : Mirrored(r, PolicyOf(P[k], a))
                      /\ Expiring(P[k]) => \E r \in ToSet(z) : Mirrored(r, RenewalOf(P[k], a))
  <2>1. b.at = "over"
    <3>1. b.at # "over" => b.exit = -1
        BY <1>5 DEF PlaceOK
    <3>2. QED
        BY <1>7, <3>1
  <2>2. PICK n \in DOMAIN I : i = I[n]
      BY DEF ToSet
  <2>3. InsuredDone(z, I, P, n)
      BY <1>5, <1>7, <2>1 DEF ZeroIsDone
  <2>4. NoNamesake(I, n)
    <3>1. SUFFICES ASSUME NEW m \in DOMAIN I, m # n PROVE I[m].name # I[n].name
        BY DEF NoNamesake
    <3>2. I[m].guid # I[n].guid
        BY <1>5, <2>3, <3>1 DEF KeysInv, OneEach, InsuredDone
    <3>3. I[m] \in ToSet(I) \ {i}
        BY <2>2, <3>2 DEF ToSet
    <3>4. QED
        BY <1>7, <2>2, <3>3
  <2>5. PICK a \in DOMAIN z : AccountIs(z, a, i) /\ \A k \in OwnedBy(P, i.guid) : PolicyDone(z, P, k, a)
      BY <2>2, <2>3, <2>4 DEF InsuredDone
  <2>6. ASSUME NEW k \in PoliciesOf(i.guid), OwnRecord(P[k])
        PROVE  /\ \E r \in ToSet(z) : Mirrored(r, PolicyOf(P[k], a))
               /\ Expiring(P[k]) => \E r \in ToSet(z) : Mirrored(r, RenewalOf(P[k], a))
    <3>1. k \in OwnedBy(P, i.guid)
        BY <1>2 DEF PoliciesOf, OwnedBy
    <3>2. OwnIn(P, P[k])
        BY <1>2, <2>6 DEF OwnRecord, OwnIn, ToSet
    <3>3. HasMirror(z, PolicyOf(P[k], a)) /\ (Expiring(P[k]) => HasMirror(z, RenewalOf(P[k], a)))
        BY <2>5, <3>1, <3>2 DEF PolicyDone
    <3>4. QED
        BY <3>3 DEF HasMirror, ToSet
  <2>7. QED
      BY <2>5, <2>6 DEF AccountIs
<1>8. ZeroMeansMirrored
    BY <1>1, <1>2, <1>3, <1>4, <1>7 DEF ZeroMeansMirrored
<1>9. QED
    BY <1>6, <1>8 DEF BackfillSafe

\* A backfill that ends with 0 has left nothing out, and what every answered request has
\* made is there once, whatever Zoho held before, as long as it and NowCerts name nothing
\* twice (see BackfillSafe).
THEOREM BackfillIsSafe ==
    ASSUME NEW insureds \in SUBSET Seq(InsuredRecord), NEW policies \in SUBSET Seq(PolicyRecord), NEW records \in SUBSET Seq(ZohoRecord),
           \A I \in insureds : OneEach(I), \A P \in policies : OneEach(P),
           \A z \in records : OneRecordEach(z) /\ \A P \in policies : KeysOK(z, P)
    PROVE  BackfillSpec(insureds, policies, records) => []BackfillSafe
PROOF
<1>1. BackfillInit(insureds, policies, records) => BackfillInv
    BY BackfillStart
<1>2. BackfillInv /\ [BackfillNext]_backfillVars => BackfillInv'
    BY BackfillStep
<1>3. BackfillInv => BackfillSafe
    BY BackfillInvIsSafe
<1>4. QED
    BY <1>1, <1>2, <1>3, PTL DEF BackfillSpec

(***************************************************************************)
(* The copies of the book, in Zoho and in the mirror, together.             *)
(***************************************************************************)
THEOREM CopiesAreSafe ==
    ASSUME NEW insureds \in SUBSET Seq(InsuredRecord), NEW policies \in SUBSET Seq(PolicyRecord), NEW records \in SUBSET Seq(ZohoRecord),
           \A I \in insureds : OneEach(I), \A P \in policies : OneEach(P),
           \A z \in records : OneRecordEach(z) /\ \A P \in policies : KeysOK(z, P),
           NEW sides \in SUBSET AmsSides, \A side \in sides : DatesDiffer(side), NEW copied
    PROVE  BackfillSpec(insureds, policies, records) /\ HealthSpec(sides, copied) => []CopiesSafe
PROOF
<1>1. BackfillSpec(insureds, policies, records) => []BackfillSafe
    BY BackfillIsSafe
<1>2. HealthSpec(sides, copied) => []HealthyMeansLive
    BY HealthyIsLive
<1>3. BackfillSafe /\ HealthyMeansLive => CopiesSafe
    BY DEF CopiesSafe
<1>4. QED
    BY <1>1, <1>2, <1>3, PTL

=============================================================================
