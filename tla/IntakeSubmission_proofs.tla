----------------------- MODULE IntakeSubmission_proofs -----------------------
(***************************************************************************)
(* Theorems of IntakeSubmission, for any submissions, tokens and people,   *)
(* and any number of workers, inline commits, repeats and faults.          *)
(*                                                                         *)
(* Whoever stores a row has read it some steps ago, so what is inductive   *)
(* speaks of the processes: each of them is on its way to a status with a  *)
(* token somebody gave, has read a row whose history was a walk, and has   *)
(* already committed what the status it writes next claims.                *)
(***************************************************************************)
EXTENDS IntakeSubmission, TLAPS

Moving == {"fetch", "store"}
AtCommit == {"lookup", "open", "index"}
BeforeApproval == {"synthesizing", "synthesized", "drafting", "awaiting_approval"}
FromApproval == {"approved", "writing", "written", "complete"}

\* The doing d is a transition to one of the statuses.
HeadsFor(d, statuses) == d.at \in Moving /\ d.to \in statuses

\* What the doing d of process p has read.
ReadInv(p, d) ==
    /\ d.at \in Moving => d.to \notin {"absent", "received"}
    /\ d.at = "store" => /\ Walk(d.seen.history, d.seen.status)
                         /\ d.to \in Forward[d.seen.status] \cup {"failed"}
    /\ d.at = "claim" => /\ p \in Worker
                         /\ Walk(d.seen.history, d.seen.status)
                         /\ d.seen.status = IF d.arc = 1 THEN "received" ELSE "approved"

\* Where its token comes from.
TokenInv(p, d) ==
    /\ d.token \in given[d.sub] \cup {"none", "cancel"}
    /\ p \in Approver => d.at \in Moving /\ d.to \in {"failed", "approved"}
    /\ d.token = "cancel" => p \in Approver /\ d.to = "failed"
    /\ p \notin Approver /\ (d.at = "synthesize" \/ HeadsFor(d, BeforeApproval)) =>
          /\ d.token = row[d.sub].payload
          /\ p \in Poster => d.token # "none"
    /\ HeadsFor(d, FromApproval) \/ d.at \in AtCommit => d.token \in given[d.sub]
    /\ d.at \in {"lookup", "open"} => d.token \in ApproveCrm
    /\ d.at = "index" => d.token \in ApproveSupabase

\* What it has committed.
CommitInv(d) ==
    /\ d.at = "index" \/ HeadsFor(d, {"written", "complete"}) =>
          (d.token \in ApproveCrm => opened[d.sub])
    /\ HeadsFor(d, {"complete"}) =>
          (d.token \in ApproveSupabase => indexed[d.sub] > 0)

DoingInv(p, d) ==
    /\ d \in Doing
    /\ d.at = "rest" => d \in {Resting, SecondArc}
    /\ d.at # "rest" => /\ d.sub \in Submission /\ row[d.sub].status # "absent"
                        /\ ReadInv(p, d) /\ TokenInv(p, d) /\ CommitInv(d)

RowInv(s) ==
    /\ row[s].status # "absent" => Walk(row[s].history, row[s].status)
    /\ row[s].token \in given[s] \cup {"none"}
    /\ row[s].payload \in given[s] \cup {"none"}
    /\ row[s].status = "approved" => row[s].token \in given[s]
    /\ row[s].status = "complete" =>
          \E token \in given[s] : /\ token \in ApproveCrm => opened[s]
                                  /\ token \in ApproveSupabase => indexed[s] > 0
    /\ opened[s] => given[s] \cap ApproveCrm # {}
    /\ indexed[s] > 0 => given[s] \cap ApproveSupabase # {}

IntakeInv ==
    /\ TypeOK
    /\ \A s \in Submission : RowInv(s)
    /\ \A p \in Process : DoingInv(p, proc[p])

-----------------------------------------------------------------------------
(***************************************************************************)
(* The audit trail grows by one transition at a time.                      *)
(***************************************************************************)
LEMMA StatusNames ==
    Status = {"absent", "received", "synthesizing", "synthesized", "drafting",
              "awaiting_approval", "approved", "writing", "written", "complete", "failed"}
  BY DEF Status, Forward

LEMMA ForwardType ==
    \A s \in Status : Forward[s] \cup {"failed"} \subseteq Status \ {"absent", "received"}
<1> SUFFICES ASSUME NEW s \in Status
             PROVE  Forward[s] \cup {"failed"} \subseteq Status \ {"absent", "received"}
  OBVIOUS
<1>1. CASE s \in {"absent", "complete", "failed"}
  <2>1. Forward[s] = {}
    BY <1>1 DEF Forward
  <2> QED
    BY <2>1, StatusNames
<1>2. CASE s \in {"received", "synthesizing", "synthesized", "drafting"}
  BY <1>2, StatusNames DEF Forward
<1>3. CASE s \in {"awaiting_approval", "approved", "writing", "written"}
  BY <1>3, StatusNames DEF Forward
<1> QED
  BY <1>1, <1>2, <1>3, StatusNames

LEMMA WalkAppend ==
    ASSUME NEW h \in History, NEW s \in Status, NEW to \in Forward[s] \cup {"failed"}, Walk(h, s)
    PROVE  Walk(Append(h, <<s, to>>), to) /\ Append(h, <<s, to>>) \in History
<1> DEFINE g == Append(h, <<s, to>>)
<1>1. to \in Status /\ Len(h) \in Nat
  BY ForwardType DEF History
<1>2. g \in History
  BY <1>1 DEF History
<1>3. Len(g) = Len(h) + 1 /\ g[Len(h) + 1] = <<s, to>> /\ \A i \in 1..Len(h) : g[i] = h[i]
  BY <1>1 DEF History
<1>4. g # <<>>
  <2>1. Len(<<>>) = 0 /\ Len(g) # 0
    BY <1>1, <1>3
  <2> QED
    BY <2>1
<1> HIDE DEF g
<1>5. g[Len(h) + 1][1] = s /\ g[Len(h) + 1][2] = to
  BY <1>3
<1>6. h # <<>> => Len(h) \in 1..Len(h) /\ Len(h) # 0
  BY <1>1 DEF History
<1>7. h = <<>> => Len(h) = 0
  BY DEF History
<1>8. ASSUME NEW i \in 1..Len(g)
      PROVE  /\ g[i][2] \in Forward[g[i][1]] \cup {"failed"}
             /\ g[i][1] = IF i = 1 THEN "received" ELSE g[i - 1][2]
  <2>1. CASE i \in 1..Len(h)
    <3>1. i # 1 => i - 1 \in 1..Len(h)
      BY <1>1, <2>1
    <3> QED
      BY <1>3, <2>1, <3>1 DEF Walk
  <2>2. CASE i = Len(h) + 1
    <3>1. CASE h = <<>>
      BY <1>5, <1>7, <2>2, <3>1 DEF Walk
    <3>2. CASE h # <<>>
      <4>1. i # 1 /\ i - 1 = Len(h) /\ g[i - 1] = h[Len(h)]
        BY <1>1, <1>3, <1>6, <2>2, <3>2
      <4> QED
        BY <1>5, <2>2, <3>2, <4>1 DEF Walk
    <3> QED
      BY <3>1, <3>2
  <2> QED
    BY <1>1, <1>3, <2>1, <2>2
<1>9. Walk(g, to)
  BY <1>3, <1>4, <1>5, <1>8 DEF Walk
<1> QED
  BY <1>2, <1>9 DEF g

-----------------------------------------------------------------------------
(***************************************************************************)
(* What a process may do next, in the state in which it decides.           *)
(***************************************************************************)
LEMMA ProcessKinds ==
    /\ \A p \in Process : p \notin Approver => p \in Worker \cup Poster
    /\ \A p \in Approver : p \notin Worker /\ p \notin Poster
    /\ \A p \in Poster : p \notin Worker
    /\ \A T \in SUBSET Token : "none" \notin T /\ "cancel" \notin T
  BY IntakeAssumption DEF Process

LEMMA RestTypes ==
    ASSUME NEW p \in Process
    PROVE  DoingInv(p, Resting) /\ DoingInv(p, Finished(p))
<1>1. Nothing \in [status : Status, history : History]
  BY DEF Nothing, Status, Forward, History
<1>2. Resting \in Doing /\ SecondArc \in Doing
  BY <1>1 DEF Resting, SecondArc, Doing, Place, Status, Forward
<1>3. Resting.at = "rest" /\ SecondArc.at = "rest"
  BY DEF Resting, SecondArc
<1> QED
  BY <1>2, <1>3 DEF DoingInv, Finished

\* The fields of a doing that heads for a status.
LEMMA TowardFields ==
    ASSUME NEW p \in Process, proc[p] \in Doing, NEW to \in Status
    PROVE  LET d == Toward(p, to)
           IN  /\ d \in Doing /\ d.at = "fetch" /\ d.to = to
               /\ d.sub = proc[p].sub /\ d.token = proc[p].token
<1>1. Nothing \in [status : Status, history : History]
  BY DEF Nothing, Status, Forward, History
<1> QED
  BY <1>1 DEF Toward, Doing, Place

LEMMA FailingInv ==
    ASSUME NEW p \in Process, DoingInv(p, proc[p]), proc[p].at # "rest"
    PROVE  DoingInv(p, Failing(p))
<1>1. CASE p \in Approver \/ proc[p].to = "failed"
  BY <1>1, RestTypes DEF Failing
<1>2. CASE ~(p \in Approver \/ proc[p].to = "failed")
  <2> DEFINE d == Toward(p, "failed")
  <2>1. "failed" \in Status
    BY DEF Status, Forward
  <2>2. /\ d \in Doing /\ d.at = "fetch" /\ d.to = "failed"
        /\ d.sub = proc[p].sub /\ d.token = proc[p].token
    BY <2>1, TowardFields DEF DoingInv
  <2> HIDE DEF d
  <2>3. ReadInv(p, d) /\ CommitInv(d)
    BY <2>2 DEF ReadInv, CommitInv, HeadsFor, Moving
  <2>4. TokenInv(p, d)
    BY <1>2, <2>2 DEF DoingInv, TokenInv, HeadsFor, Moving, AtCommit, FromApproval, BeforeApproval
  <2>5. DoingInv(p, d)
    BY <2>2, <2>3, <2>4 DEF DoingInv
  <2> QED
    BY <1>2, <2>5 DEF Failing, d
<1> QED
  BY <1>1, <1>2

LEMMA CommittingInv ==
    ASSUME NEW p \in Process, p \notin Approver, proc[p] \in Doing,
           proc[p].sub \in Submission, row[proc[p].sub].status # "absent",
           given[proc[p].sub] \in SUBSET Token, NEW token \in given[proc[p].sub]
    PROVE  DoingInv(p, Committing(p, token))
<1> DEFINE d == Committing(p, token)
<1>1. Nothing \in [status : Status, history : History] /\ "written" \in Status
  BY DEF Nothing, Status, Forward, History
<1>2. /\ d \in Doing /\ d.to = "written" /\ d.sub = proc[p].sub /\ d.token = token
      /\ d.at = IF token \in ApproveCrm THEN "lookup" ELSE "fetch"
  BY <1>1 DEF Committing, Doing, Place
<1> HIDE DEF d
<1>3. ReadInv(p, d) /\ CommitInv(d)
  BY <1>2 DEF ReadInv, CommitInv, HeadsFor, Moving
<1>4. TokenInv(p, d)
  BY <1>2, ProcessKinds DEF TokenInv, HeadsFor, Moving, AtCommit, FromApproval, BeforeApproval
<1>5. DoingInv(p, d)
  BY <1>2, <1>3, <1>4 DEF DoingInv
<1> QED
  BY <1>5 DEF d

LEMMA AfterInv ==
    ASSUME TypeOK, NEW p \in Process, DoingInv(p, proc[p]), proc[p].at \in Moving,
           RowInv(proc[p].sub)
    PROVE  DoingInv(p, After(p))
<1> DEFINE s == proc[p].sub
<1>0. /\ proc[p] \in Doing /\ s \in Submission /\ row[s].status # "absent"
      /\ ReadInv(p, proc[p]) /\ TokenInv(p, proc[p]) /\ CommitInv(proc[p])
  BY DEF DoingInv, Moving
<1>1. CASE Stops(p) \/ proc[p].to \in {"complete", "failed"}
  <2>1. After(p) = Finished(p)
    BY <1>1 DEF After, Following
  <2> QED
    BY <2>1, RestTypes
<1> SUFFICES ASSUME ~Stops(p), proc[p].to \notin {"complete", "failed"}
             PROVE  DoingInv(p, After(p))
  BY <1>1
<1>a. p \notin Approver
  BY DEF Stops
<1>b. given[s] \in SUBSET Token
  BY <1>0 DEF TypeOK
<1>2. CASE proc[p].to \in DOMAIN Following
  <2> DEFINE to == Following[proc[p].to]
             d == Toward(p, to)
  <2>1. After(p) = d
    BY <1>2 DEF After, Following
  <2>2. to \in Status \ {"absent", "received"}
    BY <1>2, StatusNames DEF Following
  <2>3. /\ d \in Doing /\ d.at = "fetch" /\ d.to = to
        /\ d.sub = s /\ d.token = proc[p].token
    BY <1>0, <2>2, TowardFields
  <2>4. to \notin {"written", "complete", "failed"}
    BY <1>2 DEF Following
  <2>5. HeadsFor(proc[p], BeforeApproval) \/ HeadsFor(proc[p], {"approved"})
    BY <1>2 DEF Following, HeadsFor, BeforeApproval
  <2>6. to \in BeforeApproval => HeadsFor(proc[p], BeforeApproval)
    BY <1>2 DEF Following, HeadsFor, BeforeApproval
  <2>7. to \in FromApproval => proc[p].token \in given[s]
    <3>1. CASE proc[p].to = "approved"
      BY <1>0, <3>1 DEF TokenInv, HeadsFor, FromApproval
    <3>2. CASE proc[p].to = "awaiting_approval"
      <4>1. proc[p].token = row[s].payload /\ (p \in Poster => proc[p].token # "none")
        BY <1>0, <1>a, <3>2 DEF TokenInv, HeadsFor, BeforeApproval
      <4>2. row[s].payload # "none"
        BY <1>a, <3>2, <4>1, ProcessKinds DEF Stops
      <4> QED
        BY <1>0, <4>1, <4>2 DEF RowInv
    <3>3. CASE proc[p].to \notin {"approved", "awaiting_approval"}
      BY <1>2, <3>3 DEF Following, FromApproval
    <3> QED
      BY <3>1, <3>2, <3>3
  <2> HIDE DEF d, to
  <2>8. ReadInv(p, d) /\ CommitInv(d)
    BY <2>2, <2>3, <2>4 DEF ReadInv, CommitInv, HeadsFor, Moving
  <2>9. TokenInv(p, d)
    BY <1>0, <1>a, <2>3, <2>6, <2>7, ProcessKinds
       DEF TokenInv, HeadsFor, Moving, AtCommit
  <2>10. DoingInv(p, d)
    BY <1>0, <2>3, <2>8, <2>9 DEF DoingInv
  <2> QED
    BY <2>1, <2>10
<1>3. CASE proc[p].to = "writing"
  <2>1. proc[p].token \in given[s]
    BY <1>0, <1>3 DEF TokenInv, HeadsFor, FromApproval
  <2>2. After(p) = Committing(p, proc[p].token)
    BY <1>3 DEF After, Following
  <2> QED
    BY <1>0, <1>a, <1>b, <2>1, <2>2, CommittingInv
<1>4. CASE proc[p].to = "written" /\ proc[p].token \in ApproveSupabase
  <2> DEFINE d == [proc[p] EXCEPT !.at = "index"]
  <2>1. After(p) = d
    BY <1>4 DEF After, Following
  <2>2. /\ d \in Doing /\ d.at = "index" /\ d.to = "written"
        /\ d.sub = s /\ d.token = proc[p].token
    BY <1>0, <1>4 DEF Doing, Place
  <2> HIDE DEF d
  <2>3. proc[p].token \in given[s] /\ (proc[p].token \in ApproveCrm => opened[s])
    BY <1>0, <1>4 DEF TokenInv, CommitInv, HeadsFor, FromApproval
  <2>4. ReadInv(p, d) /\ CommitInv(d) /\ TokenInv(p, d)
    BY <1>a, <1>b, <1>4, <2>2, <2>3, ProcessKinds
       DEF ReadInv, TokenInv, CommitInv, HeadsFor, Moving, AtCommit
  <2> QED
    BY <1>0, <2>1, <2>2, <2>4 DEF DoingInv
<1>5. CASE proc[p].to = "written" /\ proc[p].token \notin ApproveSupabase
  <2> DEFINE d == Toward(p, "complete")
  <2>1. After(p) = d
    BY <1>5 DEF After, Following
  <2>2. "complete" \in Status
    BY DEF Status, Forward
  <2>3. /\ d \in Doing /\ d.at = "fetch" /\ d.to = "complete"
        /\ d.sub = s /\ d.token = proc[p].token
    BY <1>0, <2>2, TowardFields
  <2> HIDE DEF d
  <2>4. proc[p].token \in given[s] /\ (proc[p].token \in ApproveCrm => opened[s])
    BY <1>0, <1>5 DEF TokenInv, CommitInv, HeadsFor, FromApproval
  <2>5. ReadInv(p, d) /\ CommitInv(d) /\ TokenInv(p, d)
    BY <1>a, <1>b, <1>5, <2>3, <2>4, ProcessKinds
       DEF ReadInv, TokenInv, CommitInv, HeadsFor, Moving, AtCommit, BeforeApproval
  <2> QED
    BY <1>0, <2>1, <2>3, <2>5 DEF DoingInv
<1> QED
  <2>1. proc[p].to \in Status /\ proc[p].to \notin {"absent", "received"}
    BY <1>0 DEF Doing, ReadInv
  <2> QED
    BY <1>2, <1>3, <1>4, <1>5, <2>1, StatusNames DEF Following

-----------------------------------------------------------------------------
(***************************************************************************)
(* What no step takes back: a row that exists, its payload, the tokens     *)
(* that were given and what was committed.                                 *)
(***************************************************************************)
Grows ==
    \A s \in Submission :
        /\ row[s].status # "absent" => row'[s].status # "absent" /\ row'[s].payload = row[s].payload
        /\ given[s] \subseteq given'[s]
        /\ opened[s] => opened'[s]
        /\ indexed[s] > 0 => indexed'[s] > 0

LEMMA DoingKept ==
    ASSUME NEW p \in Process, NEW d, DoingInv(p, d), Grows
    PROVE  DoingInv(p, d)'
<1>1. CASE d.at = "rest"
  BY <1>1 DEF DoingInv
<1>2. CASE d.at # "rest"
  <2>1. /\ d \in Doing /\ d.sub \in Submission /\ row[d.sub].status # "absent"
        /\ ReadInv(p, d) /\ TokenInv(p, d) /\ CommitInv(d)
    BY <1>2 DEF DoingInv
  <2>2. /\ row'[d.sub].status # "absent" /\ row'[d.sub].payload = row[d.sub].payload
        /\ given[d.sub] \subseteq given'[d.sub]
        /\ opened[d.sub] => opened'[d.sub]
        /\ indexed[d.sub] > 0 => indexed'[d.sub] > 0
    BY <2>1 DEF Grows
  <2>3. ReadInv(p, d)'
    BY <2>1 DEF ReadInv
  <2>4. TokenInv(p, d)'
    BY <2>1, <2>2 DEF TokenInv
  <2>5. CommitInv(d)'
    BY <2>1, <2>2 DEF CommitInv
  <2> QED
    BY <2>1, <2>2, <2>3, <2>4, <2>5 DEF DoingInv
<1> QED
  BY <1>1, <1>2

\* One process goes on to d, which is in order; the others stay as they are.
LEMMA ProcStep ==
    ASSUME IntakeInv, Grows, NEW p \in Process, NEW d, Do(p, d), DoingInv(p, d)'
    PROVE  proc' \in [Process -> Doing] /\ \A q \in Process : DoingInv(q, proc[q])'
<1>1. d \in Doing /\ proc \in [Process -> Doing]
  BY DEF DoingInv, IntakeInv, TypeOK
<1>2. proc' \in [Process -> Doing]
  BY <1>1 DEF Do
<1>3. ASSUME NEW q \in Process PROVE DoingInv(q, proc[q])'
  <2>1. CASE q = p
    <3>1. proc'[q] = d
      BY <1>1, <2>1 DEF Do
    <3> QED
      BY <2>1, <3>1
  <2>2. CASE q # p
    <3>1. proc'[q] = proc[q]
      BY <1>1, <2>2 DEF Do
    <3>2. DoingInv(q, proc[q])
      BY DEF IntakeInv
    <3>3. PICK e : e = proc[q]
      OBVIOUS
    <3>4. DoingInv(q, e)'
      BY <3>2, <3>3, DoingKept
    <3> QED
      BY <3>1, <3>3, <3>4
  <2> QED
    BY <2>1, <2>2
<1> QED
  BY <1>2, <1>3

\* The rows stay as they are.
LEMMA RowsKept ==
    ASSUME IntakeInv, UNCHANGED <<row, opened, indexed>>,
           \A s \in Submission : given[s] \subseteq given'[s]
    PROVE  Grows /\ \A s \in Submission : RowInv(s)'
<1>1. Grows
  BY DEF Grows
<1>2. ASSUME NEW s \in Submission PROVE RowInv(s)'
  <2>1. RowInv(s) /\ given[s] \subseteq given'[s]
    BY DEF IntakeInv
  <2> QED
    BY <2>1 DEF RowInv
<1> QED
  BY <1>1, <1>2

\* A step that only moves a process, to a doing that is in order already.
LEMMA MoveStep ==
    ASSUME IntakeInv, UNCHANGED <<row, opened, indexed, given>>, told' \in [Submission -> BOOLEAN],
           Fine \/ Fault, NEW p \in Process, NEW d, Do(p, d), DoingInv(p, d)
    PROVE  IntakeInv'
<1>1. Grows /\ \A s \in Submission : RowInv(s)'
  BY RowsKept
<1>2. DoingInv(p, d)'
  BY <1>1, DoingKept
<1>3. proc' \in [Process -> Doing] /\ \A q \in Process : DoingInv(q, proc[q])'
  BY <1>1, <1>2, ProcStep
<1>4. faults' \in 0..MaxFaults
  BY IntakeAssumption DEF IntakeInv, TypeOK, Fine, Fault
<1>5. TypeOK'
  BY <1>3, <1>4 DEF IntakeInv, TypeOK
<1> QED
  BY <1>1, <1>3, <1>5 DEF IntakeInv

LEMMA FaultType == ASSUME IntakeInv, Fine \/ Fault PROVE faults' \in 0..MaxFaults
  BY IntakeAssumption DEF IntakeInv, TypeOK, Fine, Fault

\* A transition is written, and one process goes on.
LEMMA WriteStep ==
    ASSUME IntakeInv, UNCHANGED <<opened, indexed, given>>, told' \in [Submission -> BOOLEAN],
           Fine \/ Fault, NEW s \in Submission, NEW r \in SubmissionRow,
           row' = [row EXCEPT ![s] = r], r.status # "absent", r.payload = row[s].payload,
           RowInv(s)',
           NEW p \in Process, NEW d, Do(p, d), DoingInv(p, d)
    PROVE  IntakeInv'
<1> row \in [Submission -> SubmissionRow]
  BY DEF IntakeInv, TypeOK
<1>1. row' \in [Submission -> SubmissionRow] /\ row'[s] = r
      /\ \A q \in Submission : q # s => row'[q] = row[q]
  OBVIOUS
<1>2. Grows
  BY <1>1 DEF Grows
<1>3. ASSUME NEW q \in Submission PROVE RowInv(q)'
  <2>1. CASE q = s
    BY <2>1
  <2>2. CASE q # s
    <3>1. RowInv(q) /\ row'[q] = row[q]
      BY <1>1, <2>2 DEF IntakeInv
    <3> QED
      BY <3>1 DEF RowInv
  <2> QED
    BY <2>1, <2>2
<1>4. DoingInv(p, d)'
  BY <1>2, DoingKept
<1>5. proc' \in [Process -> Doing] /\ \A q \in Process : DoingInv(q, proc[q])'
  BY <1>2, <1>4, ProcStep
<1>6. faults' \in 0..MaxFaults
  BY FaultType
<1>7. TypeOK'
  BY <1>1, <1>5, <1>6 DEF IntakeInv, TypeOK
<1> QED
  BY <1>3, <1>5, <1>7 DEF IntakeInv

\* Something was committed, and one process goes on.
LEMMA CommitStep ==
    ASSUME IntakeInv, UNCHANGED <<row, given, told>>, Fine \/ Fault, NEW s \in Submission,
           \/ /\ opened' = [opened EXCEPT ![s] = TRUE] /\ UNCHANGED indexed
              /\ given[s] \cap ApproveCrm # {}
           \/ /\ indexed' = [indexed EXCEPT ![s] = @ + 1] /\ UNCHANGED opened
              /\ given[s] \cap ApproveSupabase # {},
           NEW p \in Process, NEW d, Do(p, d), DoingInv(p, d)'
    PROVE  IntakeInv'
<1> opened \in [Submission -> BOOLEAN] /\ indexed \in [Submission -> Nat]
  BY DEF IntakeInv, TypeOK
<1>1. /\ opened' \in [Submission -> BOOLEAN] /\ indexed' \in [Submission -> Nat]
      /\ \A q \in Submission : (opened[q] => opened'[q]) /\ (indexed[q] > 0 => indexed'[q] > 0)
      /\ \A q \in Submission : opened'[q] => opened[q] \/ given[q] \cap ApproveCrm # {}
      /\ \A q \in Submission : indexed'[q] > 0 => indexed[q] > 0 \/ given[q] \cap ApproveSupabase # {}
  <2>1. CASE opened' = [opened EXCEPT ![s] = TRUE] /\ UNCHANGED indexed
             /\ given[s] \cap ApproveCrm # {}
    BY <2>1
  <2>2. CASE indexed' = [indexed EXCEPT ![s] = @ + 1] /\ UNCHANGED opened
             /\ given[s] \cap ApproveSupabase # {}
    <3>1. indexed'[s] = indexed[s] + 1 /\ indexed' \in [Submission -> Nat]
          /\ \A q \in Submission : q # s => indexed'[q] = indexed[q]
      BY <2>2
    <3> QED
      BY <2>2, <3>1
  <2> QED
    BY <2>1, <2>2
<1>2. Grows
  BY <1>1 DEF Grows
<1>3. ASSUME NEW q \in Submission PROVE RowInv(q)'
  <2>1. RowInv(q)
    BY DEF IntakeInv
  <2> QED
    BY <1>1, <2>1 DEF RowInv
<1>4. proc' \in [Process -> Doing] /\ \A q \in Process : DoingInv(q, proc[q])'
  BY <1>2, ProcStep
<1>5. TypeOK'
  BY <1>1, <1>4, FaultType DEF IntakeInv, TypeOK
<1> QED
  BY <1>3, <1>4, <1>5 DEF IntakeInv

-----------------------------------------------------------------------------
(***************************************************************************)
(* The actions.                                                            *)
(***************************************************************************)
LEMMA SubmitStep == ASSUME IntakeInv, NEW s \in Submission, Submit(s) PROVE IntakeInv'
<1> USE DEF Submit
<1>0. /\ row \in [Submission -> SubmissionRow] /\ given \in [Submission -> SUBSET Token]
      /\ opened \in [Submission -> BOOLEAN] /\ indexed \in [Submission -> Nat]
  BY DEF IntakeInv, TypeOK
<1> PayloadToken \subseteq Token
  BY IntakeAssumption
<1>1. PICK kind \in Kind, payload \in PayloadToken \cup {"none"} :
        /\ kind = "review" <=> payload = "none"
        /\ row' = [row EXCEPT ![s] = [status |-> "received", history |-> <<>>,
                                      token |-> "none", payload |-> payload]]
        /\ given' = [given EXCEPT ![s] = @ \cup ({payload} \ {"none"})]
        /\ \/ kind # "inline" /\ UNCHANGED proc
           \/ /\ kind = "inline"
              /\ \E p \in Poster :
                   /\ proc[p].at = "rest"
                   /\ Do(p, [Resting EXCEPT !.at = "synthesize", !.sub = s, !.token = payload])
  OBVIOUS
<1> DEFINE r == [status |-> "received", history |-> <<>>, token |-> "none", payload |-> payload]
<1>2. r \in SubmissionRow
  BY StatusNames DEF SubmissionRow, History
<1>3. /\ row'[s] = r /\ \A q \in Submission : q # s => row'[q] = row[q]
      /\ row' \in [Submission -> SubmissionRow]
  BY <1>0, <1>1, <1>2
<1>4. /\ given' \in [Submission -> SUBSET Token]
      /\ \A q \in Submission : given[q] \subseteq given'[q]
      /\ payload \in given'[s] \cup {"none"}
  BY <1>0, <1>1
<1>5. Grows
  BY <1>3, <1>4 DEF Grows, NoCommit
<1>6. ASSUME NEW q \in Submission PROVE RowInv(q)'
  <2>1. RowInv(q) /\ given[q] \subseteq given'[q] /\ UNCHANGED <<opened, indexed>>
    BY <1>4 DEF IntakeInv, NoCommit
  <2>2. CASE q = s
    <3>1. Walk(<<>>, "received")
      BY DEF Walk
    <3>2. /\ row'[q].status = "received" /\ row'[q].history = <<>>
          /\ row'[q].token = "none" /\ row'[q].payload = payload
      BY <1>3, <2>2
    <3> QED
      BY <1>4, <2>1, <2>2, <3>1, <3>2 DEF RowInv
  <2>3. CASE q # s
    <3>1. row'[q] = row[q]
      BY <1>3, <2>3
    <3> QED
      BY <2>1, <3>1 DEF RowInv
  <2> QED
    BY <2>2, <2>3
<1>7. proc' \in [Process -> Doing] /\ \A q \in Process : DoingInv(q, proc[q])'
  <2>1. CASE UNCHANGED proc
    <3>1. ASSUME NEW q \in Process PROVE DoingInv(q, proc[q])'
      <4>1. PICK e : e = proc[q]
        OBVIOUS
      <4>2. DoingInv(q, e)'
        BY <1>5, <4>1, DoingKept DEF IntakeInv
      <4> QED
        BY <2>1, <4>1, <4>2
    <3> QED
      BY <2>1, <3>1 DEF IntakeInv, TypeOK
  <2>2. ASSUME kind = "inline", NEW p \in Poster,
               Do(p, [Resting EXCEPT !.at = "synthesize", !.sub = s, !.token = payload])
        PROVE  proc' \in [Process -> Doing] /\ \A q \in Process : DoingInv(q, proc[q])'
    <3>1. PICK d : d = [Resting EXCEPT !.at = "synthesize", !.sub = s, !.token = payload]
      OBVIOUS
    <3>2. /\ d \in Doing /\ d.at = "synthesize" /\ d.sub = s /\ d.token = payload
      BY <3>1, RestTypes DEF DoingInv, Doing, Place, Process
    <3>3. payload # "none" /\ payload # "cancel"
      BY <1>1, <2>2, ProcessKinds
    <3>4. ReadInv(p, d)' /\ CommitInv(d)'
      BY <3>2 DEF ReadInv, CommitInv, HeadsFor, Moving
    <3>5. TokenInv(p, d)'
      BY <1>3, <1>4, <3>2, <3>3, ProcessKinds DEF TokenInv, HeadsFor, Moving, AtCommit
    <3>6. DoingInv(p, d)'
      BY <1>3, <3>2, <3>4, <3>5 DEF DoingInv
    <3> QED
      BY <1>5, <2>2, <3>1, <3>6, ProcStep DEF Process
  <2> QED
    BY <1>1, <2>1, <2>2
<1>8. TypeOK'
  BY <1>3, <1>4, <1>7 DEF IntakeInv, TypeOK, NoCommit, Fine
<1> QED
  BY <1>6, <1>7, <1>8 DEF IntakeInv

LEMMA PollStep == ASSUME IntakeInv, NEW p \in Process, Poll(p) PROVE IntakeInv'
<1>0. /\ p \in Worker /\ proc[p].at = "rest" /\ DoingInv(p, proc[p])
      /\ UNCHANGED <<row, opened, indexed, given>> /\ told' \in [Submission -> BOOLEAN]
      /\ Fine \/ Fault
  BY DEF Poll, IntakeInv, NoCommit, NoPeople, TypeOK
<1>1. CASE Do(p, Finished(p)) \/ Do(p, Resting)
  BY <1>0, <1>1, RestTypes, MoveStep
<1>2. ASSUME NEW s \in Submission, row[s].status = Wanted(p),
             Do(p, [proc[p] EXCEPT !.at = "claim", !.sub = s, !.seen = Read(s)])
      PROVE  IntakeInv'
  <2> DEFINE d == [proc[p] EXCEPT !.at = "claim", !.sub = s, !.seen = Read(s)]
  <2>1. row[s] \in SubmissionRow /\ RowInv(s)
    BY DEF IntakeInv, TypeOK
  <2>2. Read(s) \in [status : Status, history : History]
    BY <2>1 DEF Read, SubmissionRow
  <2>3. proc[p] \in Doing /\ proc[p].token = "none" /\ proc[p].arc \in {1, 2}
    BY <1>0 DEF DoingInv, Resting, SecondArc, Doing
  <2>4. /\ d \in Doing /\ d.at = "claim" /\ d.sub = s /\ d.seen = Read(s)
        /\ d.token = "none" /\ d.arc = proc[p].arc
    BY <2>2, <2>3 DEF Doing, Place
  <2> HIDE DEF d
  <2>5. row[s].status # "absent"
    BY <1>2 DEF Wanted
  <2>6. ReadInv(p, d)
    BY <1>0, <1>2, <2>1, <2>4, <2>5 DEF ReadInv, RowInv, Read, Wanted, Moving
  <2>7. TokenInv(p, d) /\ CommitInv(d)
    BY <1>0, <2>4, ProcessKinds DEF TokenInv, CommitInv, HeadsFor, Moving, AtCommit
  <2>8. DoingInv(p, d)
    BY <2>4, <2>5, <2>6, <2>7 DEF DoingInv
  <2> QED
    BY <1>0, <1>2, <2>8, MoveStep DEF d
<1> QED
  BY <1>1, <1>2 DEF Poll

LEMMA SynthesizeStep == ASSUME IntakeInv, NEW p \in Process, Synthesize(p) PROVE IntakeInv'
<1>0. /\ proc[p].at = "synthesize" /\ DoingInv(p, proc[p]) /\ proc[p] \in Doing
      /\ UNCHANGED <<row, opened, indexed, given>> /\ told' \in [Submission -> BOOLEAN]
      /\ Fine \/ Fault
  BY DEF Synthesize, IntakeInv, NoCommit, NoPeople, TypeOK
<1>1. PICK to \in {"synthesized", "synthesizing", "failed"} : Do(p, Toward(p, to))
  BY DEF Synthesize
<1> DEFINE d == Toward(p, to)
<1>2. /\ d \in Doing /\ d.at = "fetch" /\ d.to = to
      /\ d.sub = proc[p].sub /\ d.token = proc[p].token
  BY <1>0, TowardFields, StatusNames
<1> HIDE DEF d
<1>3. ReadInv(p, d) /\ CommitInv(d)
  BY <1>2 DEF ReadInv, CommitInv, HeadsFor, Moving
<1>4. TokenInv(p, d)
  BY <1>0, <1>2 DEF DoingInv, TokenInv, HeadsFor, Moving, AtCommit, BeforeApproval, FromApproval
<1>5. DoingInv(p, d)
  BY <1>0, <1>2, <1>3, <1>4 DEF DoingInv
<1> QED
  BY <1>0, <1>1, <1>5, MoveStep DEF d

LEMMA CrashStep == ASSUME IntakeInv, NEW p \in Process, Crash(p) PROVE IntakeInv'
  BY RestTypes, MoveStep DEF Crash, IntakeInv, NoCommit, NoPeople, TypeOK

LEMMA ClaimStep == ASSUME IntakeInv, NEW p \in Process, Claim(p) PROVE IntakeInv'
<1>s. PICK s \in Submission : s = proc[p].sub
  BY DEF Claim, IntakeInv, DoingInv
<1> DEFINE h == proc[p].seen.history
           to == Claimed(p)
           r == [row[s] EXCEPT !.status = to, !.history = Note(p, to)]
<1>0. /\ proc[p].at = "claim" /\ DoingInv(p, proc[p]) /\ proc[p] \in Doing
      /\ s = proc[p].sub /\ row[s].status # "absent" /\ p \in Worker
      /\ UNCHANGED <<opened, indexed, given>> /\ told' \in [Submission -> BOOLEAN]
      /\ Fine \/ Fault
      /\ ReadInv(p, proc[p]) /\ RowInv(s) /\ row[s] \in SubmissionRow
      /\ row \in [Submission -> SubmissionRow] /\ given[s] \in SUBSET Token
  BY <1>s DEF Claim, IntakeInv, DoingInv, ReadInv, NoCommit, NoPeople, TypeOK
<1>1. p \notin Approver
  BY <1>0, ProcessKinds
<1>2. CASE UNCHANGED row
  <2>1. \/ Do(p, Finished(p)) \/ Do(p, Resting)
        \/ Claimable(p) /\ row' = [row EXCEPT ![s].status = to, ![s].history = Note(p, to)]
    BY <1>0 DEF Claim
  <2>2. CASE Do(p, Finished(p)) \/ Do(p, Resting)
    BY <1>0, <1>2, <2>2, RestTypes, MoveStep
  <2>3. CASE Claimable(p) /\ row' = [row EXCEPT ![s].status = to, ![s].history = Note(p, to)]
    <3>1. row'[s].status = to /\ row[s].status # to
      BY <1>0, <2>3 DEF Claimable, Wanted, Claimed, SubmissionRow
    <3> QED
      BY <1>2, <3>1
  <2> QED
    BY <2>1, <2>2, <2>3
<1> SUFFICES ASSUME row' # row PROVE IntakeInv'
  BY <1>2
<1>3. /\ row' = [row EXCEPT ![s].status = to, ![s].history = Note(p, to)]
      /\ Claimable(p)
  BY <1>0 DEF Claim
<1>4. row' = [row EXCEPT ![s] = r]
  BY <1>0, <1>3
<1>5. /\ h \in History /\ proc[p].seen.status \in Status
      /\ to \in Forward[proc[p].seen.status] \cup {"failed"} /\ to \in {"synthesizing", "writing"}
      /\ Walk(h, proc[p].seen.status)
  BY <1>0 DEF Doing, ReadInv, Claimed, Forward
<1>6. Walk(Note(p, to), to) /\ Note(p, to) \in History
  BY <1>5, WalkAppend DEF Note
<1>7. /\ r \in SubmissionRow /\ r.status = to /\ r.history = Note(p, to)
      /\ r.token = row[s].token /\ r.payload = row[s].payload
  BY <1>0, <1>5, <1>6, StatusNames DEF SubmissionRow
<1> HIDE DEF r, to
<1>8. RowInv(s)'
  <2>1. row'[s] = r
    BY <1>0, <1>4
  <2> QED
    BY <1>0, <1>5, <1>6, <1>7, <2>1 DEF RowInv
<1>9. PICK d : Do(p, d) /\ DoingInv(p, d)
  <2>1. CASE Do(p, Finished(p)) \/ Do(p, Resting)
    BY <2>1, RestTypes
  <2>2. CASE proc[p].arc # 1 /\ Do(p, Committing(p, row[s].token))
    <3>1. row[s].token \in given[s]
      BY <1>0, <1>3, <2>2 DEF Claimable, Wanted, RowInv
    <3> QED
      BY <1>0, <1>1, <2>2, <3>1, CommittingInv
  <2>3. CASE Do(p, [proc[p] EXCEPT !.at = "synthesize", !.seen = Nothing, !.token = row[s].payload])
    <3> DEFINE d == [proc[p] EXCEPT !.at = "synthesize", !.seen = Nothing, !.token = row[s].payload]
    <3>1. Nothing \in [status : Status, history : History]
      BY StatusNames DEF Nothing, History
    <3>2. row[s].payload \in Token \cup {"none"} /\ row[s].payload \in given[s] \cup {"none"}
      BY <1>0 DEF SubmissionRow, RowInv
    <3>3. /\ d \in Doing /\ d.at = "synthesize" /\ d.sub = s /\ d.token = row[s].payload
      BY <1>0, <3>1, <3>2 DEF Doing, Place
    <3> HIDE DEF d
    <3>4. ReadInv(p, d) /\ CommitInv(d)
      BY <3>3 DEF ReadInv, CommitInv, HeadsFor, Moving
    <3>5. row[s].payload # "cancel"
      BY <3>2, ProcessKinds
    <3>6. TokenInv(p, d)
      BY <1>0, <1>1, <3>2, <3>3, <3>5, ProcessKinds
         DEF TokenInv, HeadsFor, Moving, AtCommit
    <3>7. DoingInv(p, d)
      BY <1>0, <3>3, <3>4, <3>6 DEF DoingInv
    <3> QED
      BY <2>3, <3>7 DEF d
  <2> QED
    BY <1>0, <2>1, <2>2, <2>3 DEF Claim
<1> QED
  BY <1>0, <1>4, <1>5, <1>7, <1>8, <1>9, WriteStep

LEMMA DecideStep == ASSUME IntakeInv, NEW p \in Process, Decide(p) PROVE IntakeInv'
<1>0. /\ p \in Approver /\ given \in [Submission -> SUBSET Token]
      /\ UNCHANGED <<row, opened, indexed>> /\ UNCHANGED <<told, faults>>
  BY DEF Decide, IntakeInv, TypeOK, NoCommit, Fine
<1>1. PICK s \in Submission, token \in Token \cup {"cancel"} :
        /\ row[s].status = "awaiting_approval"
        /\ Do(p, [Resting EXCEPT !.at = "fetch", !.sub = s, !.token = token,
                                 !.to = IF token = "cancel" THEN "failed" ELSE "approved"])
        /\ given' = [given EXCEPT ![s] = @ \cup ({token} \ {"cancel"})]
  BY DEF Decide
<1>2. PICK d : d = [Resting EXCEPT !.at = "fetch", !.sub = s, !.token = token,
                                   !.to = IF token = "cancel" THEN "failed" ELSE "approved"]
  OBVIOUS
<1>3. Resting \in Doing
  BY RestTypes DEF DoingInv
<1>4. /\ d \in Doing /\ d.at = "fetch" /\ d.sub = s /\ d.token = token
      /\ d.to = IF token = "cancel" THEN "failed" ELSE "approved"
  BY <1>2, <1>3, StatusNames DEF Doing, Place
<1>5. /\ given' \in [Submission -> SUBSET Token]
      /\ \A q \in Submission : given[q] \subseteq given'[q]
      /\ token \in given'[s] \cup {"cancel"}
  BY <1>0, <1>1
<1>6. Grows /\ \A q \in Submission : RowInv(q)'
  BY <1>0, <1>5, RowsKept
<1>7. ReadInv(p, d)' /\ CommitInv(d)'
  BY <1>4 DEF ReadInv, CommitInv, HeadsFor, Moving
<1>8. TokenInv(p, d)'
  BY <1>0, <1>4, <1>5, ProcessKinds DEF TokenInv, HeadsFor, Moving, AtCommit, FromApproval
<1>9. DoingInv(p, d)'
  BY <1>0, <1>1, <1>4, <1>7, <1>8 DEF DoingInv
<1>10. proc' \in [Process -> Doing] /\ \A q \in Process : DoingInv(q, proc[q])'
  BY <1>1, <1>2, <1>6, <1>9, ProcStep
<1>11. TypeOK'
  BY <1>0, <1>5, <1>10 DEF IntakeInv, TypeOK
<1> QED
  BY <1>6, <1>10, <1>11 DEF IntakeInv

LEMMA AnswerType ==
    ASSUME IntakeInv, NEW p \in Process, Answer(p) \/ UNCHANGED told
    PROVE  told' \in [Submission -> BOOLEAN]
  BY DEF Answer, IntakeInv, TypeOK

LEMMA FetchStep == ASSUME IntakeInv, NEW p \in Process, Fetch(p) PROVE IntakeInv'
<1> DEFINE s == proc[p].sub
<1>0. /\ proc[p].at = "fetch" /\ DoingInv(p, proc[p]) /\ proc[p] \in Doing
      /\ s \in Submission /\ row[s].status # "absent"
      /\ UNCHANGED <<row, opened, indexed, given>>
      /\ Fine \/ Fault
      /\ ReadInv(p, proc[p]) /\ TokenInv(p, proc[p]) /\ CommitInv(proc[p])
      /\ RowInv(s) /\ row[s] \in SubmissionRow /\ TypeOK
  BY DEF Fetch, IntakeInv, DoingInv, NoCommit, TypeOK
<1>1. told' \in [Submission -> BOOLEAN]
  BY AnswerType DEF Fetch
<1>2. CASE Do(p, After(p))
  BY <1>0, <1>1, <1>2, AfterInv, MoveStep DEF Moving
<1>3. CASE Do(p, Failing(p))
  BY <1>0, <1>1, <1>3, FailingInv, MoveStep
<1>4. CASE /\ Allowed(row[s].status, proc[p].to)
           /\ Do(p, [proc[p] EXCEPT !.at = "store", !.seen = Read(s)])
  <2> DEFINE d == [proc[p] EXCEPT !.at = "store", !.seen = Read(s)]
  <2>1. Read(s) \in [status : Status, history : History]
    BY <1>0 DEF Read, SubmissionRow
  <2>2. /\ d \in Doing /\ d.at = "store" /\ d.sub = s /\ d.seen = Read(s)
        /\ d.token = proc[p].token /\ d.to = proc[p].to
    BY <1>0, <2>1 DEF Doing, Place
  <2> HIDE DEF d
  <2>3. ReadInv(p, d)
    BY <1>0, <1>4, <2>2 DEF ReadInv, Moving, Read, RowInv, Allowed
  <2>4. TokenInv(p, d) /\ CommitInv(d)
    BY <1>0, <2>2 DEF TokenInv, CommitInv, HeadsFor, Moving, AtCommit
  <2>5. DoingInv(p, d)
    BY <1>0, <2>2, <2>3, <2>4 DEF DoingInv
  <2> QED
    BY <1>0, <1>1, <1>4, <2>5, MoveStep DEF d
<1> QED
  BY <1>2, <1>3, <1>4 DEF Fetch

LEMMA StoreStep == ASSUME IntakeInv, NEW p \in Process, Store(p) PROVE IntakeInv'
<1>s. PICK s \in Submission : s = proc[p].sub
  BY DEF Store, IntakeInv, DoingInv
<1> DEFINE to == proc[p].to
           r == [row[s] EXCEPT !.status = to, !.history = Note(p, to), !.token = TokenColumn(p)]
<1>0. /\ proc[p].at = "store" /\ DoingInv(p, proc[p]) /\ proc[p] \in Doing
      /\ s = proc[p].sub /\ row[s].status # "absent"
      /\ UNCHANGED <<opened, indexed, given>>
      /\ Fine \/ Fault
      /\ ReadInv(p, proc[p]) /\ TokenInv(p, proc[p]) /\ CommitInv(proc[p])
      /\ RowInv(s) /\ row[s] \in SubmissionRow /\ TypeOK
      /\ given[s] \in SUBSET Token /\ row \in [Submission -> SubmissionRow]
  BY <1>s DEF Store, IntakeInv, DoingInv, NoCommit, TypeOK
<1>1. told' \in [Submission -> BOOLEAN]
  BY AnswerType DEF Store
<1>2. PICK d : Do(p, d) /\ DoingInv(p, d)
  <2>1. CASE Do(p, After(p))
    BY <1>0, <2>1, AfterInv DEF Moving
  <2>2. CASE Do(p, Failing(p))
    BY <1>0, <2>2, FailingInv
  <2>3. CASE UNCHANGED proc
    BY <1>0, <2>3 DEF Do, TypeOK
  <2> QED
    BY <2>1, <2>2, <2>3 DEF Store
<1>3. CASE UNCHANGED row
  BY <1>0, <1>1, <1>2, <1>3, MoveStep
<1>4. CASE row' = [row EXCEPT ![s] =
               [@ EXCEPT !.status = to, !.history = Note(p, to), !.token = TokenColumn(p)]]
  <2>1. /\ proc[p].seen.history \in History /\ proc[p].seen.status \in Status
        /\ to \in Forward[proc[p].seen.status] \cup {"failed"} /\ to \in Status \ {"absent"}
        /\ Walk(proc[p].seen.history, proc[p].seen.status)
    BY <1>0 DEF Doing, ReadInv, Moving
  <2>2. Walk(Note(p, to), to) /\ Note(p, to) \in History
    BY <2>1, WalkAppend DEF Note
  <2>3. /\ to \in FromApproval => proc[p].token \in given[s]
        /\ to = "complete" => /\ proc[p].token \in ApproveCrm => opened[s]
                              /\ proc[p].token \in ApproveSupabase => indexed[s] > 0
    BY <1>0 DEF TokenInv, CommitInv, HeadsFor, Moving
  <2>4. /\ TokenColumn(p) \in given[s] \cup {"none"}
        /\ to = "approved" => TokenColumn(p) \in given[s]
    BY <1>0, <2>3 DEF TokenColumn, RowInv, FromApproval
  <2>5. /\ r \in SubmissionRow /\ r.status = to /\ r.history = Note(p, to)
        /\ r.token = TokenColumn(p) /\ r.payload = row[s].payload
    BY <1>0, <2>1, <2>2, <2>4 DEF SubmissionRow
  <2>6. row' = [row EXCEPT ![s] = r]
    BY <1>0, <1>4
  <2> HIDE DEF r, to
  <2>7. RowInv(s)'
    <3>1. row'[s] = r
      BY <1>0, <2>6
    <3> QED
      BY <1>0, <2>2, <2>3, <2>4, <2>5, <3>1 DEF RowInv, FromApproval
  <2> QED
    BY <1>0, <1>1, <1>2, <2>1, <2>5, <2>6, <2>7, WriteStep
<1> QED
  BY <1>0, <1>3, <1>4 DEF Store

LEMMA CommitFacts ==
    ASSUME IntakeInv, NEW p \in Process, proc[p].at \in AtCommit
    PROVE  /\ DoingInv(p, proc[p]) /\ proc[p] \in Doing /\ p \notin Approver
           /\ proc[p].sub \in Submission /\ row[proc[p].sub].status # "absent"
           /\ proc[p].token \in given[proc[p].sub] /\ given[proc[p].sub] \in SUBSET Token
           /\ proc[p].at # "index" => proc[p].token \in ApproveCrm
           /\ proc[p].at = "index" => /\ proc[p].token \in ApproveSupabase
                                      /\ proc[p].token \in ApproveCrm => opened[proc[p].sub]
<1>1. DoingInv(p, proc[p]) /\ proc[p].at # "rest"
  BY DEF IntakeInv, AtCommit
<1>2. /\ proc[p] \in Doing /\ proc[p].sub \in Submission /\ row[proc[p].sub].status # "absent"
      /\ TokenInv(p, proc[p]) /\ CommitInv(proc[p])
  BY <1>1 DEF DoingInv
<1> QED
  BY <1>1, <1>2 DEF TokenInv, CommitInv, AtCommit, Moving, IntakeInv, TypeOK

LEMMA LookUpStep == ASSUME IntakeInv, NEW p \in Process, LookUp(p) PROVE IntakeInv'
<1> DEFINE s == proc[p].sub
<1>0. /\ proc[p].at = "lookup" /\ proc[p].at \in AtCommit /\ proc[p].at # "rest"
      /\ UNCHANGED <<row, opened, indexed, given>> /\ told' \in [Submission -> BOOLEAN]
      /\ Fine \/ Fault
  BY DEF LookUp, AtCommit, IntakeInv, NoCommit, NoPeople, TypeOK
<1>1. CASE Do(p, Failing(p))
  BY <1>0, <1>1, CommitFacts, FailingInv, MoveStep
<1>2. CASE opened[s] /\ Do(p, Toward(p, "written"))
  <2> DEFINE d == Toward(p, "written")
  <2>1. /\ d \in Doing /\ d.at = "fetch" /\ d.to = "written"
        /\ d.sub = s /\ d.token = proc[p].token
    BY <1>0, CommitFacts, TowardFields, StatusNames
  <2> HIDE DEF d
  <2>2. DoingInv(p, d)
    BY <1>0, <1>2, <2>1, CommitFacts, ProcessKinds DEF DoingInv, ReadInv, TokenInv, CommitInv,
                                 HeadsFor, Moving, AtCommit, BeforeApproval
  <2> QED
    BY <1>0, <1>2, <2>2, MoveStep DEF d
<1>3. CASE Do(p, [proc[p] EXCEPT !.at = "open"])
  <2> DEFINE d == [proc[p] EXCEPT !.at = "open"]
  <2>1. /\ d \in Doing /\ d.at = "open" /\ d.sub = s /\ d.token = proc[p].token
    BY <1>0, CommitFacts DEF Doing, Place
  <2> HIDE DEF d
  <2>2. DoingInv(p, d)
    BY <1>0, <2>1, CommitFacts, ProcessKinds DEF DoingInv, ReadInv, TokenInv, CommitInv,
                                 HeadsFor, Moving, AtCommit
  <2> QED
    BY <1>0, <1>3, <2>2, MoveStep DEF d
<1> QED
  BY <1>1, <1>2, <1>3 DEF LookUp

LEMMA OpenStep == ASSUME IntakeInv, NEW p \in Process, Open(p) PROVE IntakeInv'
<1> DEFINE s == proc[p].sub
<1>0. /\ proc[p].at = "open" /\ proc[p].at \in AtCommit /\ proc[p].at # "rest"
      /\ UNCHANGED <<row, given, told, indexed>> /\ told' \in [Submission -> BOOLEAN]
      /\ (Fine \/ Fault) /\ opened \in [Submission -> BOOLEAN]
  BY DEF Open, AtCommit, IntakeInv, NoPeople, TypeOK
<1>1. given[s] \cap ApproveCrm # {}
  BY <1>0, CommitFacts
<1>2. CASE UNCHANGED opened /\ Do(p, Failing(p))
  BY <1>0, <1>2, CommitFacts, FailingInv, MoveStep
<1>3. CASE opened' = [opened EXCEPT ![s] = TRUE] /\ Do(p, Failing(p))
  <2>1. Grows
    BY <1>0, <1>3, CommitFacts DEF Grows
  <2>2. PICK d : d = Failing(p) /\ DoingInv(p, d)
    BY <1>0, CommitFacts, FailingInv
  <2>3. DoingInv(p, d)'
    BY <2>1, <2>2, DoingKept
  <2> QED
    BY <1>0, <1>1, <1>3, <2>2, <2>3, CommitFacts, CommitStep
<1>4. CASE opened' = [opened EXCEPT ![s] = TRUE] /\ Do(p, Toward(p, "written"))
  <2>1. PICK d : d = Toward(p, "written")
    OBVIOUS
  <2>2. /\ d \in Doing /\ d.at = "fetch" /\ d.to = "written"
        /\ d.sub = s /\ d.token = proc[p].token
    BY <1>0, <2>1, CommitFacts, TowardFields, StatusNames
  <2>3. opened'[s]
    BY <1>0, <1>4, CommitFacts
  <2>4. DoingInv(p, d)'
    BY <1>0, <2>2, <2>3, CommitFacts, ProcessKinds DEF DoingInv, ReadInv, TokenInv, CommitInv,
                                 HeadsFor, Moving, AtCommit, BeforeApproval
  <2> QED
    BY <1>0, <1>1, <1>4, <2>1, <2>4, CommitFacts, CommitStep
<1> QED
  BY <1>2, <1>3, <1>4 DEF Open

LEMMA IndexStep == ASSUME IntakeInv, NEW p \in Process, Index(p) PROVE IntakeInv'
<1> DEFINE s == proc[p].sub
<1>0. /\ proc[p].at = "index" /\ proc[p].at \in AtCommit /\ proc[p].at # "rest"
      /\ UNCHANGED <<row, given, told, opened>> /\ told' \in [Submission -> BOOLEAN]
      /\ (Fine \/ Fault) /\ indexed \in [Submission -> Nat]
  BY DEF Index, AtCommit, IntakeInv, NoPeople, TypeOK
<1>1. given[s] \cap ApproveSupabase # {}
  BY <1>0, CommitFacts
<1>2. CASE UNCHANGED indexed /\ Do(p, Failing(p))
  BY <1>0, <1>2, CommitFacts, FailingInv, MoveStep
<1> SUFFICES ASSUME indexed' = [indexed EXCEPT ![s] = @ + 1] PROVE IntakeInv'
  BY <1>2 DEF Index
<1>3. indexed'[s] = indexed[s] + 1 /\ indexed[s] \in Nat
      /\ \A q \in Submission : q # s => indexed'[q] = indexed[q]
  BY <1>0, CommitFacts
<1>4. CASE Do(p, Failing(p))
  <2>1. Grows
    BY <1>0, <1>3 DEF Grows
  <2>2. PICK d : d = Failing(p) /\ DoingInv(p, d)
    BY <1>0, CommitFacts, FailingInv
  <2>3. DoingInv(p, d)'
    BY <2>1, <2>2, DoingKept
  <2> QED
    BY <1>0, <1>1, <1>4, <2>2, <2>3, CommitFacts, CommitStep
<1>5. CASE Do(p, Toward(p, "complete"))
  <2>1. PICK d : d = Toward(p, "complete")
    OBVIOUS
  <2>2. /\ d \in Doing /\ d.at = "fetch" /\ d.to = "complete"
        /\ d.sub = s /\ d.token = proc[p].token
    BY <1>0, <2>1, CommitFacts, TowardFields, StatusNames
  <2>3. indexed'[s] > 0
    BY <1>3
  <2>4. DoingInv(p, d)'
    BY <1>0, <2>2, <2>3, CommitFacts, ProcessKinds DEF DoingInv, ReadInv, TokenInv, CommitInv,
                                 HeadsFor, Moving, AtCommit, BeforeApproval
  <2> QED
    BY <1>0, <1>1, <1>5, <2>1, <2>4, CommitFacts, CommitStep
<1> QED
  BY <1>2, <1>4, <1>5 DEF Index

-----------------------------------------------------------------------------
LEMMA IntakeInit == Init => IntakeInv
<1> SUFFICES ASSUME Init PROVE IntakeInv
  OBVIOUS
<1>1. Absent \in SubmissionRow
  BY StatusNames DEF Absent, SubmissionRow, History
<1>2. Resting \in Doing
  BY RestTypes, StatusNames DEF Resting, Nothing, Doing, Place, History
<1>3. TypeOK
  BY <1>1, <1>2, IntakeAssumption DEF Init, TypeOK
<1>4. \A s \in Submission : RowInv(s)
  BY DEF Init, RowInv, Absent
<1>5. \A p \in Process : DoingInv(p, proc[p])
  BY RestTypes DEF Init
<1> QED
  BY <1>3, <1>4, <1>5 DEF IntakeInv

LEMMA IntakeStep == IntakeInv /\ [Next]_vars => IntakeInv'
<1> SUFFICES ASSUME IntakeInv, [Next]_vars PROVE IntakeInv'
  OBVIOUS
<1>1. CASE UNCHANGED vars
  <2>1. TypeOK'
    BY <1>1 DEF vars, IntakeInv, TypeOK
  <2>2. \A s \in Submission : RowInv(s)'
    BY <1>1 DEF vars, IntakeInv, RowInv
  <2>3. \A p \in Process : DoingInv(p, proc[p])'
    BY <1>1 DEF vars, IntakeInv, DoingInv, ReadInv, TokenInv, CommitInv
  <2> QED
    BY <2>1, <2>2, <2>3 DEF IntakeInv
<1>2. CASE Next
  BY <1>2, SubmitStep, PollStep, ClaimStep, SynthesizeStep, DecideStep, FetchStep, StoreStep,
     LookUpStep, OpenStep, IndexStep, CrashStep DEF Next, Step
<1> QED
  BY <1>1, <1>2

LEMMA IntakeInvariant == Spec => []IntakeInv
  BY IntakeInit, IntakeStep, PTL DEF Spec

\* Every reachable state has its type (TypeOK); in particular no row ever holds
\* the token of a cancel.
THEOREM IntakeTypeCorrect == Spec => []TypeOK
<1>1. IntakeInv => TypeOK
  BY DEF IntakeInv
<1> QED
  BY <1>1, IntakeInvariant, PTL

\* Every status_history is a walk along _FORWARD that ends in the status,
\* although transition() writes unguarded what it read before (AuditTrail).
THEOREM IntakeAuditTrail == Spec => []AuditTrail
<1>1. IntakeInv => AuditTrail
  BY DEF IntakeInv, RowInv, AuditTrail
<1> QED
  BY <1>1, IntakeInvariant, PTL

\* Nothing is committed beyond the tokens that were given (ScopeRespected).
THEOREM IntakeScopeRespected == Spec => []ScopeRespected
<1>1. IntakeInv => ScopeRespected
  BY DEF IntakeInv, RowInv, ScopeRespected
<1> QED
  BY <1>1, IntakeInvariant, PTL

\* A complete submission was committed in the scope of a token it was given
\* (CompleteMeansCommitted).
THEOREM IntakeCompleteCommitted == Spec => []CompleteMeansCommitted
<1>1. IntakeInv => CompleteMeansCommitted
  BY DEF IntakeInv, RowInv, CompleteMeansCommitted
<1> QED
  BY <1>1, IntakeInvariant, PTL

\* Types, the trail and the scope together (SubmissionSafe).
THEOREM IntakeSubmissionSafe == Spec => []SubmissionSafe
  BY IntakeTypeCorrect, IntakeAuditTrail, IntakeScopeRespected, PTL DEF SubmissionSafe

-----------------------------------------------------------------------------
(***************************************************************************)
(* That a submission is committed once.  What a process is to a submission *)
(* is a role: the worker of the first arc, which drives the row or is on   *)
(* its way to failed; the worker of the second arc, which commits; the     *)
(* person that answers.  A role is taken by a guarded step and then only   *)
(* given up, and the status tells which of them can still be held.         *)
(***************************************************************************)
First(p, d) == p \in Worker /\ d.arc = 1 /\ d.at \in Moving \cup {"synthesize"}
Drives(p, d) == First(p, d) /\ (d.at = "synthesize" \/ d.to # "failed")
Second(p, d) == p \in Worker /\ d.arc = 2 /\ d.at \in Moving \cup AtCommit
Answers(p, d) == p \in Approver /\ d.at # "rest"

\* The second arc before its retrieval rows.
Unindexed(d) == d.at \in AtCommit \/ d.to = "written"

\* What the row of a driving worker says.
Driven(d) ==
    IF d.at = "synthesize" THEN {"synthesizing"}
    ELSE {from \in {"synthesizing", "synthesized", "drafting", "awaiting_approval"} :
             Following[from] = d.to}

Late == {"writing", "written", "complete", "failed"}

ArcInv(p, d) ==
    /\ First(p, d) /\ d.at \in Moving =>
          d.to \in {"synthesized", "drafting", "awaiting_approval", "approved", "failed"}
    /\ Second(p, d) /\ d.at \in Moving => d.to \in {"written", "complete", "failed"}
    /\ p \in Worker => (d.at = "synthesize" => d.arc = 1) /\ (d.at \in AtCommit => d.arc = 2)

RoleInv(p, d) ==
    /\ ArcInv(p, d)
    /\ First(p, d) => row[d.sub].status \notin {"absent", "received"}
    /\ Drives(p, d) => row[d.sub].status \in Driven(d)
    /\ Drives(p, d) /\ d.at # "synthesize" /\ d.to = "approved" => row[d.sub].payload # "none"
    /\ Second(p, d) => row[d.sub].status \in Late
    /\ Second(p, d) /\ Unindexed(d) => indexed[d.sub] = 0
    /\ Answers(p, d) => row[d.sub].status \in {"awaiting_approval", "failed"} /\ indexed[d.sub] = 0

\* Two processes in roles that exclude each other are about different submissions.
Apart(p, d, q, e) ==
    d.sub = e.sub =>
        /\ ~(First(p, d) /\ First(q, e))
        /\ ~(Second(p, d) /\ Second(q, e))
        /\ ~(Answers(p, d) /\ Second(q, e)) /\ ~(Second(p, d) /\ Answers(q, e))

RowOnce(s) ==
    /\ Approver # {} => row[s].payload = "none"
    /\ row[s].status \notin Late => indexed[s] = 0
    /\ indexed[s] <= 1

OnceInv ==
    Exclusive =>
        /\ \A s \in Submission : RowOnce(s)
        /\ \A p \in Process : RoleInv(p, proc[p])
        /\ \A p, q \in Process : p # q => Apart(p, proc[p], q, proc[q])

\* In no role at all.
Idle(p, d) ==
    /\ ~First(p, d) /\ ~Second(p, d) /\ ~Answers(p, d)
    /\ d.at \notin AtCommit \cup {"synthesize"}

LEMMA ExclusiveKinds ==
    ASSUME Exclusive
    PROVE  /\ \A p \in Process : p \in Worker \/ p \in Approver
           /\ \A p \in Approver : p \notin Worker
           /\ \A p, q \in Approver : p = q
  BY ProcessKinds DEF Exclusive, Process

LEMMA IdleRoles ==
    ASSUME NEW p, NEW d, Idle(p, d)
    PROVE  RoleInv(p, d) /\ RoleInv(p, d)' /\ \A q, e : Apart(p, d, q, e)
  BY DEF Idle, RoleInv, ArcInv, Drives, Apart

LEMMA RestIdle ==
    ASSUME NEW p \in Process PROVE Idle(p, Resting) /\ Idle(p, Finished(p))
  BY DEF Idle, First, Second, Answers, Finished, Resting, SecondArc, Moving, AtCommit

LEMMA ApartSwaps ==
    ASSUME NEW p, NEW d, NEW q, NEW e, Apart(p, d, q, e) PROVE Apart(q, e, p, d)
  BY DEF Apart

\* Whoever gives up a role stays apart from the others.
LEMMA ApartKept ==
    ASSUME NEW p, NEW d, NEW f, NEW q, NEW e, Apart(p, d, q, e), f.sub = d.sub,
           First(p, f) => First(p, d), Second(p, f) => Second(p, d), Answers(p, f) => Answers(p, d)
    PROVE  Apart(p, f, q, e)
  BY DEF Apart

\* A role does not notice what happens to other submissions.
LEMMA RoleKept ==
    ASSUME NEW p, NEW d, RoleInv(p, d),
           row'[d.sub].status = row[d.sub].status, row'[d.sub].payload = row[d.sub].payload,
           indexed'[d.sub] = indexed[d.sub]
    PROVE  RoleInv(p, d)'
  BY DEF RoleInv, ArcInv

\* The role that is held while somebody else changes the status.
LEMMA RoleAround ==
    ASSUME NEW p, NEW d, RoleInv(p, d), indexed'[d.sub] = indexed[d.sub], ~Drives(p, d),
           row'[d.sub].status \notin {"absent", "received"},
           Second(p, d) => row'[d.sub].status \in Late,
           Answers(p, d) => row'[d.sub].status \in {"awaiting_approval", "failed"}
    PROVE  RoleInv(p, d)'
  BY DEF RoleInv, ArcInv

\* One process goes on to d, the roles of the others hold on.
LEMMA OnceStep ==
    ASSUME IntakeInv, OnceInv, Exclusive, NEW p \in Process, NEW d, Do(p, d),
           \A s \in Submission : RowOnce(s)', RoleInv(p, d)',
           \A q \in Process : q # p => \A e : e = proc[q] => RoleInv(q, e)' /\ Apart(p, d, q, e)
    PROVE  OnceInv'
<1>1. proc \in [Process -> Doing]
  BY DEF IntakeInv, TypeOK
<1>2. proc'[p] = d /\ \A q \in Process : q # p => proc'[q] = proc[q]
  BY <1>1 DEF Do
<1>3. ASSUME NEW q \in Process PROVE RoleInv(q, proc[q])'
  <2>1. PICK e : e = proc'[q]
    OBVIOUS
  <2>2. RoleInv(q, e)'
    BY <1>2, <2>1
  <2> QED
    BY <2>1, <2>2
<1>4. ASSUME NEW q \in Process, NEW r \in Process, q # r
      PROVE  Apart(q, proc'[q], r, proc'[r])
  <2>1. CASE q = p
    BY <1>2, <1>4, <2>1
  <2>2. CASE r = p
    BY <1>2, <1>4, <2>2, ApartSwaps
  <2>3. CASE q # p /\ r # p
    BY <1>2, <1>4, <2>3 DEF OnceInv
  <2> QED
    BY <2>1, <2>2, <2>3
<1>5. \A q, r \in Process : q # r => Apart(q, proc[q], r, proc[r])'
  BY <1>4
<1> QED
  BY <1>3, <1>5 DEF OnceInv

\* ... when the rows stay as they are,
LEMMA OnceMove ==
    ASSUME IntakeInv, OnceInv, Exclusive, UNCHANGED <<row, indexed>>,
           NEW p \in Process, NEW d, Do(p, d), RoleInv(p, d),
           \A q \in Process : q # p => Apart(p, d, q, proc[q])
    PROVE  OnceInv'
<1>1. \A s \in Submission : RowOnce(s)'
  BY DEF OnceInv, RowOnce
<1>2. RoleInv(p, d)'
  BY RoleKept
<1>3. ASSUME NEW q \in Process, q # p, NEW e, e = proc[q] PROVE RoleInv(q, e)' /\ Apart(p, d, q, e)
  <2>1. RoleInv(q, e)
    BY <1>3 DEF OnceInv
  <2> QED
    BY <1>3, <2>1, RoleKept
<1> QED
  BY <1>1, <1>2, <1>3, OnceStep

\* ... when it gives up its role or keeps it,
LEMMA OnceGoesOn ==
    ASSUME IntakeInv, OnceInv, Exclusive, UNCHANGED <<row, indexed>>,
           NEW p \in Process, NEW d, Do(p, d), RoleInv(p, d),
           Idle(p, d) \/ (/\ d.sub = proc[p].sub
                          /\ First(p, d) => First(p, proc[p])
                          /\ Second(p, d) => Second(p, proc[p])
                          /\ Answers(p, d) => Answers(p, proc[p]))
    PROVE  OnceInv'
<1>1. \A q \in Process : q # p => Apart(p, d, q, proc[q])
  <2>1. CASE Idle(p, d)
    BY <2>1, IdleRoles
  <2>2. CASE /\ d.sub = proc[p].sub
             /\ First(p, d) => First(p, proc[p])
             /\ Second(p, d) => Second(p, proc[p])
             /\ Answers(p, d) => Answers(p, proc[p])
    BY <2>2, ApartKept DEF OnceInv
  <2> QED
    BY <2>1, <2>2
<1> QED
  BY <1>1, OnceMove

\* ... and when it changes the status of its submission, at which nobody else drives.
LEMMA OnceWrite ==
    ASSUME IntakeInv, OnceInv, Exclusive, UNCHANGED indexed, NEW s \in Submission, NEW to,
           row'[s].status = to, row'[s].payload = row[s].payload,
           \A t \in Submission : t # s => row'[t] = row[t],
           to \notin {"absent", "received"}, to \notin Late => indexed[s] = 0,
           NEW p \in Process, NEW d, Do(p, d), RoleInv(p, d)',
           \A q \in Process : q # p => Apart(p, d, q, proc[q]),
           \A q \in Process : q # p /\ proc[q].sub = s =>
               /\ ~Drives(q, proc[q])
               /\ Second(q, proc[q]) => to \in Late
               /\ Answers(q, proc[q]) => to \in {"awaiting_approval", "failed"}
    PROVE  OnceInv'
<1>2. ASSUME NEW t \in Submission PROVE RowOnce(t)'
  <2>1. RowOnce(t)
    BY DEF OnceInv
  <2>2. CASE t = s
    BY <2>1, <2>2 DEF RowOnce
  <2>3. CASE t # s
    BY <2>1, <2>3 DEF RowOnce
  <2> QED
    BY <2>2, <2>3
<1>3. ASSUME NEW q \in Process, q # p, NEW e, e = proc[q] PROVE RoleInv(q, e)' /\ Apart(p, d, q, e)
  <2>1. RoleInv(q, e) /\ DoingInv(q, e)
    BY <1>3 DEF OnceInv, IntakeInv
  <2>2. CASE e.at = "rest"
    <3>1. Idle(q, e)
      BY <1>3, <2>1, <2>2 DEF DoingInv, Idle, First, Second, Answers, Moving, AtCommit
    <3> QED
      BY <1>3, <3>1, IdleRoles
  <2>3. CASE e.at # "rest" /\ e.sub = s
    <3>1. row'[e.sub].status = to
      BY <2>3
    <3> QED
      BY <1>3, <2>1, <2>3, <3>1, RoleAround
  <2>4. CASE e.at # "rest" /\ e.sub # s
    <3>1. e.sub \in Submission
      BY <2>1, <2>4 DEF DoingInv
    <3>2. row'[e.sub] = row[e.sub]
      BY <2>4, <3>1
    <3> QED
      BY <1>3, <2>1, <3>2, RoleKept
  <2> QED
    BY <2>2, <2>3, <2>4
<1> QED
  BY <1>2, <1>3, OnceStep

-----------------------------------------------------------------------------
\* What follows a transition that fails.
LEMMA FailingRole ==
    ASSUME NEW p \in Process, proc[p] \in Doing, RoleInv(p, proc[p]), proc[p].at # "rest", Exclusive,
           p \in Worker => First(p, proc[p]) \/ Second(p, proc[p]), NEW f, f = Failing(p)
    PROVE  \/ Idle(p, f)
           \/ /\ f.sub = proc[p].sub /\ f.at = "fetch" /\ f.to = "failed"
              /\ \/ First(p, f) /\ First(p, proc[p])
                 \/ Second(p, f) /\ Second(p, proc[p])
              /\ ~Drives(p, f) /\ ~Unindexed(f) /\ ~Answers(p, f)
              /\ First(p, f) => First(p, proc[p])
              /\ Second(p, f) => Second(p, proc[p])
<1>1. CASE p \in Approver \/ proc[p].to = "failed"
  BY <1>1, RestIdle DEF Failing
<1>2. CASE ~(p \in Approver \/ proc[p].to = "failed")
  <2>1. p \in Worker
    BY <1>2, ExclusiveKinds
  <2>2. "failed" \in Status
    BY StatusNames
  <2>3. f = Toward(p, "failed")
    BY <1>2 DEF Failing
  <2>4. f \in Doing /\ f.at = "fetch" /\ f.to = "failed" /\ f.sub = proc[p].sub
    BY <2>2, <2>3, TowardFields
  <2>5. f.arc = proc[p].arc
    BY <2>3 DEF Toward, Doing
  <2> QED
    BY <1>2, <2>1, <2>4, <2>5 DEF First, Second, Drives, Unindexed, Answers, Moving, AtCommit
<1> QED
  BY <1>1, <1>2

LEMMA FailingRoleInv ==
    ASSUME NEW p \in Process, IntakeInv, OnceInv, Exclusive, proc[p].at # "rest",
           p \in Worker => First(p, proc[p]) \/ Second(p, proc[p])
    PROVE  /\ RoleInv(p, Failing(p))
           /\ \/ Idle(p, Failing(p))
              \/ /\ Failing(p).sub = proc[p].sub /\ ~Answers(p, Failing(p))
                 /\ First(p, Failing(p)) => First(p, proc[p])
                 /\ Second(p, Failing(p)) => Second(p, proc[p])
<1>1. proc[p] \in Doing /\ RoleInv(p, proc[p])
  BY DEF IntakeInv, TypeOK, OnceInv
<1>2. PICK f : f = Failing(p)
  OBVIOUS
<1>3. CASE Idle(p, f)
  BY <1>2, <1>3, IdleRoles
<1>4. CASE /\ f.sub = proc[p].sub /\ f.at = "fetch" /\ f.to = "failed"
           /\ \/ First(p, f) /\ First(p, proc[p])
              \/ Second(p, f) /\ Second(p, proc[p])
           /\ ~Drives(p, f) /\ ~Unindexed(f) /\ ~Answers(p, f)
           /\ First(p, f) => First(p, proc[p])
           /\ Second(p, f) => Second(p, proc[p])
  <2>1. ArcInv(p, f)
    BY <1>4 DEF ArcInv, AtCommit
  <2>2. RoleInv(p, f)
    BY <1>1, <1>4, <2>1 DEF RoleInv
  <2> QED
    BY <1>2, <1>4, <2>2
<1> QED
  BY <1>1, <1>2, <1>3, <1>4, FailingRole

\* What follows a transition that is done.
LEMMA AfterRole ==
    ASSUME NEW p \in Process, IntakeInv, OnceInv, Exclusive, proc[p].at \in Moving,
           NEW f, f = After(p)
    PROVE  \/ Idle(p, f)
           \/ /\ f.sub = proc[p].sub /\ f.at = "fetch" /\ f.to = Following[proc[p].to]
              /\ Drives(p, proc[p]) /\ Drives(p, f) /\ ~Second(p, f) /\ ~Answers(p, f)
              /\ proc[p].to \in {"synthesized", "drafting", "awaiting_approval"}
              /\ f.to = "approved" => row[f.sub].payload # "none"
           \/ /\ f.at = "index" \/ (f.at = "fetch" /\ f.to = "complete")
              /\ f.sub = proc[p].sub
              /\ Second(p, proc[p]) /\ Second(p, f) /\ ~First(p, f) /\ ~Answers(p, f)
              /\ proc[p].to = "written"
<1>0. proc[p] \in Doing /\ RoleInv(p, proc[p])
  BY DEF IntakeInv, TypeOK, OnceInv
<1>1. CASE Stops(p) \/ proc[p].to \in {"complete", "failed"}
  <2>1. f = Finished(p)
    BY <1>1 DEF After, Following
  <2> QED
    BY <2>1, RestIdle
<1> SUFFICES ASSUME ~Stops(p), proc[p].to \notin {"complete", "failed"}
             PROVE  \/ /\ f.sub = proc[p].sub /\ f.at = "fetch" /\ f.to = Following[proc[p].to]
                       /\ Drives(p, proc[p]) /\ Drives(p, f) /\ ~Second(p, f) /\ ~Answers(p, f)
                       /\ proc[p].to \in {"synthesized", "drafting", "awaiting_approval"}
                       /\ f.to = "approved" => row[f.sub].payload # "none"
                    \/ /\ f.at = "index" \/ (f.at = "fetch" /\ f.to = "complete")
                       /\ f.sub = proc[p].sub
                       /\ Second(p, proc[p]) /\ Second(p, f) /\ ~First(p, f) /\ ~Answers(p, f)
                       /\ proc[p].to = "written"
  BY <1>1
<1>2. p \in Worker /\ p \notin Approver
  BY ExclusiveKinds DEF Stops
<1>3. CASE proc[p].arc = 1
  <2>1. First(p, proc[p]) /\ proc[p].to \in {"synthesized", "drafting", "awaiting_approval", "approved"}
    BY <1>0, <1>2, <1>3 DEF First, RoleInv, ArcInv
  <2>2. proc[p].to # "approved" /\ (proc[p].to = "awaiting_approval" => row[proc[p].sub].payload # "none")
    BY <1>2 DEF Stops
  <2> DEFINE to == Following[proc[p].to]
  <2>3. /\ to \in {"drafting", "awaiting_approval", "approved"} /\ to \in Status
        /\ to = "approved" => proc[p].to = "awaiting_approval"
    BY <2>1, <2>2, StatusNames DEF Following
  <2>4. f = Toward(p, to)
    BY <2>1, <2>2 DEF After, Following
  <2>5. f \in Doing /\ f.at = "fetch" /\ f.to = to /\ f.sub = proc[p].sub
    BY <1>0, <2>3, <2>4, TowardFields
  <2>6. f.arc = 1
    BY <1>0, <1>3, <2>4 DEF Toward, Doing
  <2> HIDE DEF to
  <2>7. Drives(p, proc[p]) /\ Drives(p, f) /\ ~Second(p, f) /\ ~Answers(p, f)
    BY <1>2, <2>1, <2>3, <2>5, <2>6 DEF Drives, First, Second, Answers, Moving
  <2> QED
    BY <2>1, <2>2, <2>3, <2>5, <2>7 DEF to
<1>4. CASE proc[p].arc = 2
  <2>1. Second(p, proc[p]) /\ proc[p].to = "written"
    BY <1>0, <1>2, <1>4 DEF Second, RoleInv, ArcInv
  <2>2. f = IF proc[p].token \in ApproveSupabase THEN [proc[p] EXCEPT !.at = "index"]
            ELSE Toward(p, "complete")
    BY <2>1 DEF After, Following
  <2>3. "complete" \in Status
    BY StatusNames
  <2>4. CASE f = Toward(p, "complete")
    <3>1. f.at = "fetch" /\ f.to = "complete" /\ f.sub = proc[p].sub
      BY <1>0, <2>3, <2>4, TowardFields
    <3>2. f.arc = 2
      BY <1>0, <1>4, <2>4 DEF Toward, Doing
    <3> QED
      BY <1>2, <2>1, <3>1, <3>2 DEF First, Second, Answers, Moving
  <2>5. CASE f = [proc[p] EXCEPT !.at = "index"]
    <3>1. f.at = "index" /\ f.sub = proc[p].sub /\ f.arc = 2
      BY <1>0, <1>4, <2>5 DEF Doing
    <3> QED
      BY <1>2, <2>1, <3>1 DEF First, Second, Answers, AtCommit
  <2> QED
    BY <2>2, <2>4, <2>5
<1> QED
  BY <1>0, <1>3, <1>4 DEF Doing

-----------------------------------------------------------------------------
\* A process that is at work on a submission.
LEMMA AtWork ==
    ASSUME NEW p \in Process, IntakeInv, OnceInv, Exclusive, proc[p].at \notin {"rest", "claim"}
    PROVE  /\ proc[p] \in Doing /\ RoleInv(p, proc[p]) /\ DoingInv(p, proc[p])
           /\ proc[p].sub \in Submission /\ RowOnce(proc[p].sub) /\ proc[p].arc \in {1, 2}
           /\ p \in Worker => First(p, proc[p]) \/ Second(p, proc[p])
           /\ p \in Approver => Answers(p, proc[p]) /\ ~First(p, proc[p]) /\ ~Second(p, proc[p])
<1>1. proc[p] \in Doing /\ RoleInv(p, proc[p]) /\ DoingInv(p, proc[p])
  BY DEF IntakeInv, TypeOK, OnceInv
<1>2. proc[p].sub \in Submission /\ proc[p].arc \in {1, 2}
  BY <1>1 DEF DoingInv, Doing
<1>3. proc[p].at \in Moving \cup AtCommit \cup {"synthesize"}
  BY <1>1 DEF Doing, Place, Moving, AtCommit
<1>4. p \in Worker => First(p, proc[p]) \/ Second(p, proc[p])
  BY <1>1, <1>2, <1>3 DEF First, Second, RoleInv, ArcInv
<1>5. p \in Approver => Answers(p, proc[p]) /\ ~First(p, proc[p]) /\ ~Second(p, proc[p])
  BY ExclusiveKinds DEF Answers, First, Second
<1> QED
  BY <1>1, <1>2, <1>4, <1>5 DEF OnceInv

LEMMA OnceRest ==
    ASSUME IntakeInv, OnceInv, Exclusive, UNCHANGED <<row, indexed>>, NEW p \in Process,
           Do(p, Resting) \/ Do(p, Finished(p))
    PROVE  OnceInv'
  BY RestIdle, IdleRoles, OnceGoesOn

LEMMA OnceFails ==
    ASSUME IntakeInv, OnceInv, Exclusive, UNCHANGED <<row, indexed>>, NEW p \in Process,
           proc[p].at \notin {"rest", "claim"}, Do(p, Failing(p))
    PROVE  OnceInv'
<1>1. /\ RoleInv(p, Failing(p))
      /\ \/ Idle(p, Failing(p))
         \/ /\ Failing(p).sub = proc[p].sub /\ ~Answers(p, Failing(p))
            /\ First(p, Failing(p)) => First(p, proc[p])
            /\ Second(p, Failing(p)) => Second(p, proc[p])
  BY AtWork, FailingRoleInv
<1> QED
  BY <1>1, OnceGoesOn

LEMMA OnceSubmit == ASSUME IntakeInv, OnceInv, Exclusive, NEW s \in Submission, Submit(s) PROVE OnceInv'
<1> PayloadToken \subseteq Token
  BY IntakeAssumption
<1>1. PICK kind \in Kind, payload \in PayloadToken \cup {"none"} :
        /\ kind = "review" <=> payload = "none"
        /\ row' = [row EXCEPT ![s] = [status |-> "received", history |-> <<>>,
                                      token |-> "none", payload |-> payload]]
        /\ kind # "inline" /\ UNCHANGED proc
  BY DEF Submit, Exclusive
<1>2. row[s].status = "absent" /\ UNCHANGED indexed
  BY DEF Submit, NoCommit
<1>3. kind \in {"review", "approved"}
  BY <1>1, IntakeAssumption
<1>4. Approver # {} => payload = "none"
  BY <1>1, <1>3 DEF Exclusive
<1>5. /\ row'[s].status = "received" /\ row'[s].payload = payload
      /\ \A t \in Submission : t # s => row'[t] = row[t]
  BY <1>1 DEF IntakeInv, TypeOK
<1>6. ASSUME NEW t \in Submission PROVE RowOnce(t)'
  <2>1. RowOnce(t)
    BY DEF OnceInv
  <2>2. CASE t = s
    <3>1. indexed[t] = 0
      BY <1>2, <2>1, <2>2 DEF RowOnce, Late
    <3> QED
      BY <1>2, <1>4, <1>5, <2>2, <3>1 DEF RowOnce
  <2>3. CASE t # s
    BY <1>2, <1>5, <2>1, <2>3 DEF RowOnce
  <2> QED
    BY <2>2, <2>3
<1>7. ASSUME NEW q \in Process, NEW e, e = proc[q] PROVE RoleInv(q, e)'
  <2>1. RoleInv(q, e) /\ DoingInv(q, e)
    BY <1>7 DEF OnceInv, IntakeInv
  <2>2. CASE e.at = "rest"
    <3>1. Idle(q, e)
      BY <2>1, <2>2 DEF DoingInv, Idle, First, Second, Answers, Moving, AtCommit
    <3> QED
      BY <3>1, IdleRoles
  <2>3. CASE e.at # "rest"
    <3>1. e.sub \in Submission /\ e.sub # s
      BY <1>2, <2>1, <2>3 DEF DoingInv
    <3>2. row'[e.sub] = row[e.sub]
      BY <1>5, <3>1
    <3> QED
      BY <1>2, <2>1, <3>2, RoleKept
  <2> QED
    BY <2>2, <2>3
<1>8. \A q \in Process : RoleInv(q, proc[q])'
  <2> TAKE q \in Process
  <2>1. PICK e : e = proc[q]
    OBVIOUS
  <2>2. RoleInv(q, e)'
    BY <1>7, <2>1
  <2> QED
    BY <1>1, <2>1, <2>2
<1>9. \A p, q \in Process : p # q => Apart(p, proc[p], q, proc[q])'
  BY <1>1 DEF OnceInv
<1> QED
  BY <1>6, <1>8, <1>9 DEF OnceInv

LEMMA OncePoll == ASSUME IntakeInv, OnceInv, Exclusive, NEW p \in Process, Poll(p) PROVE OnceInv'
<1>0. p \in Worker /\ p \notin Approver /\ UNCHANGED <<row, indexed>> /\ proc[p] \in Doing
  BY ExclusiveKinds DEF Poll, NoCommit, IntakeInv, TypeOK
<1>1. CASE Do(p, Finished(p)) \/ Do(p, Resting)
  BY <1>0, <1>1, OnceRest
<1>2. ASSUME NEW s \in Submission,
             Do(p, [proc[p] EXCEPT !.at = "claim", !.sub = s, !.seen = Read(s)])
      PROVE  OnceInv'
  <2>1. PICK d : d = [proc[p] EXCEPT !.at = "claim", !.sub = s, !.seen = Read(s)]
    OBVIOUS
  <2>2. d.at = "claim"
    BY <1>0, <2>1 DEF Doing
  <2>3. Idle(p, d)
    BY <1>0, <2>2 DEF Idle, First, Second, Answers, Moving, AtCommit
  <2> QED
    BY <1>0, <1>2, <2>1, <2>3, IdleRoles, OnceGoesOn
<1> QED
  BY <1>1, <1>2 DEF Poll

LEMMA OnceSynthesize ==
    ASSUME IntakeInv, OnceInv, Exclusive, NEW p \in Process, Synthesize(p) PROVE OnceInv'
<1>0. /\ proc[p].at = "synthesize" /\ UNCHANGED <<row, indexed>>
      /\ proc[p] \in Doing /\ RoleInv(p, proc[p]) /\ DoingInv(p, proc[p])
  BY AtWork DEF Synthesize, NoCommit
<1>1. p \in Worker /\ p \notin Approver
  BY <1>0, ExclusiveKinds DEF DoingInv, TokenInv, Moving
<1>2. PICK to \in {"synthesized", "failed"} : Do(p, Toward(p, to))
  BY <1>1 DEF Synthesize
<1>3. PICK d : d = Toward(p, to)
  OBVIOUS
<1>4. d.at = "fetch" /\ d.to = to /\ d.sub = proc[p].sub /\ d.arc = proc[p].arc
  <2>1. to \in Status
    BY StatusNames
  <2> QED
    BY <1>0, <1>3, <2>1, TowardFields DEF Toward, Doing
<1>5. proc[p].arc = 1 /\ Drives(p, proc[p]) /\ row[d.sub].status = "synthesizing"
  BY <1>0, <1>1, <1>4 DEF RoleInv, ArcInv, Drives, First, Driven
<1>6. First(p, d) /\ First(p, proc[p]) /\ ~Second(p, d) /\ ~Answers(p, d)
  BY <1>1, <1>4, <1>5 DEF First, Second, Answers, Drives, Moving
<1>7. to = "synthesized" => row[d.sub].status \in Driven(d)
  BY <1>4, <1>5 DEF Driven, Following
<1>8. RoleInv(p, d)
  BY <1>4, <1>5, <1>6, <1>7 DEF RoleInv, ArcInv, Drives, AtCommit
<1> QED
  BY <1>0, <1>2, <1>3, <1>4, <1>6, <1>8, OnceGoesOn

LEMMA OnceDecide == ASSUME IntakeInv, OnceInv, Exclusive, NEW p \in Process, Decide(p) PROVE OnceInv'
<1>1. PICK s \in Submission, token \in Token \cup {"cancel"} :
        /\ row[s].status = "awaiting_approval"
        /\ Do(p, [Resting EXCEPT !.at = "fetch", !.sub = s, !.token = token,
                                 !.to = IF token = "cancel" THEN "failed" ELSE "approved"])
  BY DEF Decide
<1>2. p \in Approver /\ p \notin Worker /\ UNCHANGED <<row, indexed>>
  BY ExclusiveKinds DEF Decide, NoCommit
<1>3. PICK d : d = [Resting EXCEPT !.at = "fetch", !.sub = s, !.token = token,
                                   !.to = IF token = "cancel" THEN "failed" ELSE "approved"]
  OBVIOUS
<1>4. d.at = "fetch" /\ d.sub = s
  BY <1>3 DEF Resting
<1>5. indexed[s] = 0
  BY <1>1 DEF OnceInv, RowOnce, Late
<1>6. ~First(p, d) /\ ~Second(p, d)
  BY <1>2 DEF First, Second
<1>7. RoleInv(p, d)
  BY <1>1, <1>2, <1>4, <1>5, <1>6 DEF RoleInv, ArcInv, Drives
<1>8. ASSUME NEW q \in Process, q # p PROVE Apart(p, d, q, proc[q])
  <2>1. RoleInv(q, proc[q])
    BY DEF OnceInv
  <2>2. proc[q].sub = s => ~Second(q, proc[q])
    BY <1>1, <2>1 DEF RoleInv, Late
  <2> QED
    BY <1>4, <1>6, <2>2 DEF Apart
<1> QED
  BY <1>1, <1>2, <1>3, <1>7, <1>8, OnceMove

LEMMA OnceCrash == ASSUME IntakeInv, OnceInv, Exclusive, NEW p \in Process, Crash(p) PROVE OnceInv'
  BY OnceRest DEF Crash, NoCommit

LEMMA OnceClaim == ASSUME IntakeInv, OnceInv, Exclusive, NEW p \in Process, Claim(p) PROVE OnceInv'
<1>s. PICK s \in Submission : s = proc[p].sub
  BY DEF Claim, IntakeInv, DoingInv
<1> DEFINE to == Claimed(p)
           r == [row[s] EXCEPT !.status = to, !.history = Note(p, to)]
<1>0. /\ proc[p].at = "claim" /\ proc[p] \in Doing /\ UNCHANGED indexed
      /\ s = proc[p].sub /\ RowOnce(s) /\ row[s] \in SubmissionRow
      /\ row \in [Submission -> SubmissionRow] /\ DoingInv(p, proc[p])
  BY <1>s DEF Claim, NoCommit, IntakeInv, TypeOK, OnceInv
<1>1. p \in Worker /\ p \notin Approver /\ proc[p].arc \in {1, 2}
  BY <1>0, ExclusiveKinds DEF DoingInv, ReadInv, Doing
<1>2. CASE UNCHANGED row /\ (Do(p, Finished(p)) \/ Do(p, Resting))
  BY <1>0, <1>2, OnceRest
<1>3. ASSUME Claimable(p), row' = [row EXCEPT ![s].status = to, ![s].history = Note(p, to)],
             NEW d, Do(p, d),
             \/ d = Finished(p) \/ d = Resting
             \/ /\ proc[p].arc = 1
                /\ d = [proc[p] EXCEPT !.at = "synthesize", !.seen = Nothing, !.token = row[s].payload]
             \/ proc[p].arc = 2 /\ d = Committing(p, row[s].token)
      PROVE  OnceInv'
  <2>1. /\ proc[p].arc = 1 => row[s].status = "received" /\ to = "synthesizing"
        /\ proc[p].arc = 2 => row[s].status = "approved" /\ to = "writing"
    BY <1>0, <1>3 DEF Claimable, Wanted, Claimed
  <2>2. row' = [row EXCEPT ![s] = r] /\ r.status = to /\ r.payload = row[s].payload
    BY <1>0, <1>3 DEF SubmissionRow
  <2>3. indexed[s] = 0 /\ to \notin {"absent", "received"}
    BY <1>0, <1>1, <2>1 DEF RowOnce, Late
  <2>4. row'[s].status = to /\ row'[s].payload = row[s].payload
    BY <1>0, <2>2
  <2> HIDE DEF r
  <2>5. ASSUME NEW q \in Process, proc[q].sub = s
        PROVE  /\ ~Drives(q, proc[q]) /\ ~Second(q, proc[q]) /\ ~Answers(q, proc[q])
               /\ proc[p].arc = 1 => ~First(q, proc[q])
    <3>1. RoleInv(q, proc[q])
      BY DEF OnceInv
    <3> QED
      BY <1>1, <2>1, <2>5, <3>1 DEF RoleInv, Late, Driven
  <2>6. RoleInv(p, d)' /\ \A q \in Process : q # p => Apart(p, d, q, proc[q])
    <3>1. CASE d = Finished(p) \/ d = Resting
      BY <3>1, RestIdle, IdleRoles
    <3>2. CASE /\ proc[p].arc = 1
               /\ d = [proc[p] EXCEPT !.at = "synthesize", !.seen = Nothing, !.token = row[s].payload]
      <4>1. d.at = "synthesize" /\ d.sub = s /\ d.arc = 1
        BY <1>0, <3>2 DEF Doing
      <4>2. ~Second(p, d) /\ ~Answers(p, d)
        BY <1>1, <4>1 DEF Second, Answers, Moving, AtCommit
      <4>3. row'[d.sub].status \in Driven(d) /\ row'[d.sub].status \notin {"absent", "received"}
        BY <2>1, <2>3, <2>4, <3>2, <4>1 DEF Driven
      <4>4. RoleInv(p, d)'
        BY <4>1, <4>2, <4>3 DEF RoleInv, ArcInv, AtCommit, Moving
      <4>5. \A q \in Process : q # p => Apart(p, d, q, proc[q])
        BY <2>5, <3>2, <4>1, <4>2 DEF Apart
      <4> QED
        BY <4>4, <4>5
    <3>3. CASE proc[p].arc = 2 /\ d = Committing(p, row[s].token)
      <4>1. d.at \in {"lookup", "fetch"} /\ d.sub = s /\ d.arc = 2 /\ d.to = "written"
        BY <1>0, <3>3 DEF Committing, Doing
      <4>2. ~First(p, d) /\ ~Answers(p, d)
        BY <1>1, <4>1 DEF First, Answers
      <4>3. row'[d.sub].status \in Late /\ indexed'[d.sub] = 0
        BY <1>0, <2>1, <2>3, <2>4, <3>3, <4>1 DEF Late
      <4>4. RoleInv(p, d)'
        BY <4>1, <4>2, <4>3 DEF RoleInv, ArcInv, Drives, AtCommit, Moving
      <4>5. \A q \in Process : q # p => Apart(p, d, q, proc[q])
        BY <2>5, <4>1, <4>2 DEF Apart
      <4> QED
        BY <4>4, <4>5
    <3> QED
      BY <1>3, <3>1, <3>2, <3>3
  <2>7. \A t \in Submission : t # s => row'[t] = row[t]
    BY <1>0, <2>2
  <2> HIDE DEF to
  <2> QED
    BY <1>0, <1>3, <2>3, <2>4, <2>5, <2>6, <2>7, OnceWrite
<1> QED
  <2>1. CASE Claimable(p) /\ row' = [row EXCEPT ![s].status = to, ![s].history = Note(p, to)]
    <3>1. \/ Do(p, Finished(p)) \/ Do(p, Resting)
          \/ /\ proc[p].arc = 1
             /\ Do(p, [proc[p] EXCEPT !.at = "synthesize", !.seen = Nothing, !.token = row[s].payload])
          \/ proc[p].arc = 2 /\ Do(p, Committing(p, row[s].token))
      BY <1>0, <1>1, <2>1 DEF Claim
    <3> QED
      BY <1>3, <2>1, <3>1
  <2>2. CASE ~(Claimable(p) /\ row' = [row EXCEPT ![s].status = to, ![s].history = Note(p, to)])
    BY <1>0, <1>2, <2>2 DEF Claim
  <2> QED
    BY <2>1, <2>2

LEMMA OnceFetch == ASSUME IntakeInv, OnceInv, Exclusive, NEW p \in Process, Fetch(p) PROVE OnceInv'
<1>0. /\ proc[p].at = "fetch" /\ proc[p].at \in Moving /\ proc[p].at \notin {"rest", "claim"}
      /\ UNCHANGED <<row, indexed>>
  BY DEF Fetch, NoCommit, Moving
<1>1. proc[p] \in Doing /\ RoleInv(p, proc[p])
  BY <1>0, AtWork
<1>2. CASE Do(p, Failing(p))
  BY <1>0, <1>2, OnceFails
<1>3. ASSUME Do(p, [proc[p] EXCEPT !.at = "store", !.seen = Read(proc[p].sub)]) PROVE OnceInv'
  <2>1. PICK d : d = [proc[p] EXCEPT !.at = "store", !.seen = Read(proc[p].sub)]
    OBVIOUS
  <2>2. d.at = "store" /\ d.sub = proc[p].sub /\ d.arc = proc[p].arc /\ d.to = proc[p].to
    BY <1>1, <2>1 DEF Doing
  <2>3. /\ First(p, d) <=> First(p, proc[p])
        /\ Second(p, d) <=> Second(p, proc[p])
        /\ Answers(p, d) <=> Answers(p, proc[p])
        /\ Drives(p, d) <=> Drives(p, proc[p])
        /\ Unindexed(d) <=> Unindexed(proc[p])
    BY <1>0, <2>2 DEF First, Second, Answers, Drives, Unindexed, Moving, AtCommit
  <2>4. ArcInv(p, d) /\ Driven(d) = Driven(proc[p])
    BY <1>0, <1>1, <2>2, <2>3 DEF RoleInv, ArcInv, Driven, AtCommit
  <2>5. RoleInv(p, d)
    BY <1>0, <1>1, <2>2, <2>3, <2>4 DEF RoleInv
  <2> QED
    BY <1>0, <1>3, <2>1, <2>2, <2>3, <2>5, OnceGoesOn
<1>4. ASSUME row[proc[p].sub].status = proc[p].to, Do(p, After(p)) PROVE OnceInv'
  <2>1. PICK f : f = After(p)
    OBVIOUS
  <2>2. ~Drives(p, proc[p])
    BY <1>0, <1>1, <1>4 DEF RoleInv, Driven, Following
  <2>3. CASE Idle(p, f)
    BY <1>0, <1>4, <2>1, <2>3, IdleRoles, OnceGoesOn
  <2>4. CASE /\ f.at = "index" \/ (f.at = "fetch" /\ f.to = "complete")
             /\ f.sub = proc[p].sub
             /\ Second(p, proc[p]) /\ Second(p, f) /\ ~First(p, f) /\ ~Answers(p, f)
             /\ proc[p].to = "written"
    <3>1. row[f.sub].status \in Late /\ indexed[f.sub] = 0
      BY <1>1, <2>4 DEF RoleInv, Unindexed
    <3>2. ArcInv(p, f)
      BY <2>4 DEF ArcInv, Second, Moving
    <3>3. RoleInv(p, f)
      BY <2>4, <3>1, <3>2 DEF RoleInv, Drives
    <3> QED
      BY <1>0, <1>4, <2>1, <2>4, <3>3, OnceGoesOn
  <2> QED
    BY <1>0, <2>1, <2>2, <2>3, <2>4, AfterRole
<1> QED
  BY <1>2, <1>3, <1>4 DEF Fetch

\* What a process that stores a status may count on: whoever drives the submission
\* has it for itself, and who commits or answers is not overtaken by one that drives.
LEMMA StoreAround ==
    ASSUME IntakeInv, OnceInv, Exclusive, NEW p \in Process, proc[p].at = "store"
    PROVE  /\ proc[p].to \notin {"absent", "received"}
           /\ proc[p].to \notin Late => indexed[proc[p].sub] = 0
           /\ Second(p, proc[p]) => proc[p].to \in Late
           /\ \A q \in Process : q # p /\ proc[q].sub = proc[p].sub =>
                 /\ ~Drives(q, proc[q])
                 /\ Second(q, proc[q]) => proc[p].to \in Late
                 /\ Answers(q, proc[q]) => proc[p].to \in {"awaiting_approval", "failed"}
<1> DEFINE s == proc[p].sub
           to == proc[p].to
<1>0. /\ RoleInv(p, proc[p]) /\ RowOnce(s) /\ DoingInv(p, proc[p])
      /\ p \in Worker => First(p, proc[p]) \/ Second(p, proc[p])
      /\ p \in Approver => Answers(p, proc[p])
  BY AtWork
<1>1. \A q \in Process : q # p => RoleInv(q, proc[q]) /\ Apart(p, proc[p], q, proc[q])
  BY DEF OnceInv
<1>2. Approver # {} => \A q \in Process : proc[q].sub = s /\ Drives(q, proc[q]) =>
                           row[s].status # "awaiting_approval"
  <2>1. ASSUME NEW q \in Process, proc[q].sub = s, Drives(q, proc[q]),
               row[s].status = "awaiting_approval"
        PROVE  row[s].payload # "none"
    <3>1. RoleInv(q, proc[q])
      BY DEF OnceInv
    <3> QED
      BY <2>1, <3>1 DEF RoleInv, Driven, Following
  <2> QED
    BY <1>0, <2>1 DEF RowOnce
<1>3. CASE p \in Approver
  <2>1. to \in {"failed", "approved"} /\ row[s].status \in {"awaiting_approval", "failed"} /\ indexed[s] = 0
    BY <1>0, <1>3 DEF DoingInv, TokenInv, RoleInv
  <2>2. ASSUME NEW q \in Process, q # p, proc[q].sub = s
        PROVE  ~Drives(q, proc[q]) /\ ~Second(q, proc[q]) /\ ~Answers(q, proc[q])
    <3>1. ~Answers(q, proc[q])
      BY <1>3, <2>2, ExclusiveKinds DEF Answers
    <3>2. ~Second(q, proc[q])
      BY <1>0, <1>1, <1>3, <2>2 DEF Apart
    <3>3. ~Drives(q, proc[q])
      BY <1>1, <1>2, <1>3, <2>1, <2>2 DEF RoleInv, Driven
    <3> QED
      BY <3>1, <3>2, <3>3
  <2>3. ~Second(p, proc[p])
    BY <1>3, ExclusiveKinds DEF Second
  <2> QED
    BY <2>1, <2>2, <2>3
<1>4. CASE Second(p, proc[p])
  <2>1. to \in {"written", "complete", "failed"} /\ row[s].status \in Late
    BY <1>0, <1>4 DEF RoleInv, ArcInv, Moving
  <2>2. ASSUME NEW q \in Process, q # p, proc[q].sub = s
        PROVE  ~Drives(q, proc[q]) /\ ~Second(q, proc[q]) /\ ~Answers(q, proc[q])
    BY <1>1, <1>4, <2>1, <2>2 DEF Apart, RoleInv, Driven, Late
  <2> QED
    BY <2>1, <2>2 DEF Late
<1>5. CASE First(p, proc[p])
  <2>1. to \in {"synthesized", "drafting", "awaiting_approval", "approved", "failed"} /\ ~Second(p, proc[p])
    BY <1>0, <1>5 DEF RoleInv, ArcInv, First, Second, Moving
  <2>2. ASSUME NEW q \in Process, q # p, proc[q].sub = s PROVE ~Drives(q, proc[q])
    BY <1>1, <1>5, <2>2 DEF Apart, Drives
  <2>3. CASE to = "failed"
    BY <2>1, <2>2, <2>3 DEF Late
  <2>4. CASE to # "failed"
    <3>1. Drives(p, proc[p]) /\ row[s].status \in Driven(proc[p]) /\ row[s].status \notin Late
      BY <1>0, <1>5, <2>4 DEF Drives, RoleInv, Driven, Late
    <3>2. ASSUME NEW q \in Process, q # p, proc[q].sub = s
          PROVE  ~Second(q, proc[q]) /\ ~Answers(q, proc[q])
      <4>1. ~Second(q, proc[q])
        BY <1>1, <3>1, <3>2 DEF RoleInv
      <4>2. ~Answers(q, proc[q])
        BY <1>1, <1>2, <3>1, <3>2 DEF RoleInv, Answers, Late
      <4> QED
        BY <4>1, <4>2
    <3> QED
      BY <1>0, <2>1, <2>2, <3>1, <3>2 DEF RowOnce
  <2> QED
    BY <2>3, <2>4
<1> QED
  BY <1>0, <1>3, <1>4, <1>5, ExclusiveKinds

LEMMA OnceStore == ASSUME IntakeInv, OnceInv, Exclusive, NEW p \in Process, Store(p) PROVE OnceInv'
<1>s. PICK s \in Submission : s = proc[p].sub
  BY DEF Store, IntakeInv, DoingInv
<1> DEFINE to == proc[p].to
           r == [row[s] EXCEPT !.status = to, !.history = Note(p, to), !.token = TokenColumn(p)]
<1>0. /\ proc[p].at = "store" /\ proc[p].at \in Moving /\ proc[p].at \notin {"rest", "claim"}
      /\ UNCHANGED indexed /\ row \in [Submission -> SubmissionRow] /\ row[s] \in SubmissionRow
  BY DEF Store, NoCommit, Moving, IntakeInv, TypeOK
<1>1. /\ proc[p] \in Doing /\ RoleInv(p, proc[p])
      /\ p \in Worker => First(p, proc[p]) \/ Second(p, proc[p])
  BY <1>0, AtWork
<1>2. CASE UNCHANGED row /\ Do(p, Failing(p))
  BY <1>0, <1>2, OnceFails
<1>3. ASSUME NEW d, Do(p, d), d = After(p) \/ d = Failing(p),
             row' = [row EXCEPT ![s] =
                [@ EXCEPT !.status = to, !.history = Note(p, to), !.token = TokenColumn(p)]]
      PROVE  OnceInv'
  <2>1. row' = [row EXCEPT ![s] = r] /\ r.status = to /\ r.payload = row[s].payload
    BY <1>0, <1>3 DEF SubmissionRow
  <2>2. row'[s].status = to /\ row'[s].payload = row[s].payload
    BY <1>0, <2>1
  <2> HIDE DEF r, to
  <2>3. /\ to \notin {"absent", "received"}
        /\ to \notin Late => indexed[s] = 0
        /\ Second(p, proc[p]) => to \in Late
        /\ \A q \in Process : q # p /\ proc[q].sub = s =>
              /\ ~Drives(q, proc[q])
              /\ Second(q, proc[q]) => to \in Late
              /\ Answers(q, proc[q]) => to \in {"awaiting_approval", "failed"}
    BY <1>0, <1>s, StoreAround DEF to
  <2>4. /\ RoleInv(p, d)'
        /\ \/ Idle(p, d)
           \/ /\ d.sub = proc[p].sub
              /\ First(p, d) => First(p, proc[p])
              /\ Second(p, d) => Second(p, proc[p])
              /\ Answers(p, d) => Answers(p, proc[p])
    <3>1. CASE Idle(p, d)
      BY <3>1, IdleRoles
    <3>2. CASE /\ d.sub = proc[p].sub /\ d.at = "fetch" /\ d.to = "failed"
               /\ ~Drives(p, d) /\ ~Unindexed(d) /\ ~Answers(p, d)
               /\ First(p, d) => First(p, proc[p])
               /\ Second(p, d) => Second(p, proc[p])
      <4>1. ArcInv(p, d)
        BY <3>2 DEF ArcInv, AtCommit
      <4>2. RoleInv(p, d)'
        BY <1>s, <2>2, <2>3, <3>2, <4>1 DEF RoleInv, ArcInv
      <4> QED
        BY <3>2, <4>2
    <3>3. CASE /\ d.sub = proc[p].sub /\ d.at = "fetch" /\ d.to = Following[to]
               /\ Drives(p, proc[p]) /\ Drives(p, d) /\ ~Second(p, d) /\ ~Answers(p, d)
               /\ to \in {"synthesized", "drafting", "awaiting_approval"}
               /\ d.to = "approved" => row[d.sub].payload # "none"
      <4>1. d.to \in {"drafting", "awaiting_approval", "approved"} /\ to \in Driven(d)
        BY <3>3 DEF Following, Driven
      <4>2. ArcInv(p, d)
        BY <3>3, <4>1 DEF ArcInv, AtCommit
      <4>3. RoleInv(p, d)'
        BY <1>s, <2>2, <2>3, <3>3, <4>1, <4>2 DEF RoleInv, ArcInv
      <4> QED
        BY <3>3, <4>3 DEF Drives
    <3>4. CASE /\ d.at = "index" \/ (d.at = "fetch" /\ d.to = "complete")
               /\ d.sub = proc[p].sub
               /\ Second(p, proc[p]) /\ Second(p, d) /\ ~First(p, d) /\ ~Answers(p, d)
               /\ to = "written"
      <4>1. indexed[s] = 0 /\ to \in Late
        BY <1>s, <1>1, <3>4 DEF RoleInv, Unindexed, Late, to
      <4>2. ArcInv(p, d)
        BY <3>4 DEF ArcInv, Second, Moving
      <4>3. RoleInv(p, d)'
        BY <1>0, <1>s, <2>2, <3>4, <4>1, <4>2 DEF RoleInv, ArcInv, Drives
      <4> QED
        BY <3>4, <4>3
    <3>5. CASE d = After(p)
      BY <1>0, <3>1, <3>3, <3>4, <3>5, AfterRole DEF to
    <3>6. CASE d = Failing(p)
      BY <1>0, <1>1, <3>1, <3>2, <3>6, FailingRole
    <3> QED
      BY <1>3, <3>5, <3>6
  <2>5. \A q \in Process : q # p => Apart(p, d, q, proc[q])
    <3> TAKE q \in Process
    <3> HAVE q # p
    <3>1. Apart(p, proc[p], q, proc[q])
      BY DEF OnceInv
    <3> QED
      BY <2>4, <3>1, ApartKept, IdleRoles
  <2>6. \A t \in Submission : t # s => row'[t] = row[t]
    BY <1>0, <2>1
  <2> QED
    BY <1>0, <1>3, <2>2, <2>3, <2>4, <2>5, <2>6, OnceWrite
<1> QED
  <2>1. \/ UNCHANGED row /\ Do(p, Failing(p))
        \/ /\ row' = [row EXCEPT ![s] =
                [@ EXCEPT !.status = to, !.history = Note(p, to), !.token = TokenColumn(p)]]
           /\ Do(p, After(p)) \/ Do(p, Failing(p))
    BY <1>s DEF Store, Exclusive
  <2> QED
    BY <1>2, <1>3, <2>1

\* A process at its commit holds the second arc.
LEMMA AtCommitRole ==
    ASSUME NEW p \in Process, IntakeInv, OnceInv, Exclusive, proc[p].at \in AtCommit
    PROVE  /\ proc[p].at \notin {"rest", "claim"} /\ proc[p] \in Doing /\ p \notin Approver
           /\ proc[p].sub \in Submission /\ Second(p, proc[p]) /\ proc[p].arc = 2
           /\ row[proc[p].sub].status \in Late /\ indexed[proc[p].sub] = 0
<1>1. proc[p].at \notin {"rest", "claim"} /\ p \notin Approver
  BY CommitFacts DEF AtCommit
<1>2. p \in Worker /\ RoleInv(p, proc[p])
  BY <1>1, AtWork, ExclusiveKinds
<1>3. proc[p].arc = 2 /\ Second(p, proc[p])
  BY <1>2 DEF RoleInv, ArcInv, Second
<1> QED
  BY <1>1, <1>2, <1>3, AtWork DEF RoleInv, Unindexed

\* From the look-up to the transition to written.
LEMMA OnceCommits ==
    ASSUME IntakeInv, OnceInv, Exclusive, UNCHANGED <<row, indexed>>, NEW p \in Process,
           proc[p].at \in AtCommit, NEW d, Do(p, d), d.sub = proc[p].sub, d.arc = 2,
           d.at = "open" \/ (d.at = "fetch" /\ d.to = "written")
    PROVE  OnceInv'
<1>1. ~First(p, d) /\ Second(p, d) /\ ~Answers(p, d)
  BY AtCommitRole, ExclusiveKinds DEF First, Second, Answers, Moving, AtCommit
<1>2. RoleInv(p, d)
  BY <1>1, AtCommitRole DEF RoleInv, ArcInv, Drives, Moving, AtCommit
<1> QED
  BY <1>1, <1>2, AtCommitRole, OnceGoesOn

LEMMA ToWritten ==
    ASSUME NEW p \in Process, proc[p] \in Doing, NEW to \in {"written", "complete"}, NEW d, d = Toward(p, to)
    PROVE  d.at = "fetch" /\ d.to = to /\ d.sub = proc[p].sub /\ d.arc = proc[p].arc
<1>1. to \in Status
  BY StatusNames
<1> QED
  BY <1>1, TowardFields DEF Toward, Doing

LEMMA OnceLookUp == ASSUME IntakeInv, OnceInv, Exclusive, NEW p \in Process, LookUp(p) PROVE OnceInv'
<1>0. proc[p].at \in AtCommit /\ UNCHANGED <<row, indexed>>
  BY DEF LookUp, AtCommit, NoCommit
<1>1. CASE Do(p, Failing(p))
  BY <1>0, <1>1, AtCommitRole, OnceFails
<1>2. CASE Do(p, Toward(p, "written"))
  BY <1>0, <1>2, AtCommitRole, ToWritten, OnceCommits
<1>3. CASE Do(p, [proc[p] EXCEPT !.at = "open"])
  <2>1. PICK d : d = [proc[p] EXCEPT !.at = "open"]
    OBVIOUS
  <2>2. d.at = "open" /\ d.sub = proc[p].sub /\ d.arc = 2
    BY <1>0, <2>1, AtCommitRole DEF Doing
  <2> QED
    BY <1>0, <1>3, <2>1, <2>2, OnceCommits
<1> QED
  BY <1>1, <1>2, <1>3 DEF LookUp

LEMMA OnceOpen == ASSUME IntakeInv, OnceInv, Exclusive, NEW p \in Process, Open(p) PROVE OnceInv'
<1>0. proc[p].at \in AtCommit /\ UNCHANGED <<row, indexed>>
  BY DEF Open, AtCommit
<1>1. CASE Do(p, Failing(p))
  BY <1>0, <1>1, AtCommitRole, OnceFails
<1>2. CASE Do(p, Toward(p, "written"))
  BY <1>0, <1>2, AtCommitRole, ToWritten, OnceCommits
<1> QED
  BY <1>1, <1>2 DEF Open

LEMMA OnceIndex == ASSUME IntakeInv, OnceInv, Exclusive, NEW p \in Process, Index(p) PROVE OnceInv'
<1>s. PICK s \in Submission : s = proc[p].sub
  BY DEF Index, IntakeInv, DoingInv
<1>0. /\ proc[p].at \in AtCommit /\ UNCHANGED row /\ proc[p] \in Doing
      /\ indexed \in [Submission -> Nat]
  BY DEF Index, AtCommit, IntakeInv, TypeOK
<1>1. CASE UNCHANGED indexed /\ Do(p, Failing(p))
  BY <1>0, <1>1, AtCommitRole, OnceFails
<1>2. ASSUME indexed' = [indexed EXCEPT ![s] = @ + 1], NEW d, Do(p, d),
             d = Failing(p) \/ d = Toward(p, "complete")
      PROVE  OnceInv'
  <2>1. /\ Second(p, proc[p]) /\ row[s].status \in Late /\ indexed[s] = 0 /\ proc[p].arc = 2
        /\ p \notin Approver /\ p \in Worker
    BY <1>0, <1>s, AtCommitRole, ExclusiveKinds
  <2>2. indexed'[s] = 1 /\ \A t \in Submission : t # s => indexed'[t] = indexed[t]
    BY <1>0, <1>2, <2>1
  <2>3. ASSUME NEW t \in Submission PROVE RowOnce(t)'
    <3>1. RowOnce(t)
      BY DEF OnceInv
    <3>2. CASE t = s
      BY <1>0, <2>1, <2>2, <3>1, <3>2 DEF RowOnce
    <3>3. CASE t # s
      BY <1>0, <2>2, <3>1, <3>3 DEF RowOnce
    <3> QED
      BY <3>2, <3>3
  <2>4. /\ ~Unindexed(d) /\ ~Drives(p, d) /\ ~Answers(p, d) /\ RoleInv(p, d)'
        /\ \/ Idle(p, d)
           \/ /\ d.sub = proc[p].sub
              /\ First(p, d) => First(p, proc[p])
              /\ Second(p, d) => Second(p, proc[p])
    <3>1. CASE d = Toward(p, "complete")
      <4>1. d.at = "fetch" /\ d.to = "complete" /\ d.sub = s /\ d.arc = 2
        BY <1>0, <1>s, <2>1, <3>1, ToWritten
      <4>2. ~First(p, d) /\ Second(p, d) /\ ~Answers(p, d) /\ ~Unindexed(d)
        BY <2>1, <4>1 DEF First, Second, Answers, Unindexed, Moving, AtCommit
      <4>3. RoleInv(p, d)'
        BY <1>0, <2>1, <4>1, <4>2 DEF RoleInv, ArcInv, Drives
      <4> QED
        BY <1>s, <2>1, <4>1, <4>2, <4>3 DEF Drives
    <3>2. CASE d = Failing(p)
      <4>1. \/ d = Finished(p)
            \/ d = Toward(p, "failed")
        BY <3>2 DEF Failing
      <4>2. CASE d = Finished(p)
        <5>1. Idle(p, d) /\ ~Unindexed(d)
          BY <4>2, RestIdle DEF Finished, Resting, SecondArc, Unindexed, AtCommit
        <5> QED
          BY <5>1, IdleRoles DEF Idle, Drives
      <4>3. CASE d = Toward(p, "failed")
        <5>1. d.at = "fetch" /\ d.to = "failed" /\ d.sub = s
          BY <1>0, <1>s, <4>3, TowardFields, StatusNames
        <5>2. d.arc = 2
          BY <1>0, <2>1, <4>3 DEF Toward, Doing
        <5>3. ~First(p, d) /\ Second(p, d) /\ ~Answers(p, d) /\ ~Unindexed(d)
          BY <2>1, <5>1, <5>2 DEF First, Second, Answers, Unindexed, Moving, AtCommit
        <5>4. RoleInv(p, d)'
          BY <1>0, <2>1, <5>1, <5>2, <5>3 DEF RoleInv, ArcInv, Drives
        <5> QED
          BY <1>s, <2>1, <5>1, <5>3, <5>4 DEF Drives
      <4> QED
        BY <4>1, <4>2, <4>3
    <3> QED
      BY <1>2, <3>1, <3>2
  <2>5. ASSUME NEW q \in Process, q # p, NEW e, e = proc[q] PROVE RoleInv(q, e)' /\ Apart(p, d, q, e)
    <3>1. RoleInv(q, e) /\ DoingInv(q, e) /\ Apart(p, proc[p], q, e)
      BY <2>5 DEF OnceInv, IntakeInv
    <3>2. Apart(p, d, q, e)
      BY <2>4, <3>1, ApartKept, IdleRoles
    <3>3. CASE e.sub = s
      <4>1. ~Second(q, e) /\ ~Answers(q, e)
        BY <1>s, <2>1, <3>1, <3>3 DEF Apart
      <4>2. RoleInv(q, e)'
        BY <1>0, <3>1, <4>1 DEF RoleInv, ArcInv
      <4> QED
        BY <3>2, <4>2
    <3>4. CASE e.at = "rest"
      <4>1. Idle(q, e)
        BY <3>1, <3>4 DEF DoingInv, Idle, First, Second, Answers, Moving, AtCommit
      <4> QED
        BY <3>2, <4>1, IdleRoles
    <3>5. CASE e.sub # s /\ e.at # "rest"
      <4>1. indexed'[e.sub] = indexed[e.sub]
        BY <2>2, <3>1, <3>5 DEF DoingInv
      <4> QED
        BY <1>0, <3>1, <3>2, <4>1, RoleKept
    <3> QED
      BY <3>3, <3>4, <3>5
  <2> QED
    BY <1>2, <2>3, <2>4, <2>5, OnceStep
<1> QED
  BY <1>s, <1>1, <1>2 DEF Index

-----------------------------------------------------------------------------
LEMMA OnceInit == Init => OnceInv
<1> SUFFICES ASSUME Init PROVE OnceInv
  OBVIOUS
<1>1. \A s \in Submission : RowOnce(s)
  BY DEF Init, RowOnce, Absent, Late
<1>2. \A p \in Process : Idle(p, proc[p])
  BY RestIdle DEF Init
<1> QED
  BY <1>1, <1>2, IdleRoles DEF OnceInv

LEMMA OnceNext == IntakeInv /\ OnceInv /\ [Next]_vars => OnceInv'
<1> SUFFICES ASSUME IntakeInv, OnceInv, [Next]_vars, Exclusive PROVE OnceInv'
  BY DEF OnceInv
<1>1. CASE UNCHANGED vars
  <2>1. UNCHANGED <<row, proc, indexed>>
    BY <1>1 DEF vars
  <2>2. \A s \in Submission : RowOnce(s)'
    BY <2>1 DEF OnceInv, RowOnce
  <2>3. \A p \in Process : RoleInv(p, proc[p])'
    BY <2>1 DEF OnceInv, RoleInv, ArcInv, First, Second, Drives, Answers, Unindexed, Driven
  <2>4. \A p, q \in Process : p # q => Apart(p, proc[p], q, proc[q])'
    BY <2>1 DEF OnceInv
  <2> QED
    BY <2>2, <2>3, <2>4 DEF OnceInv
<1>2. CASE Next
  BY <1>2, OnceSubmit, OncePoll, OnceClaim, OnceSynthesize, OnceDecide, OnceFetch, OnceStore,
     OnceLookUp, OnceOpen, OnceIndex, OnceCrash DEF Next, Step
<1> QED
  BY <1>1, <1>2

\* However many workers run and whatever fails, an exclusively approved submission
\* inserts its retrieval rows at most once (CommittedOnce).
THEOREM IntakeCommittedOnce == Spec => []CommittedOnce
<1>1. OnceInv => CommittedOnce
  BY DEF OnceInv, RowOnce, CommittedOnce
<1> QED
  BY <1>1, IntakeInvariant, OnceInit, OnceNext, PTL DEF Spec
=============================================================================
