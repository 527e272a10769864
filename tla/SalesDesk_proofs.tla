--------------------------- MODULE SalesDesk_proofs ---------------------------
(***************************************************************************)
(* Theorems of the components of the sales desk, each for every value of   *)
(* its constants: the deals that are won, the board of opportunities, how  *)
(* deals come into being, the review of a submission, and the quotes.      *)
(***************************************************************************)
EXTENDS WonDeals, OpportunityBoard, NewDeals, ReviewDesk, QuoteDesk, FiniteSetTheorems, SequenceTheorems,
        WellFoundedInduction, TLAPS

-----------------------------------------------------------------------------
(* WonDeals, for any number of deals, people, executors, queue rows, edits *)
(* and failures: the types, what is filed and linked, the edits that are   *)
(* kept, and that the won rows implement OneShot.                          *)

Working == {"insured", "policy", "link", "fresh", "write", "close", "failed", "doubt"}
Errand == [at : Working \cup {"rest", "claim"}, entry : Entry \cup {0}, fields : 0..MaxAmsEdits, guid : BOOLEAN]

WonTypes == WonTypeOK /\ exec \in [Executor -> Errand]

IsWon(j) == Used(j) /\ queue[j].kind = "won"

\* An executor has a row in hand, which is processing, or completed without its hearing of it,
\* and of the kind it works on.
Hand(e) ==
    exec[e].at # "rest" =>
        /\ exec[e].entry \in Entry /\ Used(exec[e].entry)
        /\ exec[e].at \in Working \ {"doubt"} => Entered(e).status = "processing"
        /\ exec[e].at = "doubt" => Entered(e).status = "completed"
        /\ exec[e].at \in {"insured", "policy", "link"} => Entered(e).kind = "won"
        /\ exec[e].at \in {"fresh", "write"} => Entered(e).kind = "back"
HandInv == \A e \in Executor : Hand(e)

\* No two executors work on one row.
AloneInv ==
    \A e, f \in Executor :
        exec[e].at \in Working /\ exec[f].at \in Working /\ exec[e].entry = exec[f].entry => e = f

\* What was filed, by the status of the row and the step of its executor.
FiledRow(j) ==
    /\ policies[j] \in {0, 1}
    /\ policies[j] = 1 => IsWon(j) /\ queue[j].status # "queued"
    /\ IsWon(j) /\ queue[j].status = "completed" => policies[j] = 1
FiledBy(e) ==
    /\ exec[e].at \in {"insured", "policy"} => policies[exec[e].entry] = 0
    /\ exec[e].at \in {"link", "close"} /\ Entered(e).kind = "won" => policies[exec[e].entry] = 1
FiledInv == (\A j \in Entry : FiledRow(j)) /\ (\A e \in Executor : FiledBy(e))

\* Who is staged, or about to be, was won with a number.
RowsWon == \A j \in Entry : IsWon(j) => queue[j].deal \in everWon
StagerWon(p) ==
    person[p].at \in {"back", "won"} /\ person[p].status = "won" /\ person[p].number => person[p].deal \in everWon
WonInv == RowsWon /\ \A p \in Person : StagerWon(p)

Tied(d) == deal[d].there => deal[d].insured

\* A row is closed after its deal was linked.
TiedInv ==
    /\ \A e \in Executor : exec[e].at = "close" /\ Entered(e).kind = "won" => Tied(DealOf(e))
    /\ \A j \in Entry : IsWon(j) /\ queue[j].status = "completed" => Tied(queue[j].deal)

\* What an executor has read of a deal is the last edit, unless a later one raced it.
EditsInv ==
    \A d \in Deals \ raced :
        /\ amsDeal[d].fields = latest[d]
        /\ \A e \in Executor : exec[e].at = "write" /\ DealOf(e) = d => exec[e].fields = latest[d]

RowsInv == WonTypes /\ HandInv /\ AloneInv

-----------------------------------------------------------------------------
(* Rows and executors: what the helpers do to them                         *)

RowStatus == {"queued", "processing", "completed", "failed"}

\* An unused entry is no row.
LEMMA UnusedIsNoRow == Unused \notin DealRow
  BY DEF Unused, DealRow, Kind

\* An executor's fields have their types.
LEMMA ExecFields ==
    ASSUME WonTypes, NEW e \in Executor
    PROVE  /\ exec[e] \in Errand /\ exec[e].at \in Working \cup {"rest", "claim"}
           /\ exec[e].entry \in Entry \cup {0} /\ exec[e].fields \in 0..MaxAmsEdits
  BY DEF WonTypes, Errand

\* A used entry holds a row.
LEMMA UsedRow ==
    ASSUME WonTypes, NEW j \in Entry, Used(j)
    PROVE  queue[j] \in DealRow /\ queue[j].kind \in Kind /\ queue[j].deal \in Deals /\ queue[j].status \in RowStatus
           /\ queue[j].target \in Status
  <1>1. queue[j] \in DealRow
    BY DEF WonTypes, WonTypeOK, Used
  <1> QED
    BY <1>1 DEF DealRow, RowStatus

\* Closing a row, or queueing it again, changes its status only.
LEMMA CloseRow ==
    ASSUME WonTypes, NEW j \in Entry, Used(j), NEW status \in RowStatus, Close(j, status)
    PROVE  /\ queue' \in [Entry -> DealRow \cup {Unused}]
           /\ \A i \in Entry : /\ (queue'[i] # Unused) <=> (queue[i] # Unused)
                               /\ queue'[i].kind = queue[i].kind /\ queue'[i].deal = queue[i].deal
                               /\ i # j => queue'[i] = queue[i]
           /\ queue'[j].status = status
  <1>1. queue[j] \in DealRow /\ queue \in [Entry -> DealRow \cup {Unused}]
    BY UsedRow DEF WonTypes, WonTypeOK
  <1>2. queue' = [queue EXCEPT ![j] = [queue[j] EXCEPT !.status = status]]
    BY <1>1 DEF Close
  <1>3. [queue[j] EXCEPT !.status = status] \in DealRow
    BY <1>1 DEF DealRow, RowStatus
  <1>4. queue'[j] = [queue[j] EXCEPT !.status = status] /\ \A i \in Entry : i # j => queue'[i] = queue[i]
    BY <1>1, <1>2
  <1>5. queue'[j].kind = queue[j].kind /\ queue'[j].deal = queue[j].deal /\ queue'[j].status = status
    BY <1>1, <1>4 DEF DealRow
  <1>6. queue' \in [Entry -> DealRow \cup {Unused}]
    BY <1>1, <1>2, <1>3
  <1>7. queue[j] # Unused /\ queue'[j] # Unused
    BY <1>3, <1>4, UnusedIsNoRow DEF Used
  <1> QED
    BY <1>4, <1>5, <1>6, <1>7 DEF Used

\* Staging makes one row of an unused entry.
LEMMA StageRow ==
    ASSUME WonTypes, NEW kind \in Kind, NEW d \in Deals, NEW target \in Status, NEW insured \in BOOLEAN,
           Stage(kind, d, target, insured)
    PROVE  /\ queue' \in [Entry -> DealRow \cup {Unused}]
           /\ \E j \in Entry :
                 /\ ~Used(j) /\ queue'[j] # Unused
                 /\ queue'[j].kind = kind /\ queue'[j].deal = d /\ queue'[j].status = "queued"
                 /\ \A i \in Entry : i # j => queue'[i] = queue[i]
  <1> DEFINE new == [kind |-> kind, deal |-> d, status |-> "queued", target |-> target, insured |-> insured,
                     fields |-> amsDeal[d].fields]
  <1>1. PICK j \in Entry : ~Used(j) /\ queue' = [queue EXCEPT ![j] = new]
    BY DEF Stage
  <1>2. amsDeal[d].fields \in 0..MaxAmsEdits
    BY DEF WonTypes, WonTypeOK
  <1>3. new \in DealRow
    BY <1>2 DEF DealRow
  <1>4. queue \in [Entry -> DealRow \cup {Unused}]
    BY DEF WonTypes, WonTypeOK
  <1>5. queue'[j] = new /\ \A i \in Entry : i # j => queue'[i] = queue[i]
    BY <1>1, <1>4
  <1>6. queue'[j] # Unused
    BY <1>3, <1>5, UnusedIsNoRow DEF Used
  <1>7. new.kind = kind /\ new.deal = d /\ new.status = "queued"
    OBVIOUS
  <1>8. queue' \in [Entry -> DealRow \cup {Unused}]
    BY <1>1, <1>3, <1>4
  <1> HIDE DEF new
  <1> QED
    BY <1>1, <1>5, <1>6, <1>7, <1>8

\* An executor goes to another step with the same row.
LEMMA GoStep ==
    ASSUME WonTypes, NEW e \in Executor, NEW place \in Working \cup {"rest", "claim"}, Go(e, place)
    PROVE  /\ exec' \in [Executor -> Errand]
           /\ exec'[e].at = place /\ exec'[e].entry = exec[e].entry /\ exec'[e].fields = exec[e].fields
           /\ \A f \in Executor : f # e => exec'[f] = exec[f]
  BY DEF Go, WonTypes, Errand

\* The bounds are numbers, and no row has the number 0.
LEMMA Bounds == MaxStageMoves \in Nat /\ MaxAmsEdits \in Nat /\ MaxWonFaults \in Nat /\ Entry \subseteq Nat \ {0}
  BY WonAssumption

\* An executor that rests, or that has taken a row up.
LEMMA RestTyped ==
    ASSUME NEW j \in Entry
    PROVE  NotDraining \in Errand /\ [NotDraining EXCEPT !.at = "claim", !.entry = j] \in Errand
  <1>1. NotDraining \in Errand
    BY Bounds DEF NotDraining, Errand
  <1>2. ASSUME NEW w \in Errand PROVE [w EXCEPT !.at = "claim", !.entry = j] \in Errand
    BY DEF Errand
  <1> QED
    BY <1>1, <1>2

\* An executor with a row in hand.
LEMMA InHand ==
    ASSUME WonTypes, HandInv, NEW e \in Executor, exec[e].at # "rest"
    PROVE  /\ exec[e].entry \in Entry /\ Used(exec[e].entry) /\ DealOf(e) \in Deals /\ Entered(e) = queue[exec[e].entry]
           /\ Entered(e).target \in Status /\ Entered(e).kind \in Kind
  BY UsedRow DEF HandInv, Hand, DealOf, Entered

-----------------------------------------------------------------------------
(* Type correctness                                                        *)

\* The parts of the type invariant.
DealsTyped ==
    /\ deal \in [Deals -> [there : BOOLEAN, status : Status, mirrored : BOOLEAN,
                          number : BOOLEAN, insured : BOOLEAN, policy : BOOLEAN]]
    /\ amsDeal \in [Deals -> [stage : Status, fields : 0..MaxAmsEdits]]
    /\ insureds \subseteq Deals /\ everWon \subseteq Deals /\ raced \subseteq Deals
    /\ latest \in [Deals -> 0..MaxAmsEdits]
PeopleTyped ==
    person \in [Person -> [at : {"rest", "back", "won"}, deal : Deals,
                           status : Status, mirrored : BOOLEAN, number : BOOLEAN,
                           insured : BOOLEAN, policy : BOOLEAN]]
QueueTyped == queue \in [Entry -> DealRow \cup {Unused}] /\ policies \in [Entry -> Nat]
ExecTyped == exec \in [Executor -> Errand]
Counted == wonMoves \in 0..MaxStageMoves /\ edits \in 0..MaxAmsEdits /\ wonFaults \in 0..MaxWonFaults

LEMMA TypeParts == WonTypes <=> DealsTyped /\ PeopleTyped /\ QueueTyped /\ ExecTyped /\ Counted
  BY DEF WonTypes, WonTypeOK, DealsTyped, PeopleTyped, QueueTyped, ExecTyped, Counted, Errand, Working

LEMMA WonTypesInit == WonInit => WonTypes
  <1> SUFFICES ASSUME WonInit PROVE WonTypes
    OBVIOUS
  <1> USE WonAssumption, Bounds
  <1>1. DealsTyped
    <2> DEFINE Opened == [there : {TRUE}, status : {"open"}, mirrored : BOOLEAN,
                          number : BOOLEAN, insured : BOOLEAN, policy : {FALSE}]
               Any == [there : BOOLEAN, status : Status, mirrored : BOOLEAN,
                       number : BOOLEAN, insured : BOOLEAN, policy : BOOLEAN]
    <2>1. \A row \in Opened : row \in Any
      BY Zenon DEF Status
    <2>2. deal \in [Deals -> Opened]
      BY DEF WonInit
    <2>3. deal \in [Deals -> Any]
      <3> HIDE DEF Opened, Any
      <3> QED
        BY <2>1, <2>2
    <2>4. [stage |-> "open", fields |-> 0] \in [stage : Status, fields : 0..MaxAmsEdits]
      BY DEF Status
    <2>5. amsDeal \in [Deals -> [stage : Status, fields : 0..MaxAmsEdits]]
      BY <2>4 DEF WonInit
    <2>6. insureds \subseteq Deals /\ everWon \subseteq Deals /\ raced \subseteq Deals /\ latest \in [Deals -> 0..MaxAmsEdits]
      BY DEF WonInit
    <2> QED
      BY <2>3, <2>5, <2>6 DEF DealsTyped
  <1> DEFINE first == CHOOSE d \in Deals : TRUE
             begun == [at |-> "rest", deal |-> first, status |-> "open",
                       mirrored |-> FALSE, number |-> FALSE, insured |-> FALSE, policy |-> FALSE]
  <1>2. first \in Deals
    OBVIOUS
  <1>3. PeopleTyped
    <2>1. begun \in [at : {"rest", "back", "won"}, deal : Deals, status : Status, mirrored : BOOLEAN,
                     number : BOOLEAN, insured : BOOLEAN, policy : BOOLEAN]
      <3> HIDE DEF first
      <3> QED
        BY <1>2 DEF Status
    <2>2. person \in [Person -> {begun}]
      BY DEF WonInit
    <2> HIDE DEF begun
    <2> QED
      BY <2>1, <2>2 DEF PeopleTyped
  <1>4. QueueTyped /\ ExecTyped /\ Counted
    BY DEF WonInit, QueueTyped, ExecTyped, Counted, NotDraining, Errand, Working
  <1> QED
    BY <1>1, <1>3, <1>4, TypeParts

LEMMA CountsStep == WonTypes /\ [WonNext]_wonVars => Counted'
  <1> SUFFICES ASSUME WonTypes, [WonNext]_wonVars PROVE Counted'
    OBVIOUS
  <1>1. Counted
    BY TypeParts
  <1> USE <1>1, WonAssumption DEF Counted, WonFault, NoWonFault, Moved, ExecIdle, PersonIdle
  <1>2. CASE UNCHANGED wonVars
    BY <1>2 DEF wonVars
  <1>3. ASSUME NEW p \in Person, NEW d \in Deals, NEW status \in Status, Drag(p, d, status) PROVE Counted'
    BY <1>3 DEF Drag
  <1>4. ASSUME NEW p \in Person, StageBack(p) \/ StageWon(p) PROVE Counted'
    BY <1>4 DEF StageBack, StageWon
  <1>5. ASSUME NEW d \in Deals, EditDeal(d) \/ DeleteDeal(d) \/ Prime(d) PROVE Counted'
    BY <1>5 DEF EditDeal, DeleteDeal, Prime
  <1>6. ASSUME NEW d \in Deals, EditAms(d) \/ Appear(d) PROVE Counted'
    BY <1>6 DEF EditAms, Appear
  <1>7. ASSUME NEW e \in Executor, Select(e) \/ Claim(e) \/ Resolve(e) \/ InsertPolicy(e) \/ Link(e) PROVE Counted'
    BY <1>7 DEF Select, Claim, Resolve, InsertPolicy, Link
  <1>8. ASSUME NEW e \in Executor, ReadFresh(e) \/ WriteStage(e) \/ Finish(e) \/ Breaks(e) \/ CloseUnheard(e) \/ Crash(e)
        PROVE  Counted'
    BY <1>8 DEF ReadFresh, WriteStage, Finish, Breaks, CloseUnheard, Crash
  <1>9. ASSUME NEW j \in Entry, Requeue(j) PROVE Counted'
    BY <1>9 DEF Requeue
  <1> QED
    BY <1>2, <1>3, <1>4, <1>5, <1>6, <1>7, <1>8, <1>9 DEF WonNext

LEMMA PeopleStep == WonTypes /\ [WonNext]_wonVars => PeopleTyped'
  <1> SUFFICES ASSUME WonTypes, [WonNext]_wonVars PROVE PeopleTyped'
    OBVIOUS
  <1>1. PeopleTyped /\ DealsTyped
    BY TypeParts
  <1> USE <1>1 DEF PeopleTyped, ExecIdle, PersonIdle
  <1>2. CASE UNCHANGED wonVars
    BY <1>2 DEF wonVars
  <1>3. ASSUME NEW p \in Person, NEW d \in Deals, NEW status \in Status, Drag(p, d, status) PROVE PeopleTyped'
    BY <1>3 DEF Drag, DealsTyped
  <1>4. ASSUME NEW p \in Person, StageBack(p) PROVE PeopleTyped'
    BY <1>4 DEF StageBack
  <1>5. ASSUME NEW p \in Person, StageWon(p) PROVE PeopleTyped'
    BY <1>5 DEF StageWon, Done
  <1>6. ASSUME NEW d \in Deals, EditDeal(d) \/ DeleteDeal(d) \/ Prime(d) \/ EditAms(d) \/ Appear(d) PROVE PeopleTyped'
    BY <1>6 DEF EditDeal, DeleteDeal, Prime, EditAms, Appear
  <1>7. ASSUME NEW e \in Executor, Select(e) \/ Claim(e) \/ Resolve(e) \/ InsertPolicy(e) \/ Link(e) PROVE PeopleTyped'
    BY <1>7 DEF Select, Claim, Resolve, InsertPolicy, Link
  <1>8. ASSUME NEW e \in Executor, ReadFresh(e) \/ WriteStage(e) \/ Finish(e) \/ Breaks(e) \/ CloseUnheard(e) \/ Crash(e)
        PROVE  PeopleTyped'
    BY <1>8 DEF ReadFresh, WriteStage, Finish, Breaks, CloseUnheard, Crash
  <1>9. ASSUME NEW j \in Entry, Requeue(j) PROVE PeopleTyped'
    BY <1>9 DEF Requeue
  <1> QED
    BY <1>2, <1>3, <1>4, <1>5, <1>6, <1>7, <1>8, <1>9 DEF WonNext

LEMMA DealsStep == WonTypes /\ HandInv /\ [WonNext]_wonVars => DealsTyped'
  <1> SUFFICES ASSUME WonTypes, HandInv, [WonNext]_wonVars PROVE DealsTyped'
    OBVIOUS
  <1>1. DealsTyped /\ Counted
    BY TypeParts
  <1> USE <1>1, Bounds DEF DealsTyped
  <1>2. CASE UNCHANGED wonVars
    BY <1>2 DEF wonVars
  <1>3. ASSUME NEW p \in Person, NEW d \in Deals, NEW status \in Status, Drag(p, d, status) PROVE DealsTyped'
    BY <1>3 DEF Drag, HistoryOf
  <1>4. ASSUME NEW p \in Person, StageBack(p) \/ StageWon(p) PROVE DealsTyped'
    BY <1>4 DEF StageBack, StageWon, PersonIdle
  <1>5. ASSUME NEW d \in Deals, EditDeal(d) PROVE DealsTyped'
    <2>1. deal[d].number \in BOOLEAN
      OBVIOUS
    <2>2. deal' \in [Deals -> [there : BOOLEAN, status : Status, mirrored : BOOLEAN,
                              number : BOOLEAN, insured : BOOLEAN, policy : BOOLEAN]]
      <3>1. CASE deal' = [deal EXCEPT ![d].number = ~@]
        BY <2>1, <3>1, ZenonT(60)
      <3>2. ASSUME NEW status \in Status, deal' = [deal EXCEPT ![d].status = status]
            PROVE  deal' \in [Deals -> [there : BOOLEAN, status : Status, mirrored : BOOLEAN,
                                       number : BOOLEAN, insured : BOOLEAN, policy : BOOLEAN]]
        BY <3>2
      <3> QED
        BY <1>5, <3>1, <3>2 DEF EditDeal
    <2> QED
      BY <1>5, <2>2 DEF EditDeal, HistoryOf
  <1>6. ASSUME NEW d \in Deals, DeleteDeal(d) \/ Prime(d) PROVE DealsTyped'
    <2>1. CASE DeleteDeal(d)
      BY <2>1 DEF DeleteDeal
    <2>2. CASE Prime(d)
      BY <2>2 DEF Prime
    <2> QED
      BY <1>6, <2>1, <2>2
  <1>7. ASSUME NEW d \in Deals, EditAms(d) \/ Appear(d) PROVE DealsTyped'
    <2>1. edits < MaxAmsEdits => edits + 1 \in 0..MaxAmsEdits
      BY DEF Counted
    <2>2. CASE EditAms(d)
      <3>1. /\ amsDeal' \in [Deals -> [stage : Status, fields : 0..MaxAmsEdits]]
            /\ latest' \in [Deals -> 0..MaxAmsEdits]
        BY <2>1, <2>2 DEF EditAms
      <3>2. raced' \subseteq Deals
        BY <2>2 DEF EditAms
      <3> QED
        BY <2>2, <3>1, <3>2 DEF EditAms
    <2>3. CASE Appear(d)
      BY <2>3 DEF Appear
    <2> QED
      BY <1>7, <2>2, <2>3
  <1>8. ASSUME NEW e \in Executor,
               Select(e) \/ Claim(e) \/ InsertPolicy(e) \/ ReadFresh(e) \/ Finish(e) \/ CloseUnheard(e) \/ Crash(e)
        PROVE  DealsTyped'
    BY <1>8 DEF Select, Claim, InsertPolicy, ReadFresh, Finish, CloseUnheard, Crash
  \* What an executor's requests do, answered or not.
  <1>9. ASSUME NEW e \in Executor, exec[e].at # "rest", Mint(e), UNCHANGED <<deal, amsDeal, everWon, latest, raced>>
        PROVE  DealsTyped'
    BY <1>9, InHand DEF Mint
  <1>10. ASSUME NEW e \in Executor, Tie(e), UNCHANGED <<amsDeal, insureds, everWon, latest, raced>> PROVE DealsTyped'
    <2>1. exec[e].guid \in BOOLEAN
      BY DEF WonTypes, Errand
    <2> QED
      BY <1>10, <2>1 DEF Tie, Linked
  <1>11. ASSUME NEW e \in Executor, exec[e].at # "rest", PutStage(e), UNCHANGED <<deal, insureds, everWon, latest, raced>>
         PROVE  DealsTyped'
    <2>1. Entered(e).target \in Status /\ Fields(e) \in 0..MaxAmsEdits
      BY <1>11, InHand, ExecFields DEF Fields
    <2>2. amsDeal' \in [Deals -> [stage : Status, fields : 0..MaxAmsEdits]]
      BY <1>11, <2>1 DEF PutStage
    <2> QED
      BY <1>11, <2>2
  <1>13. ASSUME NEW e \in Executor, Resolve(e) \/ Link(e) \/ WriteStage(e) \/ Breaks(e) PROVE DealsTyped'
    <2>1. exec[e].at # "rest" /\ UNCHANGED <<everWon, latest, raced>>
      BY <1>13 DEF Resolve, Link, WriteStage, Breaks
    <2>2. CASE Resolve(e)
      BY <1>9, <2>1, <2>2 DEF Resolve
    <2>3. CASE Link(e)
      BY <1>10, <2>1, <2>3 DEF Link
    <2>4. CASE WriteStage(e)
      BY <1>11, <2>1, <2>4 DEF WriteStage
    <2>5. CASE Breaks(e)
      <3>1. CASE UNCHANGED <<deal, amsDeal, insureds>>
        BY <2>1, <3>1
      <3> QED
        BY <1>9, <1>10, <1>11, <2>1, <2>5, <3>1 DEF Breaks
    <2> QED
      BY <1>13, <2>2, <2>3, <2>4, <2>5
  <1>12. ASSUME NEW j \in Entry, Requeue(j) PROVE DealsTyped'
    BY <1>12 DEF Requeue
  <1> QED
    BY <1>2, <1>3, <1>4, <1>5, <1>6, <1>7, <1>8, <1>13, <1>12 DEF WonNext

\* The rest of the types, and what the executors have in hand.
LEMMA QueueStep == WonTypes /\ HandInv /\ [WonNext]_wonVars => QueueTyped'
  <1> SUFFICES ASSUME WonTypes, HandInv, [WonNext]_wonVars PROVE QueueTyped'
    OBVIOUS
  <1>1. QueueTyped
    BY TypeParts
  <1> USE <1>1 DEF QueueTyped
  <1>2. CASE UNCHANGED <<queue, policies>>
    BY <1>2
  <1>3. ASSUME NEW p \in Person, StageBack(p) \/ StageWon(p) PROVE QueueTyped'
    <2>1. person[p].deal \in Deals /\ person[p].status \in Status /\ person[p].insured \in BOOLEAN
      BY DEF WonTypes, WonTypeOK
    <2>2. UNCHANGED policies
      BY <1>3 DEF StageBack, StageWon, PersonIdle
    <2>3. "back" \in Kind /\ "won" \in Kind /\ "won" \in Status
      BY DEF Kind, Status
    <2>4. CASE UNCHANGED queue
      BY <2>2, <2>4
    <2>5. CASE Stage("back", person[p].deal, person[p].status, person[p].insured)
      BY <2>1, <2>2, <2>3, <2>5, StageRow
    <2>6. CASE Stage("won", person[p].deal, "won", person[p].insured)
      BY <2>1, <2>2, <2>3, <2>6, StageRow
    <2> QED
      BY <1>3, <2>4, <2>5, <2>6 DEF StageBack, StageWon
  <1>4. ASSUME NEW e \in Executor, Claim(e) \/ Finish(e) \/ CloseUnheard(e) PROVE QueueTyped'
    <2>1. UNCHANGED policies
      BY <1>4 DEF Claim, Finish, CloseUnheard
    <2>2. CASE UNCHANGED queue
      BY <2>1, <2>2
    <2>3. ASSUME NEW status \in RowStatus, exec[e].at # "rest", Close(exec[e].entry, status) PROVE QueueTyped'
      BY <2>1, <2>3, CloseRow, InHand
    <2> QED
      BY <1>4, <2>2, <2>3 DEF Claim, Finish, CloseUnheard, RowStatus
  <1>5. ASSUME NEW e \in Executor, InsertPolicy(e) \/ Breaks(e) PROVE QueueTyped'
    <2>1. UNCHANGED queue
      BY <1>5 DEF InsertPolicy, Breaks
    <2>2. policies' \in [Entry -> Nat]
      BY <1>5 DEF InsertPolicy, Breaks, File
    <2> QED
      BY <2>1, <2>2
  <1>6. ASSUME NEW j \in Entry, Requeue(j) PROVE QueueTyped'
    BY <1>6, CloseRow DEF Requeue, RowStatus
  <1>7. ASSUME NEW e \in Executor, Select(e) \/ Resolve(e) \/ Link(e) \/ ReadFresh(e) \/ WriteStage(e) \/ Crash(e)
        PROVE  UNCHANGED <<queue, policies>>
    BY <1>7 DEF Select, Resolve, Link, ReadFresh, WriteStage, Crash
  <1>8. ASSUME NEW d \in Deals, EditDeal(d) \/ DeleteDeal(d) \/ Prime(d) \/ EditAms(d) \/ Appear(d)
        PROVE  UNCHANGED <<queue, policies>>
    BY <1>8 DEF EditDeal, DeleteDeal, Prime, EditAms, Appear
  <1>9. ASSUME NEW p \in Person, NEW d \in Deals, NEW status \in Status, Drag(p, d, status)
        PROVE  UNCHANGED <<queue, policies>>
    BY <1>9 DEF Drag
  <1> QED
    BY <1>2, <1>3, <1>4, <1>5, <1>6, <1>7, <1>8, <1>9 DEF WonNext, wonVars

LEMMA ExecStep == WonTypes /\ HandInv /\ [WonNext]_wonVars => ExecTyped'
  <1> SUFFICES ASSUME WonTypes, HandInv, [WonNext]_wonVars PROVE ExecTyped'
    OBVIOUS
  <1>1. ExecTyped
    BY TypeParts
  <1> USE <1>1 DEF ExecTyped
  <1>2. CASE UNCHANGED exec
    BY <1>2
  <1>3. ASSUME NEW e \in Executor, NEW place \in Working \cup {"rest", "claim"}, Go(e, place) PROVE ExecTyped'
    BY <1>3, GoStep
  <1>4. ASSUME NEW e \in Executor, exec' = [exec EXCEPT ![e] = NotDraining] PROVE ExecTyped'
    <2>1. NotDraining \in Errand
      BY Bounds DEF NotDraining, Errand
    <2> QED
      BY <1>4, <2>1
  <1>5. ASSUME NEW e \in Executor, Select(e) PROVE ExecTyped'
    <2>1. PICK j \in Entry : exec' = [exec EXCEPT ![e] = [NotDraining EXCEPT !.at = "claim", !.entry = j]]
      BY <1>5 DEF Select
    <2> QED
      BY <2>1, RestTyped
  <1>6. ASSUME NEW e \in Executor, InsertPolicy(e) PROVE ExecTyped'
    <2>1. PICK guid \in BOOLEAN : exec' = [exec EXCEPT ![e] = [exec[e] EXCEPT !.at = "link", !.guid = guid]]
      BY <1>6 DEF InsertPolicy
    <2>2. [exec[e] EXCEPT !.at = "link", !.guid = guid] \in Errand
      BY DEF Errand, Working
    <2> QED
      BY <2>1, <2>2
  <1>7. ASSUME NEW e \in Executor, ReadFresh(e) PROVE ExecTyped'
    <2>1. exec' = [exec EXCEPT ![e] = [exec[e] EXCEPT !.at = "write", !.fields = amsDeal[DealOf(e)].fields]]
      BY <1>7 DEF ReadFresh
    <2>2. amsDeal[DealOf(e)].fields \in 0..MaxAmsEdits
      BY <1>7, InHand DEF ReadFresh, WonTypes, WonTypeOK
    <2>3. [exec[e] EXCEPT !.at = "write", !.fields = amsDeal[DealOf(e)].fields] \in Errand
      BY <2>2 DEF Errand, Working
    <2> QED
      BY <2>1, <2>3
  <1>8. ASSUME NEW e \in Executor,
               Claim(e) \/ Resolve(e) \/ Link(e) \/ WriteStage(e) \/ Finish(e) \/ Breaks(e) \/ CloseUnheard(e) \/ Crash(e)
        PROVE  ExecTyped'
    <2>1. \/ exec' = [exec EXCEPT ![e] = NotDraining]
          \/ \E place \in Working : Go(e, place)
      BY <1>8 DEF Claim, Resolve, Link, WriteStage, Finish, Breaks, CloseUnheard, Crash, Working
    <2> QED
      BY <1>3, <1>4, <2>1
  <1>9. ASSUME NEW p \in Person, NEW d \in Deals, NEW status \in Status, Drag(p, d, status) PROVE UNCHANGED exec
    BY <1>9 DEF Drag
  <1>10. ASSUME NEW p \in Person, StageBack(p) \/ StageWon(p) PROVE UNCHANGED exec
    BY <1>10 DEF StageBack, StageWon, PersonIdle
  <1>11. ASSUME NEW d \in Deals, EditDeal(d) \/ DeleteDeal(d) \/ Prime(d) \/ EditAms(d) \/ Appear(d) PROVE UNCHANGED exec
    BY <1>11 DEF EditDeal, DeleteDeal, Prime, EditAms, Appear
  <1>12. ASSUME NEW j \in Entry, Requeue(j) PROVE UNCHANGED exec
    BY <1>12 DEF Requeue
  <1> QED
    BY <1>2, <1>5, <1>6, <1>7, <1>8, <1>9, <1>10, <1>11, <1>12 DEF WonNext, wonVars

LEMMA TypesStep == WonTypes /\ HandInv /\ [WonNext]_wonVars => WonTypes'
  <1>1. DealsTyped' /\ PeopleTyped' /\ QueueTyped' /\ ExecTyped' /\ Counted' => WonTypes'
    BY DEF WonTypes, WonTypeOK, DealsTyped, PeopleTyped, QueueTyped, ExecTyped, Counted, Errand, Working
  <1> QED
    BY <1>1, DealsStep, PeopleStep, QueueStep, ExecStep, CountsStep

-----------------------------------------------------------------------------
(* What a step may do to the rows and to the executors                     *)

\* A row is staged; the executors go on.
Staged == \E j \in Entry, kind \in Kind :
    /\ ~Used(j) /\ queue'[j] # Unused /\ queue'[j].kind = kind /\ queue'[j].status = "queued" /\ queue'[j].deal \in Deals
    /\ kind = "won" => queue'[j].deal \in everWon
    /\ \A i \in Entry : i # j => queue'[i] = queue[i]
    /\ UNCHANGED <<exec, policies, deal, amsDeal, everWon, latest, raced>>

\* The rows, the executors and what they filed stay.
RowsKept == UNCHANGED <<queue, exec, policies>>

\* A move, an edit or a deletion of a deal, or an edit in NowCerts.
Outside ==
    \/ \E p \in Person, d \in Deals, status \in Status : Drag(p, d, status)
    \/ \E d \in Deals : EditDeal(d) \/ DeleteDeal(d) \/ Prime(d) \/ EditAms(d) \/ Appear(d)
    \/ \E p \in Person : (StageBack(p) \/ StageWon(p)) /\ UNCHANGED queue
    \/ UNCHANGED wonVars

LEMMA OutsideKeepsRows == Outside => RowsKept
  BY DEF Outside, RowsKept, Drag, EditDeal, DeleteDeal, Prime, EditAms, Appear, StageBack, StageWon, PersonIdle, wonVars

LEMMA StagedOrOutside ==
    ASSUME WonTypes, WonInv, NEW p \in Person, StageBack(p) \/ StageWon(p)
    PROVE  Staged \/ Outside
  <1>1. person[p].deal \in Deals /\ person[p].status \in Status /\ person[p].insured \in BOOLEAN
    BY DEF WonTypes, WonTypeOK
  <1>2. "back" \in Kind /\ "won" \in Kind /\ "won" \in Status
    BY DEF Kind, Status
  <1>3. UNCHANGED <<exec, policies, deal, amsDeal, everWon, latest, raced>>
    BY DEF StageBack, StageWon, PersonIdle
  <1>4. CASE UNCHANGED queue
    BY <1>4 DEF Outside
  <1>5. CASE Stage("back", person[p].deal, person[p].status, person[p].insured)
    <2>1. PICK j \in Entry :
              /\ ~Used(j) /\ queue'[j] # Unused
              /\ queue'[j].kind = "back" /\ queue'[j].deal = person[p].deal /\ queue'[j].status = "queued"
              /\ \A i \in Entry : i # j => queue'[i] = queue[i]
      BY <1>1, <1>2, <1>5, StageRow
    <2> QED
      BY <1>1, <1>2, <1>3, <2>1 DEF Staged
  <1>6. CASE StageWon(p) /\ Pushable(person[p]) /\ Stage("won", person[p].deal, "won", person[p].insured)
    <2>1. person[p].deal \in everWon
      BY <1>6 DEF Pushable, WonInv, StagerWon, StageWon
    <2>2. PICK j \in Entry :
              /\ ~Used(j) /\ queue'[j] # Unused
              /\ queue'[j].kind = "won" /\ queue'[j].deal = person[p].deal /\ queue'[j].status = "queued"
              /\ \A i \in Entry : i # j => queue'[i] = queue[i]
      BY <1>1, <1>2, <1>6, StageRow
    <2> QED
      BY <1>1, <1>2, <1>3, <2>1, <2>2 DEF Staged
  <1> QED
    BY <1>4, <1>5, <1>6 DEF StageBack, StageWon

\* Steps of an executor leave the rows alone.
Step(e) == Select(e) \/ Resolve(e) \/ InsertPolicy(e) \/ Link(e) \/ ReadFresh(e) \/ WriteStage(e) \/ Breaks(e) \/ Crash(e)

\* Every step is one of these, or closes or queues a row.
LEMMA Steps ==
    ASSUME WonTypes, WonInv, [WonNext]_wonVars
    PROVE  \/ Staged \/ Outside
           \/ \E e \in Executor : Step(e) \/ Claim(e) \/ Finish(e) \/ CloseUnheard(e)
           \/ \E j \in Entry : Requeue(j)
  BY StagedOrOutside DEF WonNext, Outside, Step

-----------------------------------------------------------------------------
(* Rows in hand                                                            *)

LEMMA HandStep == RowsInv /\ WonInv /\ [WonNext]_wonVars => HandInv'
  <1> SUFFICES ASSUME RowsInv, WonInv, [WonNext]_wonVars, NEW f \in Executor PROVE Hand(f)'
    BY DEF HandInv
  <1>1. WonTypes /\ HandInv /\ AloneInv /\ Hand(f)
    BY DEF RowsInv, HandInv
  <1> USE <1>1
  <1>2. CASE Outside
    BY <1>2, OutsideKeepsRows DEF RowsKept, Hand, Entered, Used
  <1>3. CASE Staged
    <2>1. exec[f].at # "rest" => queue'[exec[f].entry] = queue[exec[f].entry] /\ exec' = exec
      BY <1>3 DEF Staged, Hand
    <2>2. exec' = exec
      BY <1>3 DEF Staged
    <2> QED
      BY <2>1, <2>2 DEF Hand, Entered, Used
  <1>4. ASSUME NEW e \in Executor, Select(e) PROVE Hand(f)'
    <2>1. PICK j \in Entry : Queued(j) /\ exec' = [exec EXCEPT ![e] = [NotDraining EXCEPT !.at = "claim", !.entry = j]]
      BY <1>4 DEF Select
    <2>2. UNCHANGED queue
      BY <1>4 DEF Select
    <2>3. exec'[f] = IF f = e THEN [NotDraining EXCEPT !.at = "claim", !.entry = j] ELSE exec[f]
      BY <2>1 DEF WonTypes
    <2>4. (exec'[f].at = "claim" /\ exec'[f].entry = j) \/ exec'[f] = exec[f]
      BY <2>3 DEF NotDraining
    <2> QED
      BY <2>1, <2>2, <2>4 DEF Hand, Entered, Used, Queued, Working
  <1>5. ASSUME NEW e \in Executor, exec'[e].at = "rest", \A g \in Executor : g # e => exec'[g] = exec[g], UNCHANGED queue
        PROVE  Hand(f)'
    BY <1>5 DEF Hand, Entered, Used
  <1>6. ASSUME NEW e \in Executor, Claim(e) PROVE Hand(f)'
    <2>1. CASE UNCHANGED queue /\ exec' = [exec EXCEPT ![e] = NotDraining]
      BY <1>5, <2>1 DEF NotDraining, WonTypes
    <2>2. CASE /\ Claimable(exec[e].entry) /\ Close(exec[e].entry, "processing")
               /\ Go(e, IF Entered(e).kind = "won" THEN "insured" ELSE "fresh")
      <3>1. exec[e].at # "rest" /\ "processing" \in RowStatus
        BY <1>6 DEF Claim, RowStatus
      <3>2. /\ \A i \in Entry : /\ (queue'[i] # Unused) <=> (queue[i] # Unused)
                                /\ queue'[i].kind = queue[i].kind
                                /\ i # exec[e].entry => queue'[i] = queue[i]
            /\ queue'[exec[e].entry].status = "processing"
        BY <2>2, <3>1, InHand, CloseRow
      <3>3. /\ exec'[e].at = IF Entered(e).kind = "won" THEN "insured" ELSE "fresh"
            /\ exec'[e].entry = exec[e].entry /\ \A g \in Executor : g # e => exec'[g] = exec[g]
        BY <2>2, GoStep DEF Working
      <3>4. Entered(e).kind \in Kind /\ exec[e].entry \in Entry /\ Used(exec[e].entry)
        BY <3>1, InHand
      <3>5. CASE f = e
        <4>1. PICK j \in Entry : j = exec[e].entry
          BY <3>4
        <4>2. exec'[f].entry = j
          BY <3>3, <3>5, <4>1
        <4>3. queue'[j] # Unused /\ queue'[j].kind \in Kind
          BY <3>2, <3>4, <4>1 DEF Entered, Used
        <4>4. queue'[j].status = "processing"
          BY <3>2, <4>1
        <4>5. exec'[f].at = IF queue'[j].kind = "won" THEN "insured" ELSE "fresh"
          BY <3>2, <3>3, <3>4, <3>5, <4>1 DEF Entered
        <4> QED
          BY <4>1, <4>2, <4>3, <4>4, <4>5 DEF Hand, Entered, Kind, Used
      <3>6. CASE f # e
        <4>1. exec'[f] = exec[f]
          BY <3>3, <3>6
        <4>2. CASE exec[f].at = "rest"
          BY <4>1, <4>2 DEF Hand
        <4>3. CASE exec[f].at # "rest"
          <5>1. PICK j \in Entry : j = exec[f].entry
            BY <4>3 DEF Hand
          <5>2. queue[j] # Unused /\ queue'[j] # Unused /\ queue'[j].kind = queue[j].kind
            BY <3>2, <4>3, <5>1 DEF Hand, Used
          <5>3. /\ exec[f].at \in Working \ {"doubt"} => queue'[j].status = "processing"
                /\ exec[f].at = "doubt" => queue'[j].status = "completed"
            <6>1. exec[f].at = "doubt" => j # exec[e].entry
              BY <1>6, <2>2, <4>3, <5>1 DEF Claim, Claimable, Hand, Entered
            <6> QED
              BY <3>2, <4>3, <5>1, <6>1 DEF Hand, Entered
          <5> QED
            BY <4>1, <4>3, <5>1, <5>2, <5>3 DEF Hand, Entered, Used
        <4> QED
          BY <4>2, <4>3
      <3> QED
        BY <3>5, <3>6
    <2> QED
      BY <1>6, <2>1, <2>2 DEF Claim
  <1>7. ASSUME NEW e \in Executor, Resolve(e) \/ InsertPolicy(e) \/ Link(e) \/ ReadFresh(e) \/ WriteStage(e) \/ Breaks(e)
        PROVE  Hand(f)'
    <2>1. UNCHANGED queue /\ exec[e].at \in Working \ {"doubt"}
      BY <1>7 DEF Resolve, InsertPolicy, Link, ReadFresh, WriteStage, Breaks, Working
    <2>2. /\ exec'[e].entry = exec[e].entry /\ \A g \in Executor : g # e => exec'[g] = exec[g]
          /\ exec'[e].at \in Working \ {"doubt"}
          /\ exec'[e].at = "policy" => exec[e].at = "insured"
          /\ exec'[e].at = "link" => exec[e].at = "policy"
          /\ exec'[e].at = "write" => exec[e].at = "fresh"
          /\ exec'[e].at \notin {"insured", "fresh"}
      BY <1>7 DEF Resolve, InsertPolicy, Link, ReadFresh, WriteStage, Breaks, Go, Working, WonTypes, Errand
    <2>3. CASE f = e
      BY <2>1, <2>2, <2>3 DEF Hand, Entered, Used, Working
    <2>4. CASE f # e
      BY <2>1, <2>2, <2>4 DEF Hand, Entered, Used
    <2> QED
      BY <2>3, <2>4
  \* An executor that closes its row, whatever it hears of it.
  <1>8. ASSUME NEW e \in Executor, exec[e].at \in Working, NEW status \in RowStatus, Close(exec[e].entry, status),
               \A g \in Executor : g # e => exec'[g] = exec[g],
               exec'[e].at = "rest" \/ (exec'[e].at = "doubt" /\ exec'[e].entry = exec[e].entry /\ status = "completed")
        PROVE  Hand(f)'
    <2>1. exec[e].at # "rest"
      BY <1>8 DEF Working
    <2>2. PICK i \in Entry : i = exec[e].entry /\ queue[i] # Unused
      BY <2>1, InHand DEF Used
    <2>3. /\ \A k \in Entry : k # i => queue'[k] = queue[k]
          /\ queue'[i] # Unused /\ queue'[i].kind = queue[i].kind /\ queue'[i].status = status
      BY <1>8, <2>2, CloseRow DEF Used
    <2>4. CASE f = e
      BY <1>8, <2>2, <2>3, <2>4 DEF Hand, Entered, Used
    <2>5. CASE f # e
      <3>1. exec[f].at \in Working => exec[f].entry # i
        BY <1>8, <2>2, <2>5 DEF AloneInv
      <3>2. exec'[f] = exec[f]
        BY <1>8, <2>5
      <3>3. CASE exec[f].at = "rest"
        BY <3>2, <3>3 DEF Hand
      <3>4. CASE exec[f].at # "rest"
        <4>1. PICK j \in Entry : j = exec[f].entry
          BY <3>4 DEF Hand
        <4>2. queue[j] # Unused /\ queue'[j] # Unused /\ queue'[j].kind = queue[j].kind
          BY <2>3, <3>4, <4>1 DEF Hand, Used
        <4>3. exec[f].at \in Working => queue'[j] = queue[j]
          BY <2>3, <3>1, <4>1
        <4> QED
          BY <3>2, <3>4, <4>1, <4>2, <4>3 DEF Hand, Entered, Used, Working
      <3> QED
        BY <3>3, <3>4
    <2> QED
      BY <2>4, <2>5
  <1>11. ASSUME NEW e \in Executor, Finish(e) \/ CloseUnheard(e) PROVE Hand(f)'
    <2>1. exec[e].at \in Working
      BY <1>11 DEF Finish, CloseUnheard, Working
    <2>2. CASE Finish(e)
      <3>1. exec'[e].at = "rest" /\ \A g \in Executor : g # e => exec'[g] = exec[g]
        BY <2>2 DEF Finish, NotDraining, WonTypes
      <3>2. PICK status \in RowStatus : Close(exec[e].entry, status)
        BY <2>2 DEF Finish, RowStatus
      <3> QED
        BY <1>8, <2>1, <3>1, <3>2
    <2>3. CASE CloseUnheard(e)
      <3>1. exec'[e].at = "doubt" /\ exec'[e].entry = exec[e].entry /\ \A g \in Executor : g # e => exec'[g] = exec[g]
        BY <2>3, GoStep DEF CloseUnheard, Working
      <3>2. "completed" \in RowStatus /\ Close(exec[e].entry, "completed")
        BY <2>3 DEF CloseUnheard, RowStatus
      <3> QED
        BY <1>8, <2>1, <3>1, <3>2
    <2> QED
      BY <1>11, <2>2, <2>3
  <1>9. ASSUME NEW e \in Executor, Crash(e) PROVE Hand(f)'
    BY <1>5, <1>9 DEF Crash, NotDraining, WonTypes
  <1>10. ASSUME NEW j \in Entry, Requeue(j) PROVE Hand(f)'
    <2>1. Used(j) /\ Close(j, "queued") /\ UNCHANGED exec /\ "queued" \in RowStatus
      BY <1>10 DEF Requeue, RowStatus
    <2>2. \A i \in Entry : i # j => queue'[i] = queue[i]
      BY <2>1, CloseRow
    <2>3. exec[f].at # "rest" => exec[f].entry # j
      BY <1>10 DEF Requeue, Worked
    <2> QED
      BY <2>1, <2>2, <2>3 DEF Hand, Entered, Used
  <1> QED
    BY <1>1, <1>2, <1>3, <1>4, <1>6, <1>7, <1>9, <1>10, <1>11, Steps DEF Step

LEMMA AloneStep == RowsInv /\ WonInv /\ [WonNext]_wonVars => AloneInv'
  <1> SUFFICES ASSUME RowsInv, WonInv, [WonNext]_wonVars PROVE AloneInv'
    OBVIOUS
  <1>1. WonTypes /\ HandInv /\ AloneInv
    BY DEF RowsInv
  <1> USE <1>1
  <1>2. ASSUME NEW e \in Executor, exec'[e].at \in Working => exec'[e].entry = exec[e].entry /\ exec[e].at \in Working,
               \A g \in Executor : g # e => exec'[g] = exec[g]
        PROVE  AloneInv'
    BY <1>2 DEF AloneInv
  <1>3. CASE UNCHANGED exec
    BY <1>3 DEF AloneInv
  <1>4. ASSUME NEW e \in Executor,
               Select(e) \/ Resolve(e) \/ InsertPolicy(e) \/ Link(e) \/ ReadFresh(e) \/ WriteStage(e)
               \/ Finish(e) \/ Breaks(e) \/ CloseUnheard(e) \/ Crash(e)
        PROVE  AloneInv'
    <2>1. \A g \in Executor : g # e => exec'[g] = exec[g]
      BY <1>4 DEF Select, Resolve, InsertPolicy, Link, ReadFresh, WriteStage, Finish, Breaks, CloseUnheard, Crash, Go, WonTypes
    <2>2. CASE Select(e) \/ Finish(e) \/ Crash(e)
      <3>1. exec'[e].at \in {"rest", "claim"}
        <4>1. CASE Select(e)
          <5>1. PICK j \in Entry : exec'[e] = [NotDraining EXCEPT !.at = "claim", !.entry = j]
            BY <4>1 DEF Select, WonTypes
          <5> QED
            BY <5>1 DEF NotDraining
        <4>2. CASE Finish(e) \/ Crash(e)
          BY <4>2 DEF Finish, Crash, NotDraining, WonTypes
        <4> QED
          BY <2>2, <4>1, <4>2
      <3>2. exec'[e].at \notin Working
        BY <3>1 DEF Working
      <3> QED
        BY <1>2, <2>1, <3>2
    <2>3. CASE Resolve(e) \/ InsertPolicy(e) \/ Link(e) \/ ReadFresh(e) \/ WriteStage(e) \/ Breaks(e) \/ CloseUnheard(e)
      <3>1. exec[e].at \in Working /\ exec'[e].entry = exec[e].entry
        BY <2>3 DEF Resolve, InsertPolicy, Link, ReadFresh, WriteStage, Breaks, CloseUnheard, Go, Working, WonTypes, Errand
      <3> QED
        BY <1>2, <2>1, <3>1
    <2> QED
      BY <1>4, <2>2, <2>3
  <1>5. ASSUME NEW e \in Executor, Claim(e) PROVE AloneInv'
    <2>1. CASE exec' = [exec EXCEPT ![e] = NotDraining]
      BY <1>2, <2>1 DEF NotDraining, Working, WonTypes
    <2>2. CASE queue[exec[e].entry].status = "queued" /\ Go(e, IF Entered(e).kind = "won" THEN "insured" ELSE "fresh")
      <3>1. exec'[e].entry = exec[e].entry /\ \A g \in Executor : g # e => exec'[g] = exec[g]
        BY <2>2, GoStep DEF Working
      <3>2. \A g \in Executor : exec[g].at \in Working => exec[g].entry # exec[e].entry
        BY <2>2 DEF HandInv, Hand, Entered, Working
      <3> QED
        BY <3>1, <3>2 DEF AloneInv
    <2> QED
      BY <1>5, <2>1, <2>2 DEF Claim, Claimable
  <1>6. Outside \/ Staged \/ (\E j \in Entry : Requeue(j)) => UNCHANGED exec
    BY OutsideKeepsRows DEF RowsKept, Staged, Requeue
  <1> QED
    BY <1>1, <1>3, <1>4, <1>5, <1>6, Steps DEF Step

-----------------------------------------------------------------------------
(* What is filed                                                           *)

\* The row that an executor has in hand and what it does to it, in one place.
LEMMA ClaimRow ==
    ASSUME RowsInv, NEW e \in Executor, Claim(e)
    PROVE  /\ UNCHANGED <<policies, deal, amsDeal, everWon, latest, raced, person>>
           /\ \A f \in Executor : f # e => exec'[f] = exec[f]
           /\ \/ UNCHANGED queue /\ exec'[e].at = "rest"
              \/ \E j \in Entry :
                    /\ j = exec[e].entry /\ exec'[e].entry = j
                    /\ queue[j] # Unused /\ queue[j].status = "queued"
                    /\ queue'[j] # Unused /\ queue'[j].status = "processing"
                    /\ queue'[j].kind = queue[j].kind /\ queue'[j].deal = queue[j].deal
                    /\ \A i \in Entry : i # j => queue'[i] = queue[i]
                    /\ exec'[e].at = IF queue[j].kind = "won" THEN "insured" ELSE "fresh"
                    /\ \A f \in Executor : exec[f].at \in Working => exec[f].entry # j
  <1>1. WonTypes /\ HandInv /\ exec[e].at # "rest"
    BY DEF RowsInv, Claim
  <1>2. UNCHANGED <<policies, deal, amsDeal, everWon, latest, raced, person>>
    BY DEF Claim, ExecIdle
  <1>3. CASE UNCHANGED queue /\ exec' = [exec EXCEPT ![e] = NotDraining]
    BY <1>1, <1>2, <1>3 DEF NotDraining, WonTypes
  <1>4. CASE /\ queue[exec[e].entry].status = "queued" /\ Close(exec[e].entry, "processing")
             /\ Go(e, IF Entered(e).kind = "won" THEN "insured" ELSE "fresh")
    <2>1. PICK j \in Entry : j = exec[e].entry /\ queue[j] # Unused
      BY <1>1, InHand DEF Used
    <2>2. /\ queue'[j] # Unused /\ queue'[j].status = "processing"
          /\ queue'[j].kind = queue[j].kind /\ queue'[j].deal = queue[j].deal
          /\ \A i \in Entry : i # j => queue'[i] = queue[i]
      BY <1>1, <1>4, <2>1, CloseRow DEF Used, RowStatus
    <2>3. /\ exec'[e].at = IF queue[j].kind = "won" THEN "insured" ELSE "fresh"
          /\ exec'[e].entry = j /\ \A f \in Executor : f # e => exec'[f] = exec[f]
      BY <1>1, <1>4, <2>1, GoStep DEF Working, Entered
    <2>4. \A f \in Executor : exec[f].at \in Working => exec[f].entry # j
      BY <1>1, <1>4, <2>1 DEF HandInv, Hand, Entered, Working
    <2> QED
      BY <1>2, <1>4, <2>1, <2>2, <2>3, <2>4
  <1> QED
    BY <1>3, <1>4 DEF Claim, Claimable

LEMMA FinishRow ==
    ASSUME RowsInv, NEW e \in Executor, Finish(e)
    PROVE  /\ UNCHANGED <<policies, deal, amsDeal, everWon, latest, raced, person>>
           /\ \A f \in Executor : f # e => exec'[f] = exec[f]
           /\ exec'[e].at = "rest" /\ exec[e].at \in {"close", "failed", "doubt"}
           /\ \E j \in Entry :
                 /\ j = exec[e].entry /\ queue[j] # Unused
                 /\ queue[j].status = IF exec[e].at = "doubt" THEN "completed" ELSE "processing"
                 /\ queue'[j] # Unused /\ queue'[j].kind = queue[j].kind /\ queue'[j].deal = queue[j].deal
                 /\ queue'[j].status = IF exec[e].at = "close" THEN "completed" ELSE "failed"
                 /\ \A i \in Entry : i # j => queue'[i] = queue[i]
                 /\ \A f \in Executor : exec[f].at \in Working /\ f # e => exec[f].entry # j
  <1>1. WonTypes /\ HandInv /\ AloneInv /\ exec[e].at # "rest" /\ exec[e].at \in Working
    BY DEF RowsInv, Finish, Working
  <1>2. UNCHANGED <<policies, deal, amsDeal, everWon, latest, raced, person>>
    BY DEF Finish, ExecIdle
  <1>3. PICK j \in Entry : /\ j = exec[e].entry /\ queue[j] # Unused
                           /\ queue[j].status = IF exec[e].at = "doubt" THEN "completed" ELSE "processing"
    BY <1>1 DEF HandInv, Hand, Entered, Used
  <1>4. PICK status \in RowStatus : /\ status = IF exec[e].at = "close" THEN "completed" ELSE "failed"
                                    /\ Close(j, status)
    BY <1>3 DEF Finish, RowStatus
  <1>5. /\ queue'[j] # Unused /\ queue'[j].kind = queue[j].kind /\ queue'[j].deal = queue[j].deal
        /\ queue'[j].status = status /\ \A i \in Entry : i # j => queue'[i] = queue[i]
    BY <1>1, <1>3, <1>4, CloseRow DEF Used
  <1>6. exec'[e].at = "rest" /\ \A f \in Executor : f # e => exec'[f] = exec[f]
    BY <1>1 DEF Finish, NotDraining, WonTypes
  <1>7. \A f \in Executor : exec[f].at \in Working /\ f # e => exec[f].entry # j
    BY <1>1, <1>3 DEF AloneInv
  <1>8. exec[e].at \in {"close", "failed", "doubt"}
    BY DEF Finish
  <1> QED
    BY <1>2, <1>3, <1>4, <1>5, <1>6, <1>7, <1>8

LEMMA UnheardRow ==
    ASSUME RowsInv, NEW e \in Executor, CloseUnheard(e)
    PROVE  /\ UNCHANGED <<policies, deal, amsDeal, everWon, latest, raced, person>>
           /\ \A f \in Executor : f # e => exec'[f] = exec[f]
           /\ exec'[e].at = "doubt" /\ exec'[e].entry = exec[e].entry /\ exec[e].at = "close"
           /\ \E j \in Entry :
                 /\ j = exec[e].entry /\ queue[j] # Unused /\ queue[j].status = "processing"
                 /\ queue'[j] # Unused /\ queue'[j].kind = queue[j].kind /\ queue'[j].deal = queue[j].deal
                 /\ queue'[j].status = "completed"
                 /\ \A i \in Entry : i # j => queue'[i] = queue[i]
                 /\ \A f \in Executor : exec[f].at \in Working /\ f # e => exec[f].entry # j
  <1>1. WonTypes /\ HandInv /\ AloneInv /\ exec[e].at = "close" /\ exec[e].at \in Working
    BY DEF RowsInv, CloseUnheard, Working
  <1>2. UNCHANGED <<policies, deal, amsDeal, everWon, latest, raced, person>>
    BY DEF CloseUnheard, ExecIdle
  <1>3. PICK j \in Entry : j = exec[e].entry /\ queue[j] # Unused /\ queue[j].status = "processing"
    BY <1>1 DEF HandInv, Hand, Entered, Used
  <1>4. "completed" \in RowStatus /\ Close(j, "completed")
    BY <1>3 DEF CloseUnheard, RowStatus
  <1>5. /\ queue'[j] # Unused /\ queue'[j].kind = queue[j].kind /\ queue'[j].deal = queue[j].deal
        /\ queue'[j].status = "completed" /\ \A i \in Entry : i # j => queue'[i] = queue[i]
    BY <1>1, <1>3, <1>4, CloseRow DEF Used
  <1>6. exec'[e].at = "doubt" /\ exec'[e].entry = exec[e].entry /\ \A f \in Executor : f # e => exec'[f] = exec[f]
    BY <1>1, GoStep DEF CloseUnheard, Working
  <1>7. \A f \in Executor : exec[f].at \in Working /\ f # e => exec[f].entry # j
    BY <1>1, <1>3 DEF AloneInv
  <1> QED
    BY <1>1, <1>2, <1>3, <1>5, <1>6, <1>7

LEMMA RequeueRow ==
    ASSUME RowsInv, NEW j \in Entry, Requeue(j)
    PROVE  /\ UNCHANGED <<policies, deal, amsDeal, everWon, latest, raced, person, exec>>
           /\ queue[j] # Unused /\ queue[j].kind = "back"
           /\ queue'[j] # Unused /\ queue'[j].kind = "back" /\ queue'[j].deal = queue[j].deal
           /\ \A i \in Entry : i # j => queue'[i] = queue[i]
           /\ \A f \in Executor : exec[f].at # "rest" => exec[f].entry # j
  <1>1. WonTypes /\ Used(j) /\ Close(j, "queued")
    BY DEF RowsInv, Requeue
  <1>2. UNCHANGED <<policies, deal, amsDeal, everWon, latest, raced, person, exec>> /\ queue[j].kind = "back"
    BY DEF Requeue, Retried
  <1>3. \A f \in Executor : exec[f].at # "rest" => exec[f].entry # j
    BY DEF Requeue, Worked
  <1> QED
    BY <1>1, <1>2, <1>3, CloseRow DEF RowStatus, Used

LEMMA StepRow ==
    ASSUME RowsInv, NEW e \in Executor, Step(e)
    PROVE  /\ UNCHANGED <<queue, everWon, latest, raced, person>> /\ \A f \in Executor : f # e => exec'[f] = exec[f]
           /\ exec'[e].at \in {"rest", "claim"} \/ (exec'[e].entry = exec[e].entry /\ exec[e].at \in Working)
  <1>1. WonTypes
    BY DEF RowsInv
  <1>2. CASE Select(e)
    <2>1. PICK j \in Entry : exec' = [exec EXCEPT ![e] = [NotDraining EXCEPT !.at = "claim", !.entry = j]]
      BY <1>2 DEF Select
    <2>2. exec'[e].at = "claim" /\ \A f \in Executor : f # e => exec'[f] = exec[f]
      BY <1>1, <2>1 DEF NotDraining, WonTypes
    <2> QED
      BY <1>2, <2>2 DEF Select, ExecIdle
  <1>3. CASE Crash(e)
    BY <1>1, <1>3 DEF Crash, NotDraining, ExecIdle, WonTypes
  <1>4. CASE Resolve(e) \/ InsertPolicy(e) \/ Link(e) \/ ReadFresh(e) \/ WriteStage(e) \/ Breaks(e)
    BY <1>1, <1>4 DEF Resolve, InsertPolicy, Link, ReadFresh, WriteStage, Breaks, Go, ExecIdle, Working, WonTypes, Errand
  <1> QED
    BY <1>2, <1>3, <1>4 DEF Step

LEMMA FiledStep == RowsInv /\ WonInv /\ FiledInv /\ [WonNext]_wonVars => FiledInv'
  <1> SUFFICES ASSUME RowsInv, WonInv, FiledInv, [WonNext]_wonVars PROVE FiledInv'
    OBVIOUS
  <1>1. WonTypes /\ HandInv /\ AloneInv
    BY DEF RowsInv
  <1>2. CASE Outside
    BY <1>2, OutsideKeepsRows DEF RowsKept, FiledInv, FiledRow, FiledBy, IsWon, Entered, Used
  <1>3. CASE Staged
    <2>1. PICK j \in Entry : /\ queue[j] = Unused /\ queue'[j] # Unused /\ queue'[j].status = "queued"
                             /\ \A i \in Entry : i # j => queue'[i] = queue[i]
      BY <1>3 DEF Staged, Used
    <2>2. UNCHANGED <<exec, policies>>
      BY <1>3 DEF Staged
    <2>3. policies[j] = 0
      BY <2>1 DEF FiledInv, FiledRow, IsWon, Used
    <2>4. ASSUME NEW i \in Entry PROVE FiledRow(i)'
      BY <2>1, <2>2, <2>3 DEF FiledInv, FiledRow, IsWon, Used
    <2>5. ASSUME NEW f \in Executor PROVE FiledBy(f)'
      <3>1. exec[f].at # "rest" => queue'[exec[f].entry] = queue[exec[f].entry]
        BY <1>1, <2>1 DEF HandInv, Hand, Used
      <3> QED
        BY <2>2, <3>1 DEF FiledInv, FiledBy, Entered
    <2> QED
      BY <2>4, <2>5 DEF FiledInv
  <1>4. ASSUME NEW e \in Executor, Claim(e) PROVE FiledInv'
    <2>1. /\ UNCHANGED policies /\ \A f \in Executor : f # e => exec'[f] = exec[f]
          /\ \/ UNCHANGED queue /\ exec'[e].at = "rest"
             \/ \E j \in Entry :
                   /\ j = exec[e].entry /\ exec'[e].entry = j /\ queue[j] # Unused /\ queue[j].status = "queued"
                   /\ queue'[j] # Unused /\ queue'[j].status = "processing" /\ queue'[j].kind = queue[j].kind
                   /\ \A i \in Entry : i # j => queue'[i] = queue[i]
                   /\ exec'[e].at = IF queue[j].kind = "won" THEN "insured" ELSE "fresh"
                   /\ \A f \in Executor : exec[f].at \in Working => exec[f].entry # j
      BY <1>4, ClaimRow
    <2>2. CASE UNCHANGED queue /\ exec'[e].at = "rest"
      <3>1. ASSUME NEW f \in Executor PROVE FiledBy(f)'
        BY <2>1, <2>2 DEF FiledInv, FiledBy, Entered
      <3> QED
        BY <2>1, <2>2, <3>1 DEF FiledInv, FiledRow, IsWon, Used
    <2>3. ASSUME NEW j \in Entry, j = exec[e].entry, exec'[e].entry = j, queue[j] # Unused, queue[j].status = "queued",
                 queue'[j] # Unused, queue'[j].status = "processing", queue'[j].kind = queue[j].kind,
                 \A i \in Entry : i # j => queue'[i] = queue[i],
                 exec'[e].at = IF queue[j].kind = "won" THEN "insured" ELSE "fresh",
                 \A f \in Executor : exec[f].at \in Working => exec[f].entry # j
          PROVE  FiledInv'
      <3>1. policies[j] = 0
        BY <2>3 DEF FiledInv, FiledRow
      <3>2. ASSUME NEW i \in Entry PROVE FiledRow(i)'
        BY <2>1, <2>3, <3>1 DEF FiledInv, FiledRow, IsWon, Used
      <3>3. ASSUME NEW f \in Executor PROVE FiledBy(f)'
        <4>1. CASE f = e
          BY <2>1, <2>3, <3>1, <4>1 DEF FiledBy
        <4>2. CASE f # e
          <5>1. exec'[f] = exec[f] /\ (exec[f].at \in Working => queue'[exec[f].entry] = queue[exec[f].entry])
            BY <1>1, <2>1, <2>3, <4>2 DEF HandInv, Hand, Working
          <5> QED
            BY <2>1, <5>1 DEF FiledInv, FiledBy, Entered, Working
        <4> QED
          BY <4>1, <4>2
      <3> QED
        BY <3>2, <3>3 DEF FiledInv
    <2> QED
      BY <2>1, <2>2, <2>3
  <1>5. ASSUME NEW e \in Executor, Finish(e) \/ CloseUnheard(e) PROVE FiledInv'
    <2>1. PICK j \in Entry :
                 /\ j = exec[e].entry /\ queue[j] # Unused /\ queue'[j] # Unused /\ queue'[j].kind = queue[j].kind
                 /\ queue[j].status # "queued" /\ queue'[j].status # "queued"
                 /\ queue'[j].status = "completed" => exec[e].at = "close"
                 /\ \A i \in Entry : i # j => queue'[i] = queue[i]
                 /\ \A f \in Executor : exec[f].at \in Working /\ f # e => exec[f].entry # j
      <3>1. CASE Finish(e)
        BY <3>1, FinishRow
      <3>2. CASE CloseUnheard(e)
        BY <3>2, UnheardRow
      <3> QED
        BY <1>5, <3>1, <3>2
    <2>2. /\ UNCHANGED policies /\ exec'[e].at \in {"rest", "doubt"}
          /\ \A f \in Executor : f # e => exec'[f] = exec[f]
      BY <1>5, FinishRow, UnheardRow
    <2>3. exec[e].at = "close" /\ queue[j].kind = "won" => policies[j] = 1
      BY <2>1 DEF FiledInv, FiledBy, Entered
    <2>4. ASSUME NEW i \in Entry PROVE FiledRow(i)'
      BY <2>1, <2>2, <2>3 DEF FiledInv, FiledRow, IsWon, Used
    <2>5. ASSUME NEW f \in Executor PROVE FiledBy(f)'
      <3>1. CASE f = e
        BY <2>2, <3>1 DEF FiledBy
      <3>2. CASE f # e
        <4>1. exec'[f] = exec[f] /\ (exec[f].at \in Working => queue'[exec[f].entry] = queue[exec[f].entry])
          BY <1>1, <2>1, <2>2, <3>2 DEF HandInv, Hand, Working
        <4> QED
          BY <2>2, <4>1 DEF FiledInv, FiledBy, Entered, Working
      <3> QED
        BY <3>1, <3>2
    <2> QED
      BY <2>4, <2>5 DEF FiledInv
  <1>6. ASSUME NEW j \in Entry, Requeue(j) PROVE FiledInv'
    <2>1. /\ UNCHANGED <<policies, exec>> /\ queue[j].kind = "back" /\ queue'[j].kind = "back"
          /\ \A i \in Entry : i # j => queue'[i] = queue[i]
          /\ \A f \in Executor : exec[f].at # "rest" => exec[f].entry # j
      BY <1>6, RequeueRow
    <2>2. ASSUME NEW i \in Entry PROVE FiledRow(i)'
      BY <2>1 DEF FiledInv, FiledRow, IsWon, Used
    <2>3. ASSUME NEW f \in Executor PROVE FiledBy(f)'
      <3>1. exec[f].at # "rest" => queue'[exec[f].entry] = queue[exec[f].entry]
        BY <1>1, <2>1 DEF HandInv, Hand
      <3> QED
        BY <2>1, <3>1 DEF FiledInv, FiledBy, Entered
    <2> QED
      BY <2>2, <2>3 DEF FiledInv
  <1>7. ASSUME NEW e \in Executor, Step(e) PROVE FiledInv'
    <2>1. UNCHANGED queue /\ \A f \in Executor : f # e => exec'[f] = exec[f]
      BY <1>7, StepRow
    <2>2. CASE UNCHANGED policies /\ ~InsertPolicy(e)
      <3>1. FiledBy(e)'
        <4>1. CASE exec'[e].at \in {"rest", "claim"}
          BY <4>1 DEF FiledBy
        <4>2. CASE exec'[e].at \notin {"rest", "claim"}
          <5>1. exec'[e].entry = exec[e].entry
            BY <1>7, <4>2, StepRow
          <5>2. Resolve(e) \/ Link(e) \/ ReadFresh(e) \/ WriteStage(e) \/ Breaks(e)
            <6>1. Select(e) => exec'[e].at = "claim"
              <7> SUFFICES ASSUME Select(e) PROVE exec'[e].at = "claim"
                OBVIOUS
              <7>1. PICK j \in Entry : exec' = [exec EXCEPT ![e] = [NotDraining EXCEPT !.at = "claim", !.entry = j]]
                BY DEF Select
              <7> QED
                BY <1>1, <7>1 DEF NotDraining, WonTypes
            <6>2. Crash(e) => exec'[e].at = "rest"
              BY <1>1 DEF Crash, NotDraining, WonTypes
            <6> QED
              BY <1>7, <2>2, <4>2, <6>1, <6>2 DEF Step
          <5>3. \/ exec[e].at = "insured" /\ exec'[e].at = "policy"
                \/ exec[e].at = "link" /\ exec'[e].at = "close"
                \/ exec[e].at = "write" /\ exec'[e].at = "close"
                \/ exec'[e].at \in {"write", "failed"}
            <6>1. Resolve(e) \/ Link(e) \/ WriteStage(e) \/ Breaks(e) =>
                    \/ exec[e].at = "insured" /\ Go(e, "policy")
                    \/ exec[e].at \in {"link", "write"} /\ Go(e, "close")
                    \/ Go(e, "failed")
              BY DEF Resolve, Link, WriteStage, Breaks
            <6>2. ReadFresh(e) => exec'[e].at = "write"
              BY <1>1 DEF ReadFresh, WonTypes, Errand
            <6> QED
              BY <1>1, <5>2, <6>1, <6>2, GoStep DEF Working
          <5>4. exec[e].at = "write" => Entered(e).kind = "back"
            BY <1>1 DEF HandInv, Hand
          <5> QED
            BY <2>1, <2>2, <5>1, <5>3, <5>4 DEF FiledInv, FiledBy, Entered
        <4> QED
          BY <4>1, <4>2
      <3>2. ASSUME NEW f \in Executor PROVE FiledBy(f)'
        BY <2>1, <2>2, <3>1 DEF FiledInv, FiledBy, Entered
      <3> QED
        BY <2>1, <2>2, <3>2 DEF FiledInv, FiledRow, IsWon, Used
    <2>3. CASE exec[e].at = "policy" /\ File(e) /\ exec'[e].at \in {"link", "failed"} /\ exec'[e].entry = exec[e].entry
      <3>1. PICK j \in Entry : j = exec[e].entry /\ queue[j] # Unused /\ queue[j].status = "processing" /\ queue[j].kind = "won"
        BY <1>1, <2>3 DEF HandInv, Hand, Entered, Used, Working
      <3>2. policies[j] = 0 /\ policies'[j] = 1 /\ \A i \in Entry : i # j => policies'[i] = policies[i]
        BY <1>1, <2>3, <3>1 DEF FiledInv, FiledBy, WonTypes, WonTypeOK, File
      <3>3. ASSUME NEW i \in Entry PROVE FiledRow(i)'
        BY <2>1, <3>1, <3>2 DEF FiledInv, FiledRow, IsWon, Used
      <3>4. ASSUME NEW f \in Executor PROVE FiledBy(f)'
        <4>1. CASE f = e
          BY <2>1, <2>3, <3>1, <3>2, <4>1 DEF FiledBy
        <4>2. CASE f # e
          <5>1. exec[f].at \in Working => exec[f].entry # j /\ exec[f].entry \in Entry
            BY <1>1, <2>3, <3>1, <4>2 DEF AloneInv, HandInv, Hand, Working
          <5> QED
            BY <2>1, <3>2, <4>2, <5>1 DEF FiledInv, FiledBy, Entered, Working
        <4> QED
          BY <4>1, <4>2
      <3> QED
        BY <3>3, <3>4 DEF FiledInv
    <2>4. CASE InsertPolicy(e)
      <3>1. exec'[e].at = "link" /\ exec'[e].entry = exec[e].entry
        BY <1>1, <2>4 DEF InsertPolicy, WonTypes, Errand
      <3> QED
        BY <2>3, <2>4, <3>1 DEF InsertPolicy
    <2>5. CASE Breaks(e)
      <3>1. exec'[e].at = "failed" /\ exec'[e].entry = exec[e].entry
        BY <1>1, <2>5 DEF Breaks, Go, WonTypes, Errand
      <3>2. ~InsertPolicy(e)
        BY <1>1, <3>1 DEF InsertPolicy, WonTypes, Errand
      <3> QED
        BY <2>2, <2>3, <2>5, <3>1, <3>2 DEF Breaks
    <2>6. CASE ~InsertPolicy(e) /\ ~Breaks(e)
      <3>1. UNCHANGED policies
        BY <1>7, <2>6 DEF Step, Select, Resolve, Link, ReadFresh, WriteStage, Crash
      <3> QED
        BY <2>2, <2>6, <3>1
    <2> QED
      BY <2>4, <2>5, <2>6
  <1> QED
    BY <1>1, <1>2, <1>3, <1>4, <1>5, <1>6, <1>7, Steps

-----------------------------------------------------------------------------
(* Who was won                                                             *)

\* A deal that was won with a number stays in the history.
LEMMA EverGrows == WonTypes /\ [WonNext]_wonVars => everWon \subseteq everWon'
  BY DEF WonNext, wonVars, Drag, HistoryOf, StageBack, StageWon, PersonIdle, EditDeal, DeleteDeal, Prime, EditAms, Appear,
         Select, Claim, Resolve, InsertPolicy, Link, ReadFresh, WriteStage, Finish, Breaks, CloseUnheard, Crash, Requeue

\* The rows that were there keep their kind and deal; a won row that is new is of a deal in the history.
LEMMA RowsGrow ==
    ASSUME RowsInv, WonInv, [WonNext]_wonVars, NEW j \in Entry
    PROVE  /\ queue[j] # Unused => queue'[j] # Unused /\ queue'[j].kind = queue[j].kind /\ queue'[j].deal = queue[j].deal
           /\ queue[j] = Unused /\ queue'[j] # Unused =>
                  /\ queue'[j].status = "queued"
                  /\ queue'[j].kind = "won" => queue'[j].deal \in everWon
  <1>1. CASE Outside
    BY <1>1, OutsideKeepsRows DEF RowsKept
  <1>2. CASE Staged
    BY <1>2 DEF Staged, Used
  <1>3. ASSUME NEW e \in Executor, Claim(e)
        PROVE  UNCHANGED queue \/ \E i \in Entry :
                  /\ queue[i] # Unused /\ queue'[i] # Unused /\ queue'[i].kind = queue[i].kind /\ queue'[i].deal = queue[i].deal
                  /\ \A k \in Entry : k # i => queue'[k] = queue[k]
    BY <1>3, ClaimRow
  <1>4. ASSUME NEW e \in Executor, Finish(e) \/ CloseUnheard(e)
        PROVE  \E i \in Entry :
                  /\ queue[i] # Unused /\ queue'[i] # Unused /\ queue'[i].kind = queue[i].kind /\ queue'[i].deal = queue[i].deal
                  /\ \A k \in Entry : k # i => queue'[k] = queue[k]
    <2>1. CASE Finish(e)
      BY <2>1, FinishRow
    <2>2. CASE CloseUnheard(e)
      BY <2>2, UnheardRow
    <2> QED
      BY <1>4, <2>1, <2>2
  <1>5. ASSUME NEW i \in Entry, Requeue(i)
        PROVE  /\ queue[i] # Unused /\ queue'[i] # Unused /\ queue'[i].kind = queue[i].kind /\ queue'[i].deal = queue[i].deal
               /\ \A k \in Entry : k # i => queue'[k] = queue[k]
    BY <1>5, RequeueRow
  <1>6. ASSUME NEW e \in Executor, Step(e) PROVE UNCHANGED queue
    BY <1>6, StepRow
  <1>7. WonTypes
    BY DEF RowsInv
  <1> QED
    BY <1>1, <1>2, <1>3, <1>4, <1>5, <1>6, <1>7, Steps

LEMMA WonStep == RowsInv /\ WonInv /\ [WonNext]_wonVars => WonInv'
  <1> SUFFICES ASSUME RowsInv, WonInv, [WonNext]_wonVars PROVE WonInv'
    OBVIOUS
  <1>1. WonTypes /\ everWon \subseteq everWon'
    BY EverGrows DEF RowsInv
  <1>2. ASSUME NEW j \in Entry, queue'[j] # Unused, queue'[j].kind = "won" PROVE queue'[j].deal \in everWon'
    BY <1>1, <1>2, RowsGrow DEF WonInv, RowsWon, IsWon, Used
  <1>3. ASSUME NEW p \in Person PROVE StagerWon(p)'
    <2>1. CASE UNCHANGED person
      BY <1>1, <2>1 DEF WonInv, StagerWon
    <2>2. ASSUME NEW q \in Person, NEW d \in Deals, NEW status \in Status, Drag(q, d, status) PROVE StagerWon(p)'
      <3>1. CASE p = q
        <4>1. /\ person'[p].deal = d /\ person'[p].status = status /\ person'[p].number = deal[d].number
              /\ deal'[d].status = status /\ deal'[d].number = deal[d].number
          BY <1>1, <2>2, <3>1 DEF Drag, WonTypes, WonTypeOK
        <4>2. status = "won" /\ deal[d].number => d \in everWon'
          BY <2>2, <4>1 DEF Drag, HistoryOf
        <4> QED
          BY <4>1, <4>2 DEF StagerWon
      <3>2. CASE p # q
        BY <1>1, <2>2, <3>2 DEF Drag, WonInv, StagerWon, WonTypes, WonTypeOK
      <3> QED
        BY <3>1, <3>2
    <2>3. ASSUME NEW q \in Person, StageBack(q) \/ StageWon(q) PROVE StagerWon(p)'
      <3>1. CASE p = q
        <4>1. person[p].at \in {"back", "won"}
          BY <2>3, <3>1 DEF StageBack, StageWon
        <4>2. /\ person'[p].status = person[p].status /\ person'[p].number = person[p].number
              /\ person'[p].deal = person[p].deal
          BY <1>1, <2>3, <3>1 DEF StageBack, StageWon, Done, WonTypes, WonTypeOK
        <4> QED
          BY <1>1, <4>1, <4>2 DEF WonInv, StagerWon
      <3>2. CASE p # q
        BY <1>1, <2>3, <3>2 DEF StageBack, StageWon, Done, WonInv, StagerWon, WonTypes, WonTypeOK
      <3> QED
        BY <3>1, <3>2
    <2> QED
      BY <2>1, <2>2, <2>3 DEF WonNext, wonVars, EditDeal, DeleteDeal, Prime, EditAms, Appear, ExecIdle,
         Select, Claim, Resolve, InsertPolicy, Link, ReadFresh, WriteStage, Finish, Breaks, CloseUnheard, Crash, Requeue
  <1> QED
    BY <1>2, <1>3 DEF WonInv, RowsWon, IsWon, Used

-----------------------------------------------------------------------------
(* What is linked                                                          *)

\* A linked deal stays so.
LEMMA TiedStays ==
    ASSUME WonTypes, [WonNext]_wonVars, NEW d \in Deals, Tied(d)
    PROVE  Tied(d)'
  <1>1. CASE UNCHANGED deal
    BY <1>1 DEF Tied
  <1>2. ASSUME NEW p \in Person, NEW c \in Deals, NEW status \in Status, Drag(p, c, status) PROVE Tied(d)'
    BY <1>2 DEF Drag, Tied, WonTypes, WonTypeOK
  <1>3. ASSUME NEW c \in Deals, EditDeal(c) PROVE Tied(d)'
    <2>1. deal'[d].there = deal[d].there /\ deal'[d].insured = deal[d].insured
      <3>1. deal \in [Deals -> [there : BOOLEAN, status : Status, mirrored : BOOLEAN,
                                number : BOOLEAN, insured : BOOLEAN, policy : BOOLEAN]]
        BY DEF WonTypes, WonTypeOK
      <3>2. ASSUME NEW number, deal' = [deal EXCEPT ![c].number = number]
            PROVE  deal'[d].there = deal[d].there /\ deal'[d].insured = deal[d].insured
        BY <3>1, <3>2
      <3>3. ASSUME NEW status, deal' = [deal EXCEPT ![c].status = status]
            PROVE  deal'[d].there = deal[d].there /\ deal'[d].insured = deal[d].insured
        BY <3>1, <3>3
      <3> QED
        BY <1>3, <3>2, <3>3 DEF EditDeal
    <2> QED
      BY <2>1 DEF Tied
  <1>4. ASSUME NEW c \in Deals, DeleteDeal(c) PROVE Tied(d)'
    BY <1>4 DEF DeleteDeal, Tied, WonTypes, WonTypeOK
  <1>5. ASSUME NEW c \in Deals, Prime(c) PROVE Tied(d)'
    BY <1>5 DEF Prime, Tied, WonTypes, WonTypeOK
  <1>6. ASSUME NEW e \in Executor, Tie(e) PROVE Tied(d)'
    <2>1. deal'[d] = deal[d] \/ deal'[d] = Linked(deal[d], exec[e].guid)
      BY <1>6 DEF Tie, WonTypes, WonTypeOK
    <2>2. deal[d] \in [there : BOOLEAN, status : Status, mirrored : BOOLEAN,
                      number : BOOLEAN, insured : BOOLEAN, policy : BOOLEAN]
      BY DEF WonTypes, WonTypeOK
    <2>3. Linked(deal[d], exec[e].guid).insured = TRUE
      BY <2>2 DEF Linked
    <2> QED
      BY <2>1, <2>3 DEF Tied
  <1> QED
    BY <1>1, <1>2, <1>3, <1>4, <1>5, <1>6 DEF WonNext, wonVars, StageBack, StageWon, PersonIdle, EditAms, Appear,
       Select, Claim, Resolve, InsertPolicy, Link, ReadFresh, WriteStage, Finish, Breaks, CloseUnheard, Crash, Requeue

\* A row is closed, and an executor comes to close it, only when the deal of the row is linked.
LEMMA TiedStep == RowsInv /\ WonInv /\ TiedInv /\ [WonNext]_wonVars => TiedInv'
  <1> SUFFICES ASSUME RowsInv, WonInv, TiedInv, [WonNext]_wonVars PROVE TiedInv'
    OBVIOUS
  <1>1. WonTypes /\ HandInv /\ AloneInv
    BY DEF RowsInv
  <1> DEFINE Kept(j) == queue[j] # Unused /\ queue'[j] # Unused /\ queue'[j].kind = queue[j].kind /\ queue'[j].deal = queue[j].deal
             Closing(f) == exec[f].at = "close" /\ Entered(f).kind = "won"
  <1>2. ASSUME NEW j \in Entry, queue[j] # Unused
        PROVE  Kept(j) /\ queue[j].deal \in Deals /\ (Tied(queue[j].deal) => \A d \in Deals : d = queue[j].deal => Tied(d)')
    BY <1>1, <1>2, RowsGrow, UsedRow, TiedStays DEF Used
  \* The rows.
  <1>3. ASSUME NEW j \in Entry, queue'[j] # Unused, queue'[j].kind = "won", queue'[j].status = "completed"
        PROVE  queue[j] # Unused /\ queue[j].kind = "won" /\ Tied(queue[j].deal)
    <2>1. queue[j] # Unused /\ queue[j].kind = "won"
      BY <1>3, RowsGrow
    <2>2. CASE queue[j].status = "completed"
      BY <2>1, <2>2 DEF TiedInv, IsWon, Used
    <2>3. CASE queue'[j] # queue[j]
      <3>1. \E e \in Executor : (Finish(e) \/ CloseUnheard(e)) /\ j = exec[e].entry
        <4>1. ASSUME Outside PROVE FALSE
          BY <2>3, <4>1, OutsideKeepsRows DEF RowsKept
        <4>2. ASSUME Staged PROVE FALSE
          BY <1>3, <2>1, <2>3, <4>2 DEF Staged, Used
        <4>3. ASSUME NEW e \in Executor, Step(e) PROVE FALSE
          BY <2>3, <4>3, StepRow
        <4>4. ASSUME NEW e \in Executor, Claim(e) PROVE FALSE
          BY <1>3, <2>3, <4>4, ClaimRow
        <4>5. ASSUME NEW i \in Entry, Requeue(i) PROVE FALSE
          BY <2>1, <2>3, <4>5, RequeueRow
        <4>6. ASSUME NEW e \in Executor, Finish(e) \/ CloseUnheard(e) PROVE j = exec[e].entry
          BY <2>3, <4>6, FinishRow, UnheardRow
        <4> QED
          BY <1>1, <4>1, <4>2, <4>3, <4>4, <4>5, <4>6, Steps
      <3>2. PICK e \in Executor : (Finish(e) \/ CloseUnheard(e)) /\ j = exec[e].entry
        BY <3>1
      <3>3. exec[e].at = "close"
        BY <1>3, <3>2, FinishRow, UnheardRow
      <3> QED
        BY <2>1, <3>2, <3>3 DEF TiedInv, DealOf, Entered
    <2> QED
      BY <1>3, <2>2, <2>3
  \* The executors.
  <1>4. ASSUME NEW f \in Executor, exec'[f] = exec[f], exec[f].at = "close", queue'[exec[f].entry].kind = "won"
        PROVE  \A d \in Deals : d = queue'[exec[f].entry].deal => Tied(d)'
    <2>1. PICK j \in Entry : j = exec[f].entry /\ queue[j] # Unused
      BY <1>1, <1>4 DEF HandInv, Hand, Used
    <2>2. queue[j].kind = "won" /\ queue'[j].deal = queue[j].deal
      BY <1>2, <1>4, <2>1
    <2>3. Tied(queue[j].deal)
      BY <1>4, <2>1, <2>2 DEF TiedInv, DealOf, Entered
    <2> QED
      BY <1>2, <2>1, <2>2, <2>3
  <1>5. ASSUME NEW f \in Executor, exec'[f] # exec[f], exec'[f].at = "close", queue'[exec'[f].entry].kind = "won"
        PROVE  \A d \in Deals : d = queue'[exec'[f].entry].deal => Tied(d)'
    <2>1. Link(f) \/ WriteStage(f)
      <3>1. ASSUME Outside \/ Staged \/ (\E i \in Entry : Requeue(i)) PROVE FALSE
        BY <1>5, <3>1, OutsideKeepsRows DEF RowsKept, Staged, Requeue
      <3>2. ASSUME NEW e \in Executor, Claim(e) PROVE FALSE
        BY <1>5, <3>2, ClaimRow
      <3>3. ASSUME NEW e \in Executor, Finish(e) \/ CloseUnheard(e) PROVE FALSE
        BY <1>5, <3>3, FinishRow, UnheardRow
      <3>4. ASSUME NEW e \in Executor, Step(e) PROVE e = f /\ (Link(f) \/ WriteStage(f))
        <4>1. e = f
          BY <1>5, <3>4, StepRow
        <4>2. exec'[f].entry = exec[f].entry /\ exec[f].at \in Working
          BY <1>5, <3>4, <4>1, StepRow
        <4>3. Select(f) => FALSE
          BY <4>2 DEF Select, Working
        <4>4. Crash(f) => exec'[f].at = "rest"
          BY <1>1 DEF Crash, NotDraining, WonTypes
        <4>5. Resolve(f) \/ Breaks(f) => Go(f, "policy") \/ Go(f, "failed")
          BY DEF Resolve, Breaks
        <4>6. Resolve(f) \/ Breaks(f) => exec'[f].at # "close"
          BY <1>1, <4>5, GoStep DEF Working
        <4>7. InsertPolicy(f) \/ ReadFresh(f) => exec'[f].at # "close"
          BY <1>1 DEF InsertPolicy, ReadFresh, WonTypes, Errand
        <4> QED
          BY <1>5, <3>4, <4>1, <4>3, <4>4, <4>6, <4>7 DEF Step
      <3> QED
        BY <1>1, <3>1, <3>2, <3>3, <3>4, Steps
    <2>2. exec'[f].entry = exec[f].entry /\ UNCHANGED queue
      BY <1>1, <2>1, GoStep DEF Link, WriteStage, Working
    <2>3. PICK j \in Entry : j = exec[f].entry /\ queue[j] # Unused
      BY <1>1, <2>1 DEF HandInv, Hand, Used, Link, WriteStage
    <2>4. CASE WriteStage(f)
      BY <1>1, <1>5, <2>2, <2>4 DEF HandInv, Hand, Entered, WriteStage
    <2>5. CASE Link(f)
      <3>1. deal \in [Deals -> [there : BOOLEAN, status : Status, mirrored : BOOLEAN,
                                number : BOOLEAN, insured : BOOLEAN, policy : BOOLEAN]]
        BY <1>1 DEF WonTypes, WonTypeOK
      <3>2. PICK d \in Deals : d = queue[j].deal
        BY <1>2, <2>3
      <3>3. deal' = [deal EXCEPT ![d] = IF deal[d].there THEN Linked(deal[d], exec[f].guid) ELSE deal[d]]
        BY <2>3, <2>5, <3>2 DEF Link, Tie, DealOf, Entered
      <3>4. Linked(deal[d], exec[f].guid).insured = TRUE
        BY <3>1 DEF Linked
      <3>5. Tied(d)'
        BY <3>1, <3>3, <3>4 DEF Tied
      <3> QED
        BY <2>2, <2>3, <3>2, <3>5
    <2> QED
      BY <2>1, <2>4, <2>5
  <1>6. ASSUME NEW j \in Entry, queue'[j] # Unused, queue'[j].kind = "won", queue'[j].status = "completed"
        PROVE  \A d \in Deals : d = queue'[j].deal => Tied(d)'
    BY <1>2, <1>3, <1>6
  <1>7. ASSUME NEW j \in Entry, queue'[j] # Unused PROVE queue'[j].deal \in Deals
    <2>1. queue' \in [Entry -> DealRow \cup {Unused}]
      BY <1>1, <1>7, QueueStep DEF QueueTyped
    <2> QED
      BY <1>7, <2>1 DEF DealRow
  <1>8. ASSUME NEW f \in Executor, exec'[f].at = "close", queue'[exec'[f].entry].kind = "won"
        PROVE  exec'[f].entry \in Entry /\ queue'[exec'[f].entry] # Unused
    BY <1>8, HandStep DEF HandInv, Hand, Used
  <1>9. ASSUME NEW f \in Executor, exec'[f].at = "close", queue'[exec'[f].entry].kind = "won"
        PROVE  deal'[queue'[exec'[f].entry].deal].there => deal'[queue'[exec'[f].entry].deal].insured
    <2>1. PICK d \in Deals : d = queue'[exec'[f].entry].deal
      BY <1>7, <1>8, <1>9
    <2>2. Tied(d)'
      BY <1>4, <1>5, <1>9, <2>1
    <2> QED
      BY <2>1, <2>2 DEF Tied
  <1>10. ASSUME NEW j \in Entry, queue'[j] # Unused, queue'[j].kind = "won", queue'[j].status = "completed"
         PROVE  deal'[queue'[j].deal].there => deal'[queue'[j].deal].insured
    BY <1>6, <1>7, <1>10 DEF Tied
  <1> QED
    BY <1>9, <1>10 DEF TiedInv, Tied, DealOf, Entered, IsWon, Used

-----------------------------------------------------------------------------
(* What people edit in NowCerts                                            *)

LEMMA EditsStep == RowsInv /\ WonInv /\ EditsInv /\ [WonNext]_wonVars => EditsInv'
  <1> SUFFICES ASSUME RowsInv, WonInv, EditsInv, [WonNext]_wonVars PROVE EditsInv'
    OBVIOUS
  <1>1. WonTypes /\ HandInv
    BY DEF RowsInv
  \* Who writes was writing the same deal before, or has just read it.
  <1>2. ASSUME NEW f \in Executor, exec[f].at = "write"
        PROVE  queue'[exec[f].entry].deal = queue[exec[f].entry].deal
    <2>1. PICK j \in Entry : j = exec[f].entry /\ queue[j] # Unused
      BY <1>1, <1>2 DEF HandInv, Hand, Used
    <2> QED
      BY <2>1, RowsGrow
  <1>3. ASSUME UNCHANGED <<amsDeal, latest, raced>>,
               \A f \in Executor : exec'[f].at = "write" => exec'[f] = exec[f]
        PROVE  EditsInv'
    BY <1>2, <1>3 DEF EditsInv, DealOf, Entered
  <1>4. CASE Outside /\ UNCHANGED <<amsDeal, latest, raced>>
    BY <1>3, <1>4, OutsideKeepsRows DEF RowsKept
  <1>5. CASE Staged
    BY <1>3, <1>5 DEF Staged
  <1>6. ASSUME NEW d \in Deals, EditAms(d) PROVE EditsInv'
    <2>1. UNCHANGED <<queue, exec>> /\ amsDeal'[d].fields = edits + 1 /\ latest'[d] = edits + 1
      BY <1>1, <1>6 DEF EditAms, WonTypes, WonTypeOK
    <2>2. \A c \in Deals : c # d => amsDeal'[c] = amsDeal[c] /\ latest'[c] = latest[c]
      BY <1>1, <1>6 DEF EditAms, WonTypes, WonTypeOK
    <2>3. \A c \in Deals : c # d => (c \in raced' <=> c \in raced)
      BY <1>6 DEF EditAms
    <2>4. d \notin raced' => \A e \in Executor : ~(exec[e].at = "write" /\ DealOf(e) = d)
      BY <1>6 DEF EditAms
    <2> QED
      BY <2>1, <2>2, <2>3, <2>4 DEF EditsInv, DealOf, Entered
  <1>7. ASSUME NEW e \in Executor, Claim(e) PROVE EditsInv'
    <2>1. exec'[e].at # "write"
      BY <1>7, ClaimRow
    <2> QED
      BY <1>3, <1>7, <2>1, ClaimRow
  <1>8. ASSUME NEW e \in Executor, Finish(e) \/ CloseUnheard(e) PROVE EditsInv'
    BY <1>3, <1>8, FinishRow, UnheardRow
  <1>9. ASSUME NEW j \in Entry, Requeue(j) PROVE EditsInv'
    BY <1>3, <1>9, RequeueRow
  <1>10. ASSUME NEW e \in Executor, ReadFresh(e) PROVE EditsInv'
    <2>1. UNCHANGED <<queue, amsDeal, latest, raced>>
      BY <1>10 DEF ReadFresh
    <2>2. /\ exec'[e].entry = exec[e].entry /\ exec'[e].fields = amsDeal[DealOf(e)].fields
          /\ \A f \in Executor : f # e => exec'[f] = exec[f]
      BY <1>1, <1>10 DEF ReadFresh, WonTypes, Errand
    <2> QED
      BY <2>1, <2>2 DEF EditsInv, DealOf, Entered
  <1>11. ASSUME NEW e \in Executor, Step(e), ~ReadFresh(e) PROVE EditsInv'
    <2>1. /\ UNCHANGED <<queue, latest, raced>> /\ \A f \in Executor : f # e => exec'[f] = exec[f]
      BY <1>11, StepRow DEF Step
    <2>2. exec'[e].at # "write"
      <3>1. Select(e) => exec'[e].at = "claim"
        <4> SUFFICES ASSUME Select(e) PROVE exec'[e].at = "claim"
          OBVIOUS
        <4>1. PICK j \in Entry : exec' = [exec EXCEPT ![e] = [NotDraining EXCEPT !.at = "claim", !.entry = j]]
          BY DEF Select
        <4> QED
          BY <1>1, <4>1 DEF NotDraining, WonTypes
      <3>2. Crash(e) => exec'[e].at = "rest"
        BY <1>1 DEF Crash, NotDraining, WonTypes
      <3>3. Resolve(e) \/ Link(e) \/ WriteStage(e) \/ Breaks(e) => Go(e, "policy") \/ Go(e, "close") \/ Go(e, "failed")
        BY DEF Resolve, Link, WriteStage, Breaks
      <3>4. Resolve(e) \/ Link(e) \/ WriteStage(e) \/ Breaks(e) => exec'[e].at # "write"
        BY <1>1, <3>3, GoStep DEF Working
      <3>5. InsertPolicy(e) => exec'[e].at = "link"
        BY <1>1 DEF InsertPolicy, WonTypes, Errand
      <3> QED
        BY <1>11, <3>1, <3>2, <3>4, <3>5 DEF Step
    <2>3. CASE UNCHANGED amsDeal
      BY <1>3, <2>1, <2>2, <2>3
    <2>4. CASE exec[e].at = "write" /\ PutStage(e)
      <3>1. PICK d \in Deals : d = DealOf(e)
        BY <1>1, <2>4, InHand
      <3>2. amsDeal'[d].fields = exec[e].fields /\ \A c \in Deals : c # d => amsDeal'[c] = amsDeal[c]
        BY <1>1, <2>4, <3>1 DEF WonTypes, WonTypeOK, PutStage, Fields
      <3>3. d \notin raced => amsDeal'[d].fields = latest[d]
        BY <2>4, <3>1, <3>2 DEF EditsInv
      <3> QED
        BY <2>1, <2>2, <3>2, <3>3 DEF EditsInv, DealOf, Entered
    <2> QED
      BY <1>11, <2>3, <2>4 DEF Step, Select, Resolve, InsertPolicy, Link, WriteStage, Breaks, Crash
  <1>12. Outside => UNCHANGED <<amsDeal, latest, raced>> \/ \E d \in Deals : EditAms(d)
    BY DEF Outside, Drag, EditDeal, DeleteDeal, Prime, Appear, StageBack, StageWon, PersonIdle, wonVars
  <1> QED
    BY <1>1, <1>4, <1>5, <1>6, <1>7, <1>8, <1>9, <1>10, <1>11, <1>12, Steps

-----------------------------------------------------------------------------
(* The inductive invariant, and what it says                               *)

Inv == RowsInv /\ FiledInv /\ WonInv /\ TiedInv /\ EditsInv

LEMMA InvInit == WonInit => Inv
  <1> SUFFICES ASSUME WonInit PROVE Inv
    OBVIOUS
  <1>1. WonTypes
    BY WonTypesInit
  <1>2. \A e \in Executor : exec[e].at = "rest"
    BY DEF WonInit, NotDraining
  <1>3. \A j \in Entry : queue[j] = Unused /\ policies[j] = 0
    BY DEF WonInit
  <1>4. \A p \in Person : person[p].at = "rest"
    BY DEF WonInit
  <1>5. \A d \in Deals : amsDeal[d].fields = 0 /\ latest[d] = 0
    BY DEF WonInit
  <1>6. RowsInv
    BY <1>1, <1>2 DEF RowsInv, HandInv, Hand, AloneInv, Working
  <1>7. FiledInv
    BY <1>2, <1>3 DEF FiledInv, FiledRow, FiledBy, IsWon, Used
  <1>8. WonInv
    BY <1>3, <1>4 DEF WonInv, RowsWon, StagerWon, IsWon, Used
  <1>9. TiedInv /\ EditsInv
    BY <1>2, <1>3, <1>5 DEF TiedInv, EditsInv, IsWon, Used
  <1> QED
    BY <1>6, <1>7, <1>8, <1>9 DEF Inv

LEMMA InvStep == Inv /\ [WonNext]_wonVars => Inv'
  <1> SUFFICES ASSUME Inv, [WonNext]_wonVars PROVE Inv'
    OBVIOUS
  <1>1. RowsInv /\ FiledInv /\ WonInv /\ TiedInv /\ EditsInv /\ WonTypes /\ HandInv
    BY DEF Inv, RowsInv
  <1>2. WonTypes'
    BY <1>1, TypesStep
  <1>3. HandInv' /\ AloneInv'
    BY <1>1, HandStep, AloneStep
  <1>4. FiledInv' /\ WonInv' /\ TiedInv' /\ EditsInv'
    BY <1>1, FiledStep, WonStep, TiedStep, EditsStep
  <1> QED
    BY <1>2, <1>3, <1>4 DEF Inv, RowsInv

THEOREM WonInvariant == WonSpec => []Inv
  BY InvInit, InvStep, PTL DEF WonSpec

\* Whatever people move, edit and delete and whatever fails or dies: a policy is
\* filed for a won deal only, its row is closed only once the deal is linked, and
\* what people edit in NowCerts stays (stage_won, stage_writeback and the executors).
THEOREM WonIsSafe == WonSpec => []WonSafe
  <1>1. Inv => WonSafe
    <2> SUFFICES ASSUME Inv PROVE WonSafe
      OBVIOUS
    <2>1. WonTypeOK
      BY DEF Inv, RowsInv, WonTypes
    <2>2. PolicyOnlyForWon
      BY DEF Inv, FiledInv, FiledRow, WonInv, RowsWon, PolicyOnlyForWon
    <2>3. CompletedMeansLinked
      BY DEF Inv, TiedInv, Tied, IsWon, CompletedMeansLinked
    <2>4. NowCertsEditsKept
      BY DEF Inv, EditsInv, NowCertsEditsKept
    <2> QED
      BY <2>1, <2>2, <2>3, <2>4 DEF WonSafe
  <1> QED
    BY <1>1, WonInvariant, PTL

-----------------------------------------------------------------------------
(* The won rows implement OneShot                                          *)

\* A row that is of no won deal before and after a step, or that stays, is not seen.
LEMMA Unseen ==
    ASSUME NEW j \in Entry, \A i \in Entry : i # j => queue'[i] = queue[i] /\ Doubted(i)' = Doubted(i),
           queue[j] # Unused => queue[j].kind # "won", queue'[j] # Unused => queue'[j].kind # "won"
    PROVE  WonStatus' = WonStatus
  BY DEF WonStatus, Used

LEMMA Seen ==
    ASSUME NEW j \in Entry, \A i \in Entry : i # j => queue'[i] = queue[i] /\ Doubted(i)' = Doubted(i),
           queue'[j] # Unused, queue'[j].kind = "won"
    PROVE  WonStatus' = [WonStatus EXCEPT ![j] = IF Doubted(j)' THEN "doubted" ELSE queue'[j].status]
  BY DEF WonStatus, Used

\* What one executor does is a doubt about its own row only.
LEMMA OneDoubt ==
    ASSUME NEW e \in Executor, \A f \in Executor : f # e => exec'[f] = exec[f], NEW i \in Entry,
           (exec[e].at = "doubt" /\ exec[e].entry = i) <=> (exec'[e].at = "doubt" /\ exec'[e].entry = i)
    PROVE  Doubted(i)' = Doubted(i)
  BY DEF Doubted

LEMMA StepImplements == Inv /\ [WonNext]_wonVars => [Approval!Next]_(Approval!vars)
  <1> SUFFICES ASSUME Inv, [WonNext]_wonVars PROVE Approval!Next \/ UNCHANGED Approval!vars
    OBVIOUS
  <1>1. RowsInv /\ FiledInv /\ WonInv /\ WonTypes /\ HandInv /\ AloneInv
    BY DEF Inv, RowsInv
  <1>2. ASSUME UNCHANGED <<queue, policies>>, \A i \in Entry : Doubted(i)' = Doubted(i) PROVE UNCHANGED Approval!vars
    BY <1>2 DEF Approval!vars, WonStatus, Used
  <1>3. ASSUME NEW j \in Entry, UNCHANGED policies,
               \A i \in Entry : i # j => queue'[i] = queue[i] /\ Doubted(i)' = Doubted(i),
               queue[j] # Unused => queue[j].kind # "won", queue'[j] # Unused => queue'[j].kind # "won"
        PROVE  UNCHANGED Approval!vars
    BY <1>3, Unseen DEF Approval!vars
  \* A row in doubt is completed, and nobody else has it in hand.
  <1>10. ASSUME NEW j \in Entry, Doubted(j) PROVE queue[j].status = "completed"
    BY <1>1, <1>10 DEF Doubted, HandInv, Hand, Entered
  <1>11. ASSUME UNCHANGED exec PROVE \A i \in Entry : Doubted(i)' = Doubted(i)
    BY <1>11 DEF Doubted
  <1>4. CASE Outside
    BY <1>2, <1>4, <1>11, OutsideKeepsRows DEF RowsKept
  <1>5. CASE Staged
    <2>1. PICK j \in Entry : /\ queue[j] = Unused /\ queue'[j] # Unused /\ queue'[j].status = "queued"
                             /\ \A i \in Entry : i # j => queue'[i] = queue[i]
      BY <1>5 DEF Staged, Used
    <2>2. UNCHANGED policies /\ UNCHANGED exec
      BY <1>5 DEF Staged
    <2>3. CASE queue'[j].kind = "won"
      <3>1. WonStatus[j] = "absent"
        BY <2>1 DEF WonStatus, Used
      <3>2. ~Doubted(j)
        BY <1>1, <2>1 DEF Doubted, HandInv, Hand, Used
      <3>3. WonStatus' = [WonStatus EXCEPT ![j] = "queued"]
        BY <1>11, <2>1, <2>2, <2>3, <3>2, Seen
      <3> QED
        BY <2>2, <3>1, <3>3 DEF Approval!Next, Approval!Approve, Approval!Set
    <2> QED
      BY <1>3, <1>11, <2>1, <2>2, <2>3
  <1>6. ASSUME NEW e \in Executor, Claim(e) PROVE Approval!Next \/ UNCHANGED Approval!vars
    <2>1. UNCHANGED policies /\ \A f \in Executor : f # e => exec'[f] = exec[f]
      BY <1>1, <1>6, ClaimRow
    <2>2. exec[e].at # "doubt" /\ exec'[e].at # "doubt"
      <3>1. exec[e].at # "doubt"
        BY <1>6 DEF Claim
      <3>2. exec'[e].at \in {"rest", "insured", "fresh"}
        BY <1>1, <1>6, ClaimRow
      <3> QED
        BY <3>1, <3>2
    <2>3. \A i \in Entry : Doubted(i)' = Doubted(i)
      BY <2>1, <2>2, OneDoubt
    <2>4. CASE UNCHANGED queue
      BY <1>2, <2>1, <2>3, <2>4
    <2>5. CASE queue' # queue
      <3>1. PICK j \in Entry :
                    /\ queue[j] # Unused /\ queue[j].status = "queued"
                    /\ queue'[j] # Unused /\ queue'[j].status = "processing" /\ queue'[j].kind = queue[j].kind
                    /\ \A i \in Entry : i # j => queue'[i] = queue[i]
        BY <1>1, <1>6, <2>5, ClaimRow
      <3>2. ~Doubted(j)
        BY <1>10, <3>1
      <3>3. CASE queue[j].kind = "won"
        <4>1. WonStatus[j] = "queued"
          BY <3>1, <3>2, <3>3 DEF WonStatus, Used
        <4>2. WonStatus' = [WonStatus EXCEPT ![j] = "processing"]
          BY <2>3, <3>1, <3>2, <3>3, Seen
        <4> QED
          BY <2>1, <4>1, <4>2 DEF Approval!Next, Approval!Claim, Approval!Set
      <3> QED
        BY <1>3, <2>1, <2>3, <3>1, <3>3
    <2> QED
      BY <2>4, <2>5
  <1>7. ASSUME NEW e \in Executor, Finish(e) \/ CloseUnheard(e) PROVE Approval!Next \/ UNCHANGED Approval!vars
    <2>1. /\ UNCHANGED policies /\ \A f \in Executor : f # e => exec'[f] = exec[f]
          /\ exec'[e].at = "doubt" => exec'[e].entry = exec[e].entry
      BY <1>1, <1>7, FinishRow, UnheardRow
    <2>2. PICK j \in Entry :
                 /\ j = exec[e].entry /\ queue[j] # Unused
                 /\ queue'[j] # Unused /\ queue'[j].kind = queue[j].kind
                 /\ \A i \in Entry : i # j => queue'[i] = queue[i]
                 /\ \A f \in Executor : exec[f].at \in Working /\ f # e => exec[f].entry # j
                 /\ \/ /\ exec[e].at = "close" /\ queue[j].status = "processing" /\ queue'[j].status = "completed"
                    \/ /\ exec[e].at = "failed" /\ queue[j].status = "processing" /\ queue'[j].status = "failed"
                       /\ exec'[e].at = "rest"
                    \/ /\ exec[e].at = "doubt" /\ queue'[j].status = "failed" /\ exec'[e].at = "rest"
      <3>1. CASE Finish(e)
        BY <1>1, <3>1, FinishRow
      <3>2. CASE CloseUnheard(e)
        BY <1>1, <3>2, UnheardRow
      <3> QED
        BY <1>7, <3>1, <3>2
    <2>3. \A i \in Entry : i # j => Doubted(i)' = Doubted(i)
      BY <2>1, <2>2, OneDoubt
    <2>4. /\ Doubted(j) <=> exec[e].at = "doubt"
          /\ Doubted(j)' <=> exec'[e].at = "doubt"
      BY <2>1, <2>2 DEF Doubted, Working
    <2>5. CASE queue[j].kind = "won"
      <3>1. WonStatus[j] = IF exec[e].at = "doubt" THEN "doubted" ELSE queue[j].status
        BY <2>2, <2>4, <2>5 DEF WonStatus, Used
      <3>2. WonStatus' = [WonStatus EXCEPT ![j] = IF exec'[e].at = "doubt" THEN "doubted" ELSE queue'[j].status]
        BY <2>2, <2>3, <2>4, <2>5, Seen
      <3>3. exec[e].at = "close" => policies[j] = 1
        BY <1>1, <2>2, <2>5 DEF FiledInv, FiledBy, Entered
      <3>4. CASE exec[e].at = "close"
        BY <2>1, <2>2, <3>1, <3>2, <3>3, <3>4 DEF Approval!Next, Approval!Complete, Approval!Set
      <3>5. CASE exec[e].at \in {"failed", "doubt"}
        BY <2>1, <2>2, <3>1, <3>2, <3>5 DEF Approval!Next, Approval!Fail, Approval!Set
      <3> QED
        BY <2>2, <3>4, <3>5
    <2> QED
      BY <1>3, <2>1, <2>2, <2>3, <2>5
  <1>8. ASSUME NEW j \in Entry, Requeue(j) PROVE UNCHANGED Approval!vars
    BY <1>1, <1>3, <1>8, <1>11, RequeueRow
  \* An executor that dies in doubt leaves its row completed.
  <1>12. ASSUME NEW e \in Executor, Crash(e), exec[e].at = "doubt" PROVE Approval!Next \/ UNCHANGED Approval!vars
    <2>1. UNCHANGED <<queue, policies>> /\ exec'[e].at = "rest" /\ \A f \in Executor : f # e => exec'[f] = exec[f]
      BY <1>1, <1>12 DEF Crash, NotDraining, WonTypes
    <2>2. PICK j \in Entry : j = exec[e].entry /\ queue[j] # Unused /\ queue[j].status = "completed"
      BY <1>1, <1>12 DEF HandInv, Hand, Entered, Used
    <2>3. \A f \in Executor : exec[f].at = "doubt" /\ f # e => exec[f].entry # j
      BY <1>1, <1>12, <2>2 DEF AloneInv, Working
    <2>4. Doubted(j) /\ ~Doubted(j)'
      BY <1>12, <2>1, <2>2, <2>3 DEF Doubted
    <2>5. \A i \in Entry : i # j => Doubted(i)' = Doubted(i)
      BY <2>1, <2>2, OneDoubt
    <2>6. CASE queue[j].kind = "won"
      <3>1. WonStatus[j] = "doubted"
        BY <2>2, <2>4, <2>6 DEF WonStatus, Used
      <3>2. WonStatus' = [WonStatus EXCEPT ![j] = "completed"]
        BY <2>1, <2>2, <2>4, <2>5, <2>6, Seen
      <3> QED
        BY <2>1, <3>1, <3>2 DEF Approval!Next, Approval!Settle, Approval!Set
    <2> QED
      BY <1>3, <2>1, <2>2, <2>5, <2>6
  <1>9. ASSUME NEW e \in Executor, Step(e), ~(Crash(e) /\ exec[e].at = "doubt")
        PROVE  Approval!Next \/ UNCHANGED Approval!vars
    <2>1. UNCHANGED queue /\ \A f \in Executor : f # e => exec'[f] = exec[f]
      BY <1>1, <1>9, StepRow
    <2>2. exec[e].at # "doubt" /\ exec'[e].at # "doubt"
      <3>1. exec[e].at # "doubt"
        BY <1>9 DEF Step, Select, Resolve, InsertPolicy, Link, ReadFresh, WriteStage, Breaks
      <3>2. Select(e) => exec'[e].at = "claim"
        <4> SUFFICES ASSUME Select(e) PROVE exec'[e].at = "claim"
          OBVIOUS
        <4>1. PICK j \in Entry : exec' = [exec EXCEPT ![e] = [NotDraining EXCEPT !.at = "claim", !.entry = j]]
          BY DEF Select
        <4> QED
          BY <1>1, <4>1 DEF NotDraining, WonTypes
      <3>3. Crash(e) => exec'[e].at = "rest"
        BY <1>1 DEF Crash, NotDraining, WonTypes
      <3>4. Resolve(e) \/ Link(e) \/ WriteStage(e) \/ Breaks(e) => Go(e, "policy") \/ Go(e, "close") \/ Go(e, "failed")
        BY DEF Resolve, Link, WriteStage, Breaks
      <3>5. Resolve(e) \/ Link(e) \/ WriteStage(e) \/ Breaks(e) => exec'[e].at # "doubt"
        BY <1>1, <3>4, GoStep DEF Working
      <3>6. InsertPolicy(e) \/ ReadFresh(e) => exec'[e].at # "doubt"
        BY <1>1 DEF InsertPolicy, ReadFresh, WonTypes, Errand
      <3> QED
        BY <1>9, <3>1, <3>2, <3>3, <3>5, <3>6 DEF Step
    <2>3. \A i \in Entry : Doubted(i)' = Doubted(i)
      BY <2>1, <2>2, OneDoubt
    <2>4. CASE UNCHANGED policies
      BY <1>2, <2>1, <2>3, <2>4
    <2>5. CASE exec[e].at = "policy" /\ File(e)
      <3>1. PICK j \in Entry : j = exec[e].entry /\ queue[j] # Unused /\ queue[j].status = "processing" /\ queue[j].kind = "won"
        BY <1>1, <2>5 DEF HandInv, Hand, Entered, Used, Working
      <3>2. policies[j] = 0
        BY <1>1, <2>5, <3>1 DEF FiledInv, FiledBy
      <3>3. policies' = [policies EXCEPT ![j] = 1]
        BY <2>5, <3>1, <3>2 DEF File
      <3>4. ~Doubted(j)
        BY <1>10, <3>1
      <3>5. WonStatus[j] = "processing"
        BY <3>1, <3>4 DEF WonStatus, Used
      <3>6. WonStatus' = WonStatus
        BY <2>1, <2>3 DEF WonStatus, Used
      <3> QED
        BY <3>2, <3>3, <3>5, <3>6 DEF Approval!Next, Approval!Effect
    <2> QED
      BY <1>9, <2>4, <2>5 DEF Step, Select, Resolve, InsertPolicy, Link, ReadFresh, WriteStage, Breaks, Crash
  <1> QED
    BY <1>1, <1>4, <1>5, <1>6, <1>7, <1>8, <1>9, <1>12, Steps DEF Step

\* One approval of a won deal is taken up once and files at most one policy, and
\* says completed only if it filed it: the won rows of outbound_sync_queue
\* implement OneShot, for any number of rows, deals and executors.
THEOREM WonFiledOnce == WonSpec => FiledOnce
  <1>1. WonInit => Approval!Init
    BY DEF WonInit, Approval!Init, WonStatus, Used
  <1> QED
    BY <1>1, WonInvariant, StepImplements, PTL DEF WonSpec, FiledOnce, Approval!Spec

-----------------------------------------------------------------------------
(* ReviewDesk: what a reviewer of the lane relies on, for any lane, any    *)
(* documents and any number of calls and failures.  A submission that may  *)
(* leave is whole because of what the calls before have passed through, so *)
(* that the invariant says of every step of a call what it has done.       *)

ReadSteps == {"extracting", "log extracting", "files"}
BuildSteps == {"clear", "build", "review", "log review"}
Places == ReadSteps \cup BuildSteps \cup {"", "fixed", "approve", "log approved"}
Origins == {"none", "document", "human"}

IsVisit(v) ==
    /\ v = [at |-> v.at, facts |-> v.facts, origin |-> v.origin, todo |-> v.todo]
    /\ v.at \in Places
    /\ DOMAIN v.facts = Entries /\ v.facts = [f \in Entries |-> v.facts[f]]
    /\ v.origin \in [Entries -> Origins]

RowTypes ==
    /\ standing \in {"draft", "extracting", "in_review", "approved"}
    /\ DOMAIN facts = Entries /\ facts = [f \in Entries |-> facts[f]]
    /\ origin \in [Entries -> Origins]
    /\ flagged \subseteq Required /\ halfway \in BOOLEAN
    /\ \A d \in bundle : d.kind \in Kinds
ReviewTypes == RowTypes /\ IsVisit(visit)

Settled == standing \in {"in_review", "approved"}

\* The flags are those of the object, from the first save on.
FlagsInv ==
    /\ Settled \/ visit.at \in BuildSteps => flagged = Flags(facts)
    /\ visit.at \in {"approve", "log approved"} => flagged = {}
    /\ visit.at = "approve" => standing = "in_review"
    /\ visit.at = "log approved" => standing = "approved"
    /\ visit.at \in {"log extracting", "files"} => standing = "extracting"

\* How far a call has come with the deliverables.
BuildInv ==
    /\ visit.at \in BuildSteps => visit.facts = facts
    /\ visit.at = "build" => bundle \subseteq Built(facts)
    /\ visit.at \in {"review", "log review"} => bundle = Built(facts)
    /\ visit.at = "log review" => standing = "in_review"

\* What holds between the calls, and until the next one saves, if none broke off.
WholeInv ==
    ~halfway /\ Settled =>
        /\ visit.at \in {"", "extracting", "fixed", "approve", "log approved"} => bundle = Built(facts)
        /\ visit.at \in {"", "extracting", "fixed", "approve"} => told = standing
        /\ visit.at \in {"", "extracting", "fixed"} /\ standing = "approved" => flagged = {}

ReviewInv == ReviewTypes /\ FlagsInv /\ BuildInv /\ WholeInv /\ TypedStays

-----------------------------------------------------------------------------
(* Documents and flags                                                     *)

LEMMA FlagsAreRequired == \A values : Flags(values) \subseteq Required
  BY DEF Flags

LEMMA BuiltKinds == \A values : \A d \in Built(values) : d.kind \in Kinds
  BY DEF Built

\* A document fills gaps: what is there stays, with its origin.
LEMMA ReadingFills ==
    ASSUME NEW v, IsVisit(v), v.at \in Places, NEW reading, NEW rest
    PROVE  LET w == [WithReading(v, reading) EXCEPT !.todo = rest] IN
           /\ IsVisit(w) /\ w.at = v.at
           /\ \A f \in Entries : v.facts[f] # Blank => w.facts[f] = v.facts[f] /\ w.origin[f] = v.origin[f]
  <1> DEFINE found == Extraction(reading, v.facts)
             newFacts == [f \in Entries |-> IF f \in found THEN reading[f] ELSE v.facts[f]]
             newOrigin == [f \in Entries |-> IF f \in found THEN "document" ELSE v.origin[f]]
             w == [WithReading(v, reading) EXCEPT !.todo = rest]
  <1>1. w = [at |-> v.at, facts |-> newFacts, origin |-> newOrigin, todo |-> rest]
    <2>1. v = [at |-> v.at, facts |-> v.facts, origin |-> v.origin, todo |-> v.todo]
      BY DEF IsVisit
    <2>2. WithReading(v, reading) = [v EXCEPT !.facts = newFacts, !.origin = newOrigin]
      BY DEF WithReading
    <2> HIDE DEF found, newFacts, newOrigin
    <2>3. [v EXCEPT !.facts = newFacts] = [at |-> v.at, facts |-> newFacts, origin |-> v.origin, todo |-> v.todo]
      BY <2>1
    <2>4. WithReading(v, reading) = [at |-> v.at, facts |-> newFacts, origin |-> newOrigin, todo |-> v.todo]
      BY <2>2, <2>3
    <2> QED
      BY <2>4
  <1>2. newOrigin \in [Entries -> Origins]
    BY DEF IsVisit, Origins
  <1>3. \A f \in Entries : v.facts[f] # Blank => f \notin found
    BY DEF Extraction, Gaps
  <1>4. DOMAIN newFacts = Entries /\ newFacts = [f \in Entries |-> newFacts[f]]
    OBVIOUS
  <1>5. \A f \in Entries : v.facts[f] # Blank => newFacts[f] = v.facts[f] /\ newOrigin[f] = v.origin[f]
    BY <1>3
  <1> HIDE DEF found, newFacts, newOrigin
  <1> QED
    BY <1>1, <1>2, <1>4, <1>5 DEF IsVisit

LEMMA NoVisitIsVisit == IsVisit(NoVisit)
  BY DEF IsVisit, NoVisit, NoFacts, NoOrigin, Places, Origins

\* A call that goes on to its next step.
LEMMA OnTo ==
    ASSUME NEW v, IsVisit(v), NEW place \in Places
    PROVE  LET w == [v EXCEPT !.at = place] IN
           IsVisit(w) /\ w.at = place /\ w.facts = v.facts /\ w.origin = v.origin
  <1>1. v = [at |-> v.at, facts |-> v.facts, origin |-> v.origin, todo |-> v.todo]
    BY DEF IsVisit
  <1>2. [v EXCEPT !.at = place] = [at |-> place, facts |-> v.facts, origin |-> v.origin, todo |-> v.todo]
    BY <1>1
  <1> QED
    BY <1>2 DEF IsVisit

\* A call that breaks off leaves nothing to rely on but the flags.
LEMMA BrokenOff ==
    ASSUME BreaksOff, RowTypes', Settled' => (flagged' = Flags(facts'))
    PROVE  ReviewInv'
  <1>1. visit' = NoVisit /\ halfway' = TRUE
    BY DEF BreaksOff
  <1>2. visit'.at = ""
    BY <1>1 DEF NoVisit
  <1>3. IsVisit(visit')
    BY <1>1, NoVisitIsVisit
  <1> QED
    BY <1>1, <1>2, <1>3 DEF ReviewInv, ReviewTypes, FlagsInv, BuildInv, WholeInv, TypedStays, BuildSteps

-----------------------------------------------------------------------------
(* The steps                                                               *)

LEMMA ReviewInvInit == ReviewInit => ReviewInv
  <1> SUFFICES ASSUME ReviewInit PROVE ReviewInv
    OBVIOUS
  <1>1. visit.at = "" /\ IsVisit(visit)
    BY NoVisitIsVisit DEF ReviewInit, NoVisit
  <1>2. RowTypes /\ ~Settled
    BY DEF ReviewInit, RowTypes, Settled, NoFacts, NoOrigin, Origins
  <1> QED
    BY <1>1, <1>2 DEF ReviewInv, ReviewTypes, FlagsInv, BuildInv, WholeInv, TypedStays, BuildSteps

\* A call that begins has changed nothing yet.
LEMMA Begun ==
    ASSUME ReviewInv, UNCHANGED <<standing, facts, origin, flagged, bundle, told, halfway>>,
           visit.at = "", visit'.at \in {"extracting", "fixed", "approve"}, IsVisit(visit'), TypedStays',
           visit'.at = "approve" => Approvable
    PROVE  ReviewInv'
  <1>1. RowTypes'
    BY DEF ReviewInv, ReviewTypes, RowTypes
  <1>2. FlagsInv'
    BY DEF ReviewInv, FlagsInv, Settled, BuildSteps, Approvable
  <1>3. BuildInv'
    BY DEF BuildInv, BuildSteps
  <1>4. WholeInv'
    BY DEF ReviewInv, WholeInv, Settled
  <1> QED
    BY <1>1, <1>2, <1>3, <1>4 DEF ReviewInv, ReviewTypes

LEMMA BeginsKeep == ASSUME ReviewInv, Upload \/ Correct \/ Approve PROVE ReviewInv'
  <1> USE DEF ReviewInv, ReviewTypes
  <1>1. visit.at = ""
    BY DEF Upload, Correct, Approve, Calls
  <1>2. UNCHANGED <<standing, facts, origin, flagged, bundle, told, halfway>>
    BY DEF submissionRow, Upload, Correct, Approve
  <1>3. ASSUME Upload PROVE ReviewInv'
    <2>1. PICK readings \in Readings :
             visit' = [at |-> "extracting", facts |-> facts, origin |-> origin, todo |-> readings]
      BY <1>3 DEF Upload
    <2>2. visit'.at = "extracting" /\ IsVisit(visit')
      BY <2>1 DEF IsVisit, RowTypes, Places, ReadSteps
    <2>3. TypedStays'
      BY <1>2, <2>1 DEF TypedStays
    <2> QED
      BY <1>1, <1>2, <2>2, <2>3, Begun
  <1>4. ASSUME Correct PROVE ReviewInv'
    <2>1. PICK f \in Entries, value \in Typed :
             visit' = [at |-> "fixed", facts |-> [facts EXCEPT ![f] = value],
                       origin |-> [origin EXCEPT ![f] = "human"], todo |-> <<>>]
      BY <1>4 DEF Correct
    <2>2. [facts EXCEPT ![f] = value] = [g \in Entries |-> IF g = f THEN value ELSE facts[g]]
      BY DEF RowTypes
    <2>3. [origin EXCEPT ![f] = "human"] \in [Entries -> Origins]
      BY DEF RowTypes, Origins
    <2>4. visit'.at = "fixed" /\ IsVisit(visit')
      BY <2>1, <2>2, <2>3 DEF IsVisit, Places
    <2> QED
      BY <1>1, <1>2, <2>4, Begun DEF TypedStays
  <1>5. ASSUME Approve PROVE ReviewInv'
    <2>1. visit' = [NoVisit EXCEPT !.at = "approve"] /\ Approvable
      BY <1>5 DEF Approve
    <2>2. visit'.at = "approve" /\ IsVisit(visit')
      BY <2>1, NoVisitIsVisit, OnTo DEF Places
    <2> QED
      BY <1>1, <1>2, <2>1, <2>2, Begun DEF TypedStays
  <1> QED
    BY <1>3, <1>4, <1>5

\* Reading: nothing of the submission changes but its status, and it is settled no more.
LEMMA ReadingKeeps ==
    ASSUME ReviewInv, UNCHANGED <<facts, origin, flagged, bundle>>, standing' = "extracting", UNCHANGED halfway,
           visit'.at \in {"log extracting", "files"}, IsVisit(visit'), TypedStays'
    PROVE  ReviewInv'
  <1>1. RowTypes'
    BY DEF ReviewInv, ReviewTypes, RowTypes
  <1>2. ~Settled' /\ visit'.at \notin BuildSteps
    BY DEF Settled, BuildSteps
  <1> QED
    BY <1>1, <1>2 DEF ReviewInv, ReviewTypes, FlagsInv, BuildInv, WholeInv, BuildSteps

LEMMA MarkExtractingKeeps == ASSUME ReviewInv, MarkExtracting PROVE ReviewInv'
  <1>1. visit.at = "extracting" /\ UNCHANGED <<facts, origin, flagged, bundle, told>>
    BY DEF MarkExtracting, SetStatus
  <1>2. standing' \in {"extracting", standing}
    BY DEF MarkExtracting, SetStatus, Request
  <1>3. CASE BreaksOff
    <2>1. RowTypes'
      BY <1>1, <1>2, <1>3 DEF ReviewInv, ReviewTypes, RowTypes, BreaksOff
    <2>2. Settled' => flagged' = Flags(facts')
      BY <1>1, <1>2 DEF ReviewInv, FlagsInv, Settled
    <2> QED
      BY <1>3, <2>1, <2>2, BrokenOff
  <1>4. CASE ~BreaksOff
    <2>1. visit' = [visit EXCEPT !.at = "log extracting"] /\ UNCHANGED halfway /\ standing' = "extracting"
      BY <1>4 DEF MarkExtracting, SetStatus, Request, Goes
    <2>2. visit'.at = "log extracting" /\ IsVisit(visit') /\ visit'.facts = visit.facts /\ visit'.origin = visit.origin
      BY <2>1, OnTo DEF ReviewInv, ReviewTypes, Places, ReadSteps
    <2>3. TypedStays'
      BY <1>1, <2>2 DEF ReviewInv, TypedStays
    <2> QED
      BY <1>1, <2>1, <2>2, <2>3, ReadingKeeps
  <1> QED
    BY <1>3, <1>4

LEMMA LogExtractingKeeps == ASSUME ReviewInv, LogExtracting PROVE ReviewInv'
  <1>1. visit.at = "log extracting" /\ standing = "extracting" /\ UNCHANGED <<standing, facts, origin, flagged, bundle>>
    BY DEF LogExtracting, LogStatus, submissionRow, ReviewInv, FlagsInv
  <1>2. CASE BreaksOff
    <2>1. RowTypes' /\ ~Settled'
      BY <1>1, <1>2 DEF ReviewInv, ReviewTypes, RowTypes, BreaksOff, Settled
    <2> QED
      BY <1>2, <2>1, BrokenOff
  <1>3. CASE ~BreaksOff
    <2>1. visit' = [visit EXCEPT !.at = "files"] /\ UNCHANGED halfway
      BY <1>3 DEF LogExtracting, LogStatus, Request, Goes
    <2>2. visit'.at = "files" /\ IsVisit(visit') /\ visit'.facts = visit.facts /\ visit'.origin = visit.origin
      BY <2>1, OnTo DEF ReviewInv, ReviewTypes, Places, ReadSteps
    <2>3. TypedStays'
      BY <1>1, <2>2 DEF ReviewInv, TypedStays
    <2> QED
      BY <1>1, <2>1, <2>2, <2>3, ReadingKeeps
  <1> QED
    BY <1>2, <1>3

LEMMA ReadFileKeeps == ASSUME ReviewInv, ReadFile PROVE ReviewInv'
  <1>1. visit.at = "files" /\ standing = "extracting" /\ UNCHANGED <<standing, facts, origin, flagged, bundle, told>>
    BY DEF ReadFile, submissionRow, ReviewInv, FlagsInv
  <1>2. CASE BreaksOff
    <2>1. RowTypes' /\ ~Settled'
      BY <1>1, <1>2 DEF ReviewInv, ReviewTypes, RowTypes, BreaksOff, Settled
    <2> QED
      BY <1>2, <2>1, BrokenOff
  <1>3. CASE ~BreaksOff
    <2>1. visit' = [WithReading(visit, Head(visit.todo)) EXCEPT !.todo = Tail(visit.todo)] /\ UNCHANGED halfway
      BY <1>3 DEF ReadFile, Request, Goes
    <2>2. /\ IsVisit(visit') /\ visit'.at = visit.at
          /\ \A f \in Entries : visit.facts[f] # Blank => visit'.facts[f] = visit.facts[f] /\ visit'.origin[f] = visit.origin[f]
      <3>1. IsVisit(visit) /\ visit.at \in Places
        BY DEF ReviewInv, ReviewTypes, IsVisit
      <3> DEFINE w == [WithReading(visit, Head(visit.todo)) EXCEPT !.todo = Tail(visit.todo)]
      <3>2. /\ IsVisit(w) /\ w.at = visit.at
            /\ \A f \in Entries : visit.facts[f] # Blank => w.facts[f] = visit.facts[f] /\ w.origin[f] = visit.origin[f]
        BY <3>1, ReadingFills, ZenonT(60)
      <3> HIDE DEF w
      <3>3. visit' = w
        BY <2>1 DEF w
      <3> QED
        BY <3>2, <3>3
    <2>3. TypedStays'
      BY <1>1, <2>2 DEF ReviewInv, TypedStays
    <2> QED
      BY <1>1, <2>1, <2>2, <2>3, ReadingKeeps
  <1> QED
    BY <1>2, <1>3

LEMMA SaveObjectKeeps == ASSUME ReviewInv, SaveObject PROVE ReviewInv'
  <1>1. UNCHANGED <<standing, bundle, told>> /\ visit.at \in {"files", "fixed"}
    BY DEF SaveObject, AllRead
  <1>2. \/ facts' = visit.facts /\ origin' = visit.origin /\ flagged' = Flags(visit.facts)
        \/ UNCHANGED <<facts, origin, flagged>>
    BY DEF SaveObject, Request
  <1>3. RowTypes' \/ halfway' \notin BOOLEAN
    BY <1>1, <1>2, FlagsAreRequired DEF ReviewInv, ReviewTypes, RowTypes, IsVisit
  <1>4. Settled' => flagged' = Flags(facts')
    BY <1>1, <1>2 DEF ReviewInv, FlagsInv, Settled
  <1>5. CASE BreaksOff
    BY <1>3, <1>4, <1>5, BrokenOff DEF BreaksOff
  <1>6. CASE ~BreaksOff
    <2>1. /\ facts' = visit.facts /\ flagged' = Flags(visit.facts)
          /\ visit' = [visit EXCEPT !.at = "clear"] /\ UNCHANGED halfway
      BY <1>6 DEF SaveObject, Request, Goes
    <2>2. visit'.at = "clear" /\ IsVisit(visit') /\ visit'.facts = visit.facts
      BY <2>1, OnTo DEF ReviewInv, ReviewTypes, Places, BuildSteps
    <2>3. RowTypes'
      BY <1>3, <2>1 DEF ReviewInv, ReviewTypes, RowTypes
    <2>4. FlagsInv'
      BY <2>1, <2>2 DEF FlagsInv
    <2>5. BuildInv'
      BY <2>1, <2>2 DEF BuildInv
    <2>6. WholeInv' /\ TypedStays'
      BY <2>2 DEF WholeInv, TypedStays
    <2> QED
      BY <2>2, <2>3, <2>4, <2>5, <2>6 DEF ReviewInv, ReviewTypes
  <1> QED
    BY <1>5, <1>6

\* The deliverables are replaced: the submission itself stands still.
LEMMA Rebuilding ==
    ASSUME ReviewInv, UNCHANGED <<standing, facts, origin, flagged, told, halfway>>,
           visit.at \in BuildSteps, visit'.at \in {"clear", "build", "review"},
           IsVisit(visit'), visit'.facts = visit.facts, \A d \in bundle' : d.kind \in Kinds,
           visit'.at = "build" => bundle' \subseteq Built(facts), visit'.at = "review" => bundle' = Built(facts)
    PROVE  ReviewInv'
  <1>1. RowTypes'
    BY DEF ReviewInv, ReviewTypes, RowTypes
  <1>2. FlagsInv'
    BY DEF ReviewInv, FlagsInv, BuildSteps
  <1>3. BuildInv'
    BY DEF ReviewInv, BuildInv
  <1>4. WholeInv' /\ TypedStays'
    BY DEF WholeInv, TypedStays
  <1> QED
    BY <1>1, <1>2, <1>3, <1>4 DEF ReviewInv, ReviewTypes

\* Broken off between two of them: what was there, or was to be, has its kind.
LEMMA BrokenOffRebuilding ==
    ASSUME ReviewInv, BreaksOff, UNCHANGED <<standing, facts, origin, flagged>>, \A d \in bundle' : d.kind \in Kinds
    PROVE  ReviewInv'
  <1>1. RowTypes'
    BY DEF ReviewInv, ReviewTypes, RowTypes, BreaksOff
  <1>2. Settled' => flagged' = Flags(facts')
    BY DEF ReviewInv, FlagsInv, Settled
  <1> QED
    BY <1>1, <1>2, BrokenOff

LEMMA DeleteOldKeeps == ASSUME ReviewInv, DeleteOld PROVE ReviewInv'
  <1>1. visit.at = "clear" /\ UNCHANGED <<standing, facts, origin, flagged, told>>
    BY DEF DeleteOld, submissionRow
  <1>2. bundle' \subseteq bundle
    BY DEF DeleteOld, Request
  <1>3. \A d \in bundle' : d.kind \in Kinds
    BY <1>2 DEF ReviewInv, ReviewTypes, RowTypes
  <1>4. CASE BreaksOff
    BY <1>1, <1>3, <1>4, BrokenOffRebuilding
  <1>5. CASE ~BreaksOff
    <2>1. CASE visit' = visit /\ UNCHANGED halfway
      BY <1>1, <1>3, <2>1, Rebuilding DEF ReviewInv, ReviewTypes, BuildSteps
    <2>2. CASE visit' = [visit EXCEPT !.at = "build"] /\ UNCHANGED halfway /\ bundle = {}
      <3>1. visit'.at = "build" /\ IsVisit(visit') /\ visit'.facts = visit.facts
        BY <2>2, OnTo DEF ReviewInv, ReviewTypes, Places, BuildSteps
      <3> QED
        BY <1>1, <1>2, <1>3, <2>2, <3>1, Rebuilding DEF BuildSteps
    <2> QED
      BY <1>5, <2>1, <2>2 DEF DeleteOld, Request, Goes, Outdated
  <1> QED
    BY <1>4, <1>5

LEMMA InsertNewKeeps == ASSUME ReviewInv, InsertNew PROVE ReviewInv'
  <1>1. visit.at = "build" /\ UNCHANGED <<standing, facts, origin, flagged, told>> /\ visit.facts = facts
    BY DEF InsertNew, submissionRow, ReviewInv, BuildInv, BuildSteps
  <1>2. bundle \subseteq Built(facts) /\ bundle' \subseteq bundle \cup Built(facts)
    BY <1>1 DEF InsertNew, Request, ReviewInv, BuildInv
  <1>3. \A d \in bundle' : d.kind \in Kinds
    BY <1>2, BuiltKinds
  <1>4. CASE BreaksOff
    BY <1>1, <1>3, <1>4, BrokenOffRebuilding
  <1>5. CASE ~BreaksOff
    <2>1. CASE visit' = visit /\ UNCHANGED halfway
      BY <1>1, <1>2, <1>3, <2>1, Rebuilding DEF ReviewInv, ReviewTypes, BuildSteps
    <2>2. CASE visit' = [visit EXCEPT !.at = "review"] /\ UNCHANGED <<halfway, bundle>> /\ Built(visit.facts) \ bundle = {}
      <3>1. visit'.at = "review" /\ IsVisit(visit') /\ visit'.facts = visit.facts
        BY <2>2, OnTo DEF ReviewInv, ReviewTypes, Places, BuildSteps
      <3>2. bundle' = Built(facts)
        BY <1>1, <1>2, <2>2
      <3> QED
        BY <1>1, <1>3, <2>2, <3>1, <3>2, Rebuilding DEF BuildSteps
    <2> QED
      BY <1>5, <2>1, <2>2 DEF InsertNew, Request, Goes
  <1> QED
    BY <1>4, <1>5

LEMMA MarkInReviewKeeps == ASSUME ReviewInv, MarkInReview PROVE ReviewInv'
  <1>1. visit.at = "review" /\ UNCHANGED <<facts, origin, flagged, bundle, told>>
    BY DEF MarkInReview, SetStatus
  <1>2. standing' \in {"in_review", standing}
    BY DEF MarkInReview, SetStatus, Request
  <1>3. flagged = Flags(facts) /\ bundle = Built(facts) /\ visit.facts = facts
    BY <1>1 DEF ReviewInv, FlagsInv, BuildInv, BuildSteps
  <1>4. CASE BreaksOff
    <2>1. RowTypes'
      BY <1>1, <1>2, <1>4 DEF ReviewInv, ReviewTypes, RowTypes, BreaksOff
    <2> QED
      BY <1>1, <1>3, <1>4, <2>1, BrokenOff
  <1>5. CASE ~BreaksOff
    <2>1. visit' = [visit EXCEPT !.at = "log review"] /\ UNCHANGED halfway /\ standing' = "in_review"
      BY <1>5 DEF MarkInReview, SetStatus, Request, Goes
    <2>2. visit'.at = "log review" /\ IsVisit(visit') /\ visit'.facts = visit.facts
      BY <2>1, OnTo DEF ReviewInv, ReviewTypes, Places, BuildSteps
    <2>3. RowTypes'
      BY <1>1, <2>1 DEF ReviewInv, ReviewTypes, RowTypes
    <2>4. FlagsInv'
      BY <1>1, <1>3, <2>2 DEF FlagsInv
    <2>5. BuildInv'
      BY <1>1, <1>3, <2>1, <2>2 DEF BuildInv
    <2>6. WholeInv' /\ TypedStays'
      BY <2>2 DEF WholeInv, TypedStays
    <2> QED
      BY <2>2, <2>3, <2>4, <2>5, <2>6 DEF ReviewInv, ReviewTypes
  <1> QED
    BY <1>4, <1>5

\* The call has gone through, whatever broke off before it.
LEMMA LogInReviewKeeps == ASSUME ReviewInv, LogInReview PROVE ReviewInv'
  <1>1. visit.at = "log review" /\ UNCHANGED <<standing, facts, origin, flagged, bundle>>
    BY DEF LogInReview, submissionRow
  <1>2. flagged = Flags(facts) /\ bundle = Built(facts) /\ standing = "in_review"
    BY <1>1 DEF ReviewInv, FlagsInv, BuildInv, BuildSteps
  <1>3. CASE BreaksOff
    BY <1>1, <1>3, BrokenOffRebuilding DEF ReviewInv, ReviewTypes, RowTypes
  <1>4. CASE ~BreaksOff
    <2>1. told' = standing /\ visit' = NoVisit /\ halfway' = FALSE
      BY <1>4 DEF LogInReview
    <2>2. visit'.at = "" /\ IsVisit(visit')
      BY <2>1, NoVisitIsVisit DEF NoVisit
    <2>3. RowTypes'
      BY <1>1, <2>1 DEF ReviewInv, ReviewTypes, RowTypes
    <2>4. FlagsInv'
      BY <1>1, <1>2, <2>2 DEF FlagsInv, BuildSteps
    <2>5. BuildInv' /\ TypedStays'
      BY <2>2 DEF BuildInv, BuildSteps, TypedStays
    <2>6. WholeInv'
      BY <1>1, <1>2, <2>1 DEF WholeInv
    <2> QED
      BY <2>2, <2>3, <2>4, <2>5, <2>6 DEF ReviewInv, ReviewTypes
  <1> QED
    BY <1>3, <1>4

LEMMA MarkApprovedKeeps == ASSUME ReviewInv, MarkApproved PROVE ReviewInv'
  <1>1. visit.at = "approve" /\ UNCHANGED <<facts, origin, flagged, bundle, told>>
    BY DEF MarkApproved, SetStatus
  <1>2. standing' \in {"approved", standing}
    BY DEF MarkApproved, SetStatus, Request
  <1>3. flagged = Flags(facts) /\ flagged = {} /\ standing = "in_review"
    BY <1>1 DEF ReviewInv, FlagsInv, Settled
  <1>4. CASE BreaksOff
    <2>1. RowTypes'
      BY <1>1, <1>2, <1>4 DEF ReviewInv, ReviewTypes, RowTypes, BreaksOff
    <2> QED
      BY <1>1, <1>3, <1>4, <2>1, BrokenOff
  <1>5. CASE ~BreaksOff
    <2>1. visit' = [visit EXCEPT !.at = "log approved"] /\ UNCHANGED halfway /\ standing' = "approved"
      BY <1>5 DEF MarkApproved, SetStatus, Request, Goes
    <2>2. visit'.at = "log approved" /\ IsVisit(visit')
      BY <2>1, OnTo DEF ReviewInv, ReviewTypes, Places
    <2>3. RowTypes'
      BY <1>1, <2>1 DEF ReviewInv, ReviewTypes, RowTypes
    <2>4. FlagsInv'
      BY <1>1, <1>3, <2>1, <2>2 DEF FlagsInv
    <2>5. BuildInv' /\ TypedStays'
      BY <2>2 DEF BuildInv, BuildSteps, TypedStays
    <2>6. WholeInv'
      <3>1. ~halfway => bundle = Built(facts)
        BY <1>1, <1>3 DEF ReviewInv, WholeInv, Settled
      <3> QED
        BY <1>1, <2>1, <2>2, <3>1 DEF WholeInv
    <2> QED
      BY <2>2, <2>3, <2>4, <2>5, <2>6 DEF ReviewInv, ReviewTypes
  <1> QED
    BY <1>4, <1>5

LEMMA LogApprovedKeeps == ASSUME ReviewInv, LogApproved PROVE ReviewInv'
  <1>1. visit.at = "log approved" /\ UNCHANGED <<standing, facts, origin, flagged, bundle>>
    BY DEF LogApproved, LogStatus, submissionRow
  <1>2. flagged = Flags(facts) /\ flagged = {} /\ standing = "approved"
    BY <1>1 DEF ReviewInv, FlagsInv, Settled
  <1>3. CASE BreaksOff
    BY <1>1, <1>3, BrokenOffRebuilding DEF ReviewInv, ReviewTypes, RowTypes
  <1>4. CASE ~BreaksOff
    <2>1. told' = standing /\ visit' = NoVisit /\ UNCHANGED halfway
      BY <1>4 DEF LogApproved, LogStatus, Request, Goes
    <2>2. visit'.at = "" /\ IsVisit(visit')
      BY <2>1, NoVisitIsVisit DEF NoVisit
    <2>3. RowTypes'
      BY <1>1, <2>1 DEF ReviewInv, ReviewTypes, RowTypes
    <2>4. FlagsInv'
      BY <1>1, <1>2, <2>2 DEF FlagsInv, BuildSteps
    <2>5. BuildInv' /\ TypedStays'
      BY <2>2 DEF BuildInv, BuildSteps, TypedStays
    <2>6. WholeInv'
      <3>1. ~halfway => bundle = Built(facts)
        BY <1>1, <1>2 DEF ReviewInv, WholeInv, Settled
      <3> QED
        BY <1>1, <1>2, <2>1, <3>1 DEF WholeInv
    <2> QED
      BY <2>2, <2>3, <2>4, <2>5, <2>6 DEF ReviewInv, ReviewTypes
  <1> QED
    BY <1>3, <1>4

LEMMA ReviewIdleKeeps == ASSUME ReviewInv, UNCHANGED reviewVars PROVE ReviewInv'
  <1>1. UNCHANGED <<standing, facts, origin, flagged, bundle, told, visit, halfway>>
    BY DEF reviewVars, submissionRow
  <1>2. ReviewTypes' /\ FlagsInv' /\ BuildInv'
    BY <1>1 DEF ReviewInv, ReviewTypes, RowTypes, FlagsInv, BuildInv, Settled
  <1>3. WholeInv' /\ TypedStays'
    BY <1>1 DEF ReviewInv, WholeInv, TypedStays, Settled
  <1> QED
    BY <1>2, <1>3 DEF ReviewInv

-----------------------------------------------------------------------------

\* The invariant, for every lane, every reading and any number of calls that break off.
THEOREM ReviewInvariant == ReviewSpec => []ReviewInv
  <1>1. ASSUME ReviewInv, [ReviewNext]_reviewVars PROVE ReviewInv'
    BY <1>1, BeginsKeep, MarkExtractingKeeps, LogExtractingKeeps, ReadFileKeeps, SaveObjectKeeps, DeleteOldKeeps,
       InsertNewKeeps, MarkInReviewKeeps, LogInReviewKeeps, MarkApprovedKeeps, LogApprovedKeeps, ReviewIdleKeeps
    DEF ReviewNext
  <1> QED
    BY <1>1, ReviewInvInit, PTL DEF ReviewSpec

\* What a reviewer relies on: a submission that may leave lacks nothing, its deliverables are
\* of the object as it stands and its trail says approved, unless a call broke off since; and
\* no document replaces what a person typed (command_center/service.py, review.py, store.py).
THEOREM ReviewIsSafe == ReviewSpec => []ReviewSafe
  <1>1. ReviewInv => ReviewSafe
    <2> SUFFICES ASSUME ReviewInv PROVE ReviewSafe
      OBVIOUS
    <2>1. ReviewTypeOK
      BY DEF ReviewInv, ReviewTypes, RowTypes, ReviewTypeOK, Origins
    <2>2. ReleasedIsWhole
      BY DEF ReviewInv, ReviewTypes, RowTypes, ReleasedIsWhole, Released, WholeInv, FlagsInv, Settled
    <2> QED
      BY <2>1, <2>2 DEF ReviewSafe, ReviewInv
  <1> QED
    BY <1>1, ReviewInvariant, PTL


-----------------------------------------------------------------------------
(* NewDeals, for any number of clients, lines, overlapping commits and     *)
(* failures: rows, leads, accounts and deals agree with one another.       *)

DealRecord == [guid : BOOLEAN, account : Nat, deals : SUBSET Nat]
DeskSteps == {"open", "insert", "convert", "adopt", "account", "newaccount", "deals", "stamp", "done", "raised"}
Desk == [step : DeskSteps, kind : {"intake", "lead"}, client : Clients, lines : SUBSET Lines,
         todo : SUBSET Lines, line : Lines \cup {NoDeal}, account : Nat, made : SUBSET Nat]

ZohoIds == {d.id : d \in zohoDeals}

\* Accounts and deals of Zoho are counted, and a deal is of an account that exists.
ZohoCounted ==
    /\ IsFiniteSet(DOMAIN zohoAccounts) /\ DOMAIN zohoAccounts = 1..Cardinality(DOMAIN zohoAccounts)
    /\ IsFiniteSet(zohoDeals)
    /\ \A d \in zohoDeals : d.id \in 1..Cardinality(zohoDeals) /\ d.account \in DOMAIN zohoAccounts /\ d.line \in Lines

RowAt(c, l) == dealRows[<<c, l>>] # NoDeal

\* What a row or a commit says of Zoho: an account of the client, and deals of the account.
SaysTrue(c, account, ids) ==
    /\ account \in DOMAIN zohoAccounts /\ zohoAccounts[account] = c
    /\ \A d \in zohoDeals : d.id \in ids => d.account = account

RowTrue(c, l) ==
    RowAt(c, l) =>
        /\ dealRows[<<c, l>>].deals \subseteq ZohoIds
        /\ dealRows[<<c, l>>].account # 0 => SaysTrue(c, dealRows[<<c, l>>].account, dealRows[<<c, l>>].deals)
RowsTrue ==
    /\ dealRows \in [Clients \X Lines -> {NoDeal} \cup DealRecord]
    /\ \A c \in Clients, l \in Lines : RowTrue(c, l)

Opening == {"open", "insert"}
OpenedSteps == {"convert", "adopt", "account", "newaccount", "deals", "stamp"}
NothingMade == {"open", "insert", "convert", "adopt", "account", "newaccount", "raised"}

\* A commit has opened the lines it is done with, all of them before it converts or
\* adopts; and it makes deals of the account it found or made, and of no other.
DeskHeld(w) ==
    w.step # "free" =>
        /\ w \in Desk /\ w.lines # {} /\ w.todo \subseteq w.lines
        /\ w.step = "insert" => w.line \in w.todo
        /\ w.step \in Opening => \A l \in w.lines \ w.todo : RowAt(w.client, l)
        /\ w.step \in OpenedSteps => \A l \in w.lines : RowAt(w.client, l)
        /\ w.step \in NothingMade => w.made = {}
        /\ w.step \in {"deals", "stamp"} => w.made \subseteq ZohoIds /\ SaysTrue(w.client, w.account, w.made)
DesksHeld == DOMAIN desks = Stations /\ \A p \in Stations : DeskHeld(desks[p])

LeadRecord == [status : LeadStatuses \cup {"deleted"}, line : Lines \cup {NoDeal}]
LeadsTrue == leads \in [Clients -> LeadRecord] /\ ConvertedHasDeal

DealCounts == commits \in 0..MaxCommits /\ dealFaults \in 0..MaxDealFaults

DealsInv == ZohoCounted /\ RowsTrue /\ DesksHeld /\ LeadsTrue /\ DealCounts


-----------------------------------------------------------------------------
(* What a commit becomes                                                   *)

LEMMA FreshRecord ==
    /\ FreshDeal \in DealRecord /\ FreshDeal # NoDeal
    /\ FreshDeal.account = 0 /\ FreshDeal.deals = {}
  <1>1. FreshDeal \in DealRecord
    BY DEF FreshDeal, DealRecord
  <1> QED
    BY <1>1, NewDealsAssumption DEF FreshDeal, DealRecord

LEMMA RecordIsDeal == ASSUME NEW r \in DealRecord PROVE r # NoDeal
  BY NewDealsAssumption DEF DealRecord

\* Onward: the next line, or after the last one the next step with all of them to do.
SameWork(n, w) ==
    /\ n.kind = w.kind /\ n.client = w.client /\ n.lines = w.lines
    /\ n.line = w.line /\ n.account = w.account /\ n.made = w.made
MovedOn(n, w, l, s, t) ==
    \/ n.step = t /\ n.todo = w.lines /\ w.todo \ {l} = {}
    \/ n.step = s /\ n.todo = w.todo \ {l}

LEMMA DeskOnward ==
    ASSUME NEW w \in Desk, NEW l, NEW s \in DeskSteps, NEW t \in DeskSteps, NEW n, n = Onward(w, l, s, t)
    PROVE  n \in Desk /\ SameWork(n, w) /\ MovedOn(n, w, l, s, t)
  <1>1. w.lines \in SUBSET Lines /\ w.todo \in SUBSET Lines /\ w.todo \ {l} \in SUBSET Lines
    BY DEF Desk
  <1>2. CASE w.todo \ {l} = {}
    <2>1. n = [w EXCEPT !.step = t, !.todo = w.lines]
      BY <1>2 DEF Onward
    <2> QED
      BY <1>1, <1>2, <2>1 DEF Desk, SameWork, MovedOn
  <1>3. CASE w.todo \ {l} # {}
    <2>1. n = [w EXCEPT !.step = s, !.todo = w.todo \ {l}]
      BY <1>3 DEF Onward
    <2> QED
      BY <1>1, <1>3, <2>1 DEF Desk, SameWork, MovedOn
  <1> QED
    BY <1>2, <1>3

-----------------------------------------------------------------------------
(* What a step leaves as it is                                             *)

\* Rows and accounts stay, and a new deal has an id that none had.
Grown ==
    /\ \A c \in Clients, l \in Lines : RowAt(c, l) => RowAt(c, l)'
    /\ \A a \in DOMAIN zohoAccounts : a \in DOMAIN zohoAccounts' /\ zohoAccounts'[a] = zohoAccounts[a]
    /\ zohoDeals \subseteq zohoDeals'
    /\ \A d \in zohoDeals' : d.id \in ZohoIds => d \in zohoDeals

LEMMA SaysStill ==
    ASSUME Grown, NEW c, NEW a, NEW ids, ids \subseteq ZohoIds, SaysTrue(c, a, ids)
    PROVE  SaysTrue(c, a, ids)' /\ ids \subseteq ZohoIds'
  BY DEF Grown, SaysTrue, ZohoIds

LEMMA DeskStill ==
    ASSUME Grown, NEW w, DeskHeld(w) PROVE DeskHeld(w)'
  <1> SUFFICES ASSUME w.step # "free" PROVE DeskHeld(w)'
    BY DEF DeskHeld
  <1>1. /\ w \in Desk /\ w.lines # {} /\ w.todo \subseteq w.lines
        /\ w.step = "insert" => w.line \in w.todo
        /\ w.step \in NothingMade => w.made = {}
    BY DEF DeskHeld
  <1>2. w.client \in Clients /\ w.lines \subseteq Lines
    BY <1>1 DEF Desk
  <1>3. w.step \in Opening => \A l \in w.lines \ w.todo : RowAt(w.client, l)'
    BY <1>2 DEF DeskHeld, Grown
  <1>4. w.step \in OpenedSteps => \A l \in w.lines : RowAt(w.client, l)'
    BY <1>2 DEF DeskHeld, Grown
  <1>5. w.step \in {"deals", "stamp"} => w.made \subseteq ZohoIds' /\ SaysTrue(w.client, w.account, w.made)'
    BY SaysStill DEF DeskHeld
  <1> QED
    BY <1>1, <1>3, <1>4, <1>5 DEF DeskHeld

LEMMA OneDesk ==
    ASSUME DesksHeld, Grown, NEW p \in Stations, NEW n, DeskTo(p, n), DeskHeld(n)'
    PROVE  DesksHeld'
  <1>1. DOMAIN desks' = Stations /\ desks'[p] = n /\ \A q \in Stations : q # p => desks'[q] = desks[q]
    BY DEF DesksHeld, DeskTo
  <1>2. \A q \in Stations : DeskHeld(desks[q])'
    <2> SUFFICES ASSUME NEW q \in Stations PROVE DeskHeld(desks[q])'
      OBVIOUS
    <2>1. CASE q = p
      BY <1>1, <2>1 DEF DeskHeld, RowAt, SaysTrue, ZohoIds
    <2>2. CASE q # p
      <3> DEFINE w == desks[q]
      <3>1. DeskHeld(w)
        BY DEF DesksHeld
      <3> QED
        BY <1>1, <2>2, <3>1, DeskStill DEF DeskHeld, RowAt, SaysTrue, ZohoIds
    <2> QED
      BY <2>1, <2>2
  <1> QED
    BY <1>1, <1>2 DEF DesksHeld

LEMMA RowStill ==
    ASSUME RowsTrue, Grown, NEW c \in Clients, NEW l \in Lines, dealRows'[<<c, l>>] = dealRows[<<c, l>>]
    PROVE  RowTrue(c, l)'
  <1> SUFFICES ASSUME RowAt(c, l) PROVE RowTrue(c, l)'
    BY DEF RowTrue, RowAt
  <1> DEFINE r == dealRows[<<c, l>>]
  <1>1. r.deals \subseteq ZohoIds /\ (r.account # 0 => SaysTrue(c, r.account, r.deals))
    BY DEF RowsTrue, RowTrue
  <1>2. r.deals \subseteq ZohoIds' /\ (r.account # 0 => SaysTrue(c, r.account, r.deals)')
    BY <1>1, SaysStill DEF Grown, ZohoIds
  <1> QED
    BY <1>2 DEF RowTrue, SaysTrue, ZohoIds

LEMMA LeadsStill ==
    ASSUME LeadsTrue, Grown, leads' = leads PROVE LeadsTrue'
  <1>1. leads' \in [Clients -> LeadRecord]
    BY DEF LeadsTrue
  <1>2. ConvertedHasDeal'
    <2> SUFFICES ASSUME NEW c \in Clients, leads[c].line # NoDeal PROVE RowAt(c, leads[c].line)'
      BY DEF ConvertedHasDeal, RowAt
    <2>1. leads[c] \in LeadRecord
      BY DEF LeadsTrue
    <2>2. leads[c].line \in Lines
      BY <2>1 DEF LeadRecord
    <2>3. RowAt(c, leads[c].line)
      BY DEF LeadsTrue, ConvertedHasDeal, RowAt
    <2> QED
      BY <2>2, <2>3 DEF Grown
  <1> QED
    BY <1>1, <1>2 DEF LeadsTrue

\* A step that only moves one commit on.
LEMMA MoveKeeps ==
    ASSUME DealsInv, NEW p \in Stations, NEW n, DeskTo(p, n), DeskHeld(n), DealCounts',
           dealRows' = dealRows, zohoAccounts' = zohoAccounts, zohoDeals' = zohoDeals, leads' = leads
    PROVE  DealsInv'
  <1>1. Grown
    BY DEF Grown, RowAt, ZohoIds
  <1>2. DesksHeld'
    BY <1>1, OneDesk, DeskStill DEF DealsInv
  <1>3. LeadsTrue'
    BY <1>1, LeadsStill DEF DealsInv
  <1>4. ZohoCounted'
    BY DEF DealsInv, ZohoCounted
  <1>5. RowsTrue'
    BY <1>1, RowStill DEF DealsInv, RowsTrue
  <1> QED
    BY <1>2, <1>3, <1>4, <1>5 DEF DealsInv


-----------------------------------------------------------------------------
(* NewDealsInit and the steps of a commit                                  *)

LEMMA CountAfter ==
    ASSUME DealCounts
    PROVE  /\ commits < MaxCommits => commits + 1 \in 0..MaxCommits
           /\ dealFaults < MaxDealFaults => dealFaults + 1 \in 0..MaxDealFaults
  BY NewDealsAssumption DEF DealCounts

LEMMA DealsInvInit == NewDealsInit => DealsInv
  <1> SUFFICES ASSUME NewDealsInit PROVE DealsInv
    OBVIOUS
  <1>1. ZohoCounted
    <2>1. DOMAIN zohoAccounts = {} /\ zohoDeals = {}
      BY DEF NewDealsInit
    <2>2. IsFiniteSet({}) /\ Cardinality({}) = 0
      BY FS_EmptySet
    <2>3. 1..0 = {}
      OBVIOUS
    <2> QED
      BY <2>1, <2>2, <2>3 DEF ZohoCounted
  <1>2. RowsTrue
    BY DEF NewDealsInit, RowsTrue, RowTrue, RowAt
  <1>3. DesksHeld
    BY DEF NewDealsInit, DesksHeld, DeskHeld, FreeDesk
  <1>4. LeadsTrue
    BY DEF NewDealsInit, LeadsTrue, LeadRecord, LeadStatuses, ConvertedHasDeal
  <1>5. DealCounts
    BY NewDealsAssumption DEF NewDealsInit, DealCounts
  <1> QED
    BY <1>1, <1>2, <1>3, <1>4, <1>5 DEF DealsInv

NewCommit(kind, c, ls) ==
    [step |-> "open", kind |-> kind, client |-> c, lines |-> ls, todo |-> ls, line |-> NoDeal, account |-> 0, made |-> {}]

LEMMA NewCommitHeld ==
    ASSUME NEW kind \in {"intake", "lead"}, NEW c \in Clients, NEW ls \in (SUBSET Lines) \ {{}}
    PROVE  DeskHeld(NewCommit(kind, c, ls))
  <1> DEFINE n == NewCommit(kind, c, ls)
  <1>1. n \in Desk
    BY DEF NewCommit, Desk, DeskSteps
  <1>2. n.step = "open" /\ n.lines = ls /\ n.todo = ls /\ n.made = {}
    BY DEF NewCommit
  <1> HIDE DEF n
  <1>3. DeskHeld(n)
    BY <1>1, <1>2 DEF DeskHeld, Opening, OpenedSteps
  <1> QED
    BY <1>3 DEF n

LEMMA StartIntakeKeeps ==
    ASSUME DealsInv, NEW p \in Stations, NEW c \in Clients, NEW ls \in (SUBSET Lines) \ {{}}, StartIntake(p, c, ls)
    PROVE  DealsInv'
  <1>1. DeskTo(p, NewCommit("intake", c, ls)) /\ DeskHeld(NewCommit("intake", c, ls))
    BY NewCommitHeld DEF StartIntake, NewCommit
  <1>2. DealCounts'
    BY CountAfter DEF DealsInv, StartIntake, DealCounts
  <1> QED
    BY <1>1, <1>2, MoveKeeps DEF StartIntake

LEMMA StartConversionKeeps ==
    ASSUME DealsInv, NEW p \in Stations, NEW c \in Clients, NEW l \in Lines, StartConversion(p, c, l)
    PROVE  DealsInv'
  <1>1. DeskTo(p, NewCommit("lead", c, {l})) /\ DeskHeld(NewCommit("lead", c, {l}))
    BY NewCommitHeld DEF StartConversion, NewCommit
  <1>2. DealCounts'
    BY CountAfter DEF DealsInv, StartConversion, DealCounts
  <1> QED
    BY <1>1, <1>2, MoveKeeps DEF StartConversion

\* A commit that has opened a line goes on to the next one, or converts or adopts.
LEMMA OpenedOnward ==
    ASSUME NEW w, DeskHeld(w), w.step \in Opening, NEW l \in w.todo,
           \A k \in w.lines : k \in w.lines \ w.todo \/ k = l => dealRows'[<<w.client, k>>] # NoDeal,
           NEW n, n = Onward(w, l, "open", AfterOpen(w))
    PROVE  DeskHeld(n)'
  <1>1. /\ w \in Desk /\ w.lines # {} /\ w.todo \subseteq w.lines /\ w.made = {}
    BY DEF DeskHeld, Opening, NothingMade
  <1>2. AfterOpen(w) \in {"convert", "adopt"}
    BY DEF AfterOpen
  <1>3. "open" \in DeskSteps /\ AfterOpen(w) \in DeskSteps
    BY <1>2 DEF DeskSteps
  <1>4. n \in Desk /\ SameWork(n, w) /\ MovedOn(n, w, l, "open", AfterOpen(w))
    BY <1>1, <1>3, DeskOnward
  <1>5. CASE n.step = AfterOpen(w) /\ n.todo = w.lines /\ w.todo \ {l} = {}
    BY <1>1, <1>2, <1>4, <1>5 DEF DeskHeld, Opening, OpenedSteps, SameWork, RowAt
  <1>6. CASE n.step = "open" /\ n.todo = w.todo \ {l}
    BY <1>1, <1>4, <1>6 DEF DeskHeld, Opening, OpenedSteps, SameWork, RowAt
  <1> QED
    BY <1>4, <1>5, <1>6 DEF MovedOn

LEMMA FindDealKeeps ==
    ASSUME DealsInv, NEW p \in Stations, NEW l \in Lines, FindDeal(p, l)
    PROVE  DealsInv'
  <1> DEFINE w == desks[p]
  <1>1. DeskHeld(w) /\ w.step = "open" /\ l \in w.todo
    BY DEF DealsInv, DesksHeld, FindDeal, InTurn
  <1>2. w \in Desk /\ w.todo \subseteq w.lines /\ w.made = {} /\ w.lines # {} /\ w.client \in Clients
        /\ \A k \in w.lines \ w.todo : RowAt(w.client, k)
    BY <1>1 DEF DeskHeld, Opening, NothingMade, Desk
  <1>3. DealCounts'
    BY DEF FindDeal, DealsInv, DealCounts
  <1>4. CASE RowAt(w.client, l)
    <2>1. PICK n : n = Onward(w, l, "open", AfterOpen(w))
      OBVIOUS
    <2>2. DeskTo(p, n)
      BY <1>4, <2>1 DEF FindDeal, RowAt
    <2>3. \A k \in w.lines : k \in w.lines \ w.todo \/ k = l => dealRows'[<<w.client, k>>] # NoDeal
      BY <1>2, <1>4 DEF FindDeal, RowAt
    <2>4. DeskHeld(n)'
      BY <1>1, <2>1, <2>3, OpenedOnward DEF Opening
    <2>5. DeskHeld(n)
      BY <2>4 DEF DeskHeld, RowAt, SaysTrue, ZohoIds, FindDeal
    <2> QED
      BY <1>3, <2>2, <2>5, MoveKeeps DEF FindDeal
  <1>5. CASE ~RowAt(w.client, l)
    <2> DEFINE n == [w EXCEPT !.step = "insert", !.line = l]
    <2>1. DeskTo(p, n)
      BY <1>5 DEF FindDeal, RowAt
    <2>2. /\ n \in Desk /\ n.step = "insert" /\ n.client = w.client /\ n.lines = w.lines
          /\ n.todo = w.todo /\ n.line = l /\ n.made = w.made
      BY <1>2 DEF Desk, DeskSteps
    <2> HIDE DEF n
    <2>3. DeskHeld(n)
      BY <1>1, <1>2, <2>2 DEF DeskHeld, Opening, OpenedSteps
    <2> QED
      BY <1>3, <2>1, <2>3, MoveKeeps DEF FindDeal
  <1> QED
    BY <1>4, <1>5

LEMMA OpeningFailsKeeps ==
    ASSUME DealsInv, NEW p \in Stations, OpeningFails(p)
    PROVE  DealsInv'
  <1> DEFINE w == desks[p]
  <1>1. DeskHeld(w) /\ w.step \in {"open", "insert", "convert"}
    BY DEF DealsInv, DesksHeld, OpeningFails
  <1>2. w \in Desk /\ w.todo \subseteq w.lines /\ w.made = {} /\ w.lines # {}
    BY <1>1 DEF DeskHeld, NothingMade
  <1> DEFINE n == [w EXCEPT !.step = "raised"]
  <1>3. DeskTo(p, n)
    BY DEF OpeningFails, AfterFailedOpening
  <1>4. n \in Desk /\ n.step = "raised" /\ n.lines = w.lines /\ n.todo = w.todo /\ n.made = w.made
    BY <1>2 DEF Desk, DeskSteps
  <1>5. DealCounts'
    BY CountAfter DEF OpeningFails, DealFault, DealsInv, DealCounts
  <1> HIDE DEF n
  <1>6. DeskHeld(n)
    BY <1>2, <1>4 DEF DeskHeld, Opening, OpenedSteps
  <1> QED
    BY <1>3, <1>5, <1>6, MoveKeeps DEF OpeningFails


LEMMA InsertDealKeeps ==
    ASSUME DealsInv, NEW p \in Stations, InsertDeal(p)
    PROVE  DealsInv'
  <1> DEFINE w == desks[p]
  <1>1. DeskHeld(w) /\ w.step = "insert"
    BY DEF DealsInv, DesksHeld, InsertDeal
  <1>2. /\ w \in Desk /\ w.todo \subseteq w.lines /\ w.made = {} /\ w.lines # {} /\ w.client \in Clients
        /\ w.line \in w.todo /\ w.line \in Lines
        /\ \A k \in w.lines \ w.todo : RowAt(w.client, k)
    BY <1>1 DEF DeskHeld, Opening, NothingMade, Desk
  <1>3. DealCounts'
    BY DEF InsertDeal, DealsInv, DealCounts
  <1>4. CASE RowAt(w.client, w.line)
    <2> DEFINE n == [w EXCEPT !.step = "raised"]
    <2>1. DeskTo(p, n) /\ dealRows' = dealRows
      BY <1>4 DEF InsertDeal, RowAt
    <2>2. n \in Desk /\ n.step = "raised" /\ n.lines = w.lines /\ n.todo = w.todo /\ n.made = w.made
      BY <1>2 DEF Desk, DeskSteps
    <2> HIDE DEF n
    <2>3. DeskHeld(n)
      BY <1>2, <2>2 DEF DeskHeld, Opening, OpenedSteps
    <2> QED
      BY <1>3, <2>1, <2>3, MoveKeeps DEF InsertDeal
  <1>5. CASE ~RowAt(w.client, w.line)
    <2>1. PICK n : n = Onward(w, w.line, "open", AfterOpen(w))
      OBVIOUS
    <2>2. DeskTo(p, n) /\ dealRows' = [dealRows EXCEPT ![<<w.client, w.line>>] = FreshDeal]
      BY <1>5, <2>1 DEF InsertDeal, RowAt
    <2>3. <<w.client, w.line>> \in Clients \X Lines
      BY <1>2
    <2>4. /\ dealRows' \in [Clients \X Lines -> {NoDeal} \cup DealRecord]
          /\ dealRows'[<<w.client, w.line>>] = FreshDeal
          /\ \A key \in Clients \X Lines : key # <<w.client, w.line>> => dealRows'[key] = dealRows[key]
      BY <2>2, <2>3, FreshRecord DEF DealsInv, RowsTrue
    <2>5. Grown
      BY <2>4, FreshRecord DEF Grown, RowAt, ZohoIds, InsertDeal
    <2>6. RowsTrue'
      <3>1. ASSUME NEW c \in Clients, NEW l \in Lines PROVE RowTrue(c, l)'
        <4>1. CASE <<c, l>> = <<w.client, w.line>>
          BY <2>4, <4>1, FreshRecord DEF RowTrue
        <4>2. CASE <<c, l>> # <<w.client, w.line>>
          <5>1. dealRows'[<<c, l>>] = dealRows[<<c, l>>]
            BY <2>4, <4>2
          <5> QED
            BY <2>5, <5>1, RowStill DEF DealsInv
        <4> QED
          BY <4>1, <4>2
      <3> QED
        BY <2>4, <3>1 DEF RowsTrue
    <2>7. \A k \in w.lines : k \in w.lines \ w.todo \/ k = w.line => dealRows'[<<w.client, k>>] # NoDeal
      BY <1>2, <2>4, FreshRecord DEF RowAt, Desk
    <2>9. DeskHeld(n)'
      BY <1>1, <1>2, <2>1, <2>7, OpenedOnward DEF Opening
    <2>10. DesksHeld'
      BY <2>2, <2>5, <2>9, OneDesk DEF DealsInv
    <2>11. LeadsTrue'
      BY <2>5, LeadsStill DEF DealsInv, InsertDeal
    <2>12. ZohoCounted'
      BY DEF DealsInv, ZohoCounted, InsertDeal
    <2> QED
      BY <1>3, <2>6, <2>10, <2>11, <2>12 DEF DealsInv
  <1> QED
    BY <1>4, <1>5

\* Every line of a commit that converts has its row, the one the lead will name too.
LEMMA ConvertKeeps ==
    ASSUME DealsInv, NEW p \in Stations, Convert(p)
    PROVE  DealsInv'
  <1> DEFINE w == desks[p]
  <1>1. DeskHeld(w) /\ w.step = "convert"
    BY DEF DealsInv, DesksHeld, Convert
  <1>2. /\ w \in Desk /\ w.todo \subseteq w.lines /\ w.lines # {} /\ w.client \in Clients /\ w.lines \subseteq Lines
        /\ \A k \in w.lines : RowAt(w.client, k)
    BY <1>1 DEF DeskHeld, OpenedSteps, Desk
  <1>3. LeadLine(w) \in w.lines
    BY <1>2 DEF LeadLine
  <1> DEFINE n == [w EXCEPT !.step = "done"]
             lead == [status |-> "converted", line |-> LeadLine(w)]
  <1>4. DeskTo(p, n) /\ leads' = [leads EXCEPT ![w.client] = IF leads[w.client].status = "deleted" THEN leads[w.client] ELSE lead]
    BY DEF Convert
  <1>5. n \in Desk /\ n.step = "done" /\ n.lines = w.lines /\ n.todo = w.todo
    BY <1>2 DEF Desk, DeskSteps
  <1>6. lead \in LeadRecord /\ lead.line = LeadLine(w)
    BY <1>2, <1>3 DEF LeadRecord, LeadStatuses
  <1>7. Grown
    BY DEF Grown, RowAt, ZohoIds, Convert
  <1> HIDE DEF n, lead
  <1>8. DeskHeld(n)
    BY <1>2, <1>5 DEF DeskHeld, Opening, OpenedSteps, NothingMade
  <1>9. DesksHeld'
    BY <1>4, <1>7, <1>8, OneDesk, DeskStill DEF DealsInv
  <1>10. ZohoCounted' /\ DealCounts'
    BY DEF DealsInv, ZohoCounted, DealCounts, Convert
  <1>11. RowsTrue'
    BY <1>7, RowStill DEF DealsInv, RowsTrue, Convert
  <1>12. LeadsTrue'
    <2>1. leads \in [Clients -> LeadRecord]
      BY DEF DealsInv, LeadsTrue
    <2>2. leads' \in [Clients -> LeadRecord]
      BY <1>2, <1>4, <1>6, <2>1
    <2>3. leads'[w.client] \in {leads[w.client], lead} /\ \A c \in Clients : c # w.client => leads'[c] = leads[c]
      BY <1>2, <1>4, <2>1
    <2>4. ASSUME NEW c \in Clients, leads'[c].line # NoDeal PROVE RowAt(c, leads'[c].line)
      <3>1. CASE leads'[c] = leads[c]
        BY <2>4, <3>1 DEF DealsInv, LeadsTrue, ConvertedHasDeal, RowAt
      <3>2. CASE c = w.client /\ leads'[c] = lead
        BY <1>2, <1>3, <1>6, <3>2
      <3> QED
        BY <2>3, <3>1, <3>2
    <2>5. dealRows' = dealRows
      BY DEF Convert
    <2>6. ConvertedHasDeal'
      BY <2>4, <2>5 DEF ConvertedHasDeal, RowAt
    <2> QED
      BY <2>2, <2>6 DEF LeadsTrue
  <1> QED
    BY <1>9, <1>10, <1>11, <1>12 DEF DealsInv

\* What is typed into a lead names no deal, and a deleted lead none either.
LEMMA LeadEditsKeep ==
    ASSUME DealsInv, NEW c \in Clients, EditLead(c) \/ DeleteLead(c)
    PROVE  DealsInv'
  <1>1. leads \in [Clients -> LeadRecord] /\ leads[c] \in LeadRecord
    BY DEF DealsInv, LeadsTrue
  <1>2. PICK lead \in LeadRecord : leads' = [leads EXCEPT ![c] = lead] /\ lead.line \in {leads[c].line, NoDeal}
    <2>1. CASE EditLead(c)
      <3>1. PICK s \in LeadStatuses : leads' = [leads EXCEPT ![c].status = s]
        BY <2>1 DEF EditLead
      <3>2. [leads[c] EXCEPT !.status = s] \in LeadRecord /\ [leads[c] EXCEPT !.status = s].line = leads[c].line
        BY <1>1 DEF LeadRecord
      <3> QED
        BY <3>1, <3>2
    <2>2. CASE DeleteLead(c)
      <3>1. [status |-> "deleted", line |-> NoDeal] \in LeadRecord
        BY DEF LeadRecord
      <3> QED
        BY <2>2, <3>1 DEF DeleteLead
    <2> QED
      BY <2>1, <2>2
  <1>3. dealRows' = dealRows /\ zohoAccounts' = zohoAccounts /\ zohoDeals' = zohoDeals /\ desks' = desks
        /\ commits' = commits /\ dealFaults' = dealFaults
    BY DEF EditLead, DeleteLead
  <1>4. ZohoCounted' /\ RowsTrue' /\ DealCounts'
    BY <1>3 DEF DealsInv, ZohoCounted, RowsTrue, RowTrue, RowAt, SaysTrue, ZohoIds, DealCounts
  <1>5. DesksHeld'
    BY <1>3 DEF DealsInv, DesksHeld, DeskHeld, RowAt, SaysTrue, ZohoIds
  <1>6. leads' \in [Clients -> LeadRecord] /\ leads'[c] = lead /\ \A b \in Clients : b # c => leads'[b] = leads[b]
    BY <1>1, <1>2
  <1>7. \A b \in Clients : leads'[b].line \in {leads[b].line, NoDeal}
    BY <1>2, <1>6
  <1>8. ConvertedHasDeal'
    BY <1>3, <1>7 DEF DealsInv, LeadsTrue, ConvertedHasDeal
  <1> QED
    BY <1>4, <1>5, <1>6, <1>8 DEF DealsInv, LeadsTrue


\* A step that leaves Zoho and the leads, and changes rows that are there.
LEMMA RowsKeep ==
    ASSUME DealsInv, NEW p \in Stations, NEW n, DeskTo(p, n), DeskHeld(n),
           dealRows' \in [Clients \X Lines -> {NoDeal} \cup DealRecord],
           \A c \in Clients, l \in Lines : RowAt(c, l) => RowAt(c, l)',
           \A c \in Clients, l \in Lines : RowTrue(c, l)',
           zohoAccounts' = zohoAccounts, zohoDeals' = zohoDeals, leads' = leads, commits' = commits, dealFaults' = dealFaults
    PROVE  DealsInv'
  <1>1. Grown
    BY DEF Grown, ZohoIds
  <1>2. DesksHeld'
    BY <1>1, OneDesk, DeskStill DEF DealsInv
  <1>3. LeadsTrue'
    BY <1>1, LeadsStill DEF DealsInv
  <1>4. ZohoCounted' /\ DealCounts'
    BY DEF DealsInv, ZohoCounted, DealCounts
  <1> QED
    BY <1>2, <1>3, <1>4 DEF DealsInv, RowsTrue

LEMMA AdoptDealKeeps ==
    ASSUME DealsInv, NEW p \in Stations, AdoptDeal(p)
    PROVE  DealsInv'
  <1> DEFINE w == desks[p]
  <1>1. DeskHeld(w) /\ w.step = "adopt"
    BY DEF DealsInv, DesksHeld, AdoptDeal
  <1>2. /\ w \in Desk /\ w.todo \subseteq w.lines /\ w.lines # {} /\ w.client \in Clients /\ w.lines \subseteq Lines
        /\ w.made = {} /\ \A k \in w.lines : RowAt(w.client, k)
    BY <1>1 DEF DeskHeld, OpenedSteps, NothingMade, Desk
  <1> DEFINE n == [w EXCEPT !.step = "account"]
  <1>3. DeskTo(p, n)
    BY DEF AdoptDeal
  <1>4. n \in Desk /\ n.step = "account" /\ n.client = w.client /\ n.lines = w.lines /\ n.todo = w.todo /\ n.made = w.made
    BY <1>2 DEF Desk, DeskSteps
  <1> HIDE DEF n
  <1>5. DeskHeld(n)
    BY <1>2, <1>4 DEF DeskHeld, Opening, OpenedSteps, NothingMade
  <1>6. PICK lines \in {{}, w.lines} : dealRows' = Keyed(w.client, lines)
    BY DEF AdoptDeal
  <1>7. dealRows \in [Clients \X Lines -> {NoDeal} \cup DealRecord]
    BY DEF DealsInv, RowsTrue
  <1>8. DOMAIN dealRows = Clients \X Lines /\ DOMAIN dealRows' = Clients \X Lines
        /\ dealRows' = [key \in Clients \X Lines |-> dealRows'[key]]
    BY <1>6, <1>7 DEF Keyed
  <1>9. ASSUME NEW c \in Clients, NEW l \in Lines
        PROVE  /\ dealRows'[<<c, l>>] \in {NoDeal} \cup DealRecord
               /\ RowAt(c, l) <=> RowAt(c, l)'
               /\ RowAt(c, l) => /\ dealRows'[<<c, l>>].account = dealRows[<<c, l>>].account
                                 /\ dealRows'[<<c, l>>].deals = dealRows[<<c, l>>].deals
    <2> DEFINE row == dealRows[<<c, l>>]
    <2>1. CASE c = w.client /\ l \in lines
      <3>1. row \in DealRecord /\ RowAt(c, l)
        BY <1>2, <1>6, <1>7, <2>1 DEF RowAt
      <3>2. dealRows'[<<c, l>>] = [row EXCEPT !.guid = TRUE]
        BY <1>6, <1>8, <2>1 DEF Keyed
      <3>3. /\ [row EXCEPT !.guid = TRUE] \in DealRecord
            /\ [row EXCEPT !.guid = TRUE].account = row.account /\ [row EXCEPT !.guid = TRUE].deals = row.deals
        BY <3>1 DEF DealRecord
      <3> HIDE DEF row
      <3> QED
        BY <3>1, <3>2, <3>3, RecordIsDeal DEF RowAt, row
    <2>2. CASE ~(c = w.client /\ l \in lines)
      <3>1. dealRows'[<<c, l>>] = row
        BY <1>6, <1>8, <2>2 DEF Keyed
      <3> QED
        BY <1>7, <3>1 DEF RowAt
    <2> QED
      BY <2>1, <2>2
  <1>10. dealRows' \in [Clients \X Lines -> {NoDeal} \cup DealRecord]
    <2>1. \A key \in Clients \X Lines : dealRows'[key] \in {NoDeal} \cup DealRecord
      BY <1>9
    <2> QED
      BY <1>8, <2>1
  <1>11. ASSUME NEW c \in Clients, NEW l \in Lines PROVE RowTrue(c, l)'
    <2>1. zohoAccounts' = zohoAccounts /\ zohoDeals' = zohoDeals
      BY DEF AdoptDeal
    <2>2. RowTrue(c, l)
      BY DEF DealsInv, RowsTrue
    <2>3. CASE ~RowAt(c, l)
      BY <1>9, <2>3 DEF RowTrue
    <2>4. CASE RowAt(c, l)
      <3>1. /\ dealRows'[<<c, l>>].account = dealRows[<<c, l>>].account
            /\ dealRows'[<<c, l>>].deals = dealRows[<<c, l>>].deals
        BY <1>9, <2>4
      <3> QED
        BY <2>1, <2>2, <2>4, <3>1 DEF RowTrue, SaysTrue, ZohoIds
    <2> QED
      BY <2>3, <2>4
  <1> QED
    BY <1>3, <1>5, <1>9, <1>10, <1>11, RowsKeep DEF AdoptDeal

LEMMA FindAccountKeeps ==
    ASSUME DealsInv, NEW p \in Stations, FindAccount(p)
    PROVE  DealsInv'
  <1> DEFINE w == desks[p]
  <1>1. DeskHeld(w) /\ w.step = "account"
    BY DEF DealsInv, DesksHeld, FindAccount
  <1>2. /\ w \in Desk /\ w.todo \subseteq w.lines /\ w.lines # {} /\ w.client \in Clients
        /\ w.made = {} /\ \A k \in w.lines : RowAt(w.client, k)
    BY <1>1 DEF DeskHeld, OpenedSteps, NothingMade, Desk
  <1>3. DealCounts'
    BY DEF FindAccount, DealsInv, DealCounts
  <1>4. ASSUME NEW a \in AccountsOf(w.client), DeskTo(p, [w EXCEPT !.step = "deals", !.account = a]) PROVE DealsInv'
    <2>1. a \in DOMAIN zohoAccounts /\ zohoAccounts[a] = w.client
      BY DEF AccountsOf
    <2>2. a \in Nat
      <3>1. Cardinality(DOMAIN zohoAccounts) \in Nat
        BY FS_CardinalityType DEF DealsInv, ZohoCounted
      <3> QED
        BY <2>1, <3>1 DEF DealsInv, ZohoCounted
    <2> DEFINE n == [w EXCEPT !.step = "deals", !.account = a]
    <2>3. /\ n \in Desk /\ n.step = "deals" /\ n.client = w.client /\ n.lines = w.lines
          /\ n.todo = w.todo /\ n.account = a /\ n.made = w.made
      BY <1>2, <2>2 DEF Desk, DeskSteps
    <2> HIDE DEF n
    <2>4. SaysTrue(n.client, n.account, n.made)
      BY <1>2, <2>1, <2>3 DEF SaysTrue
    <2>5. DeskHeld(n)
      BY <1>2, <2>3, <2>4 DEF DeskHeld, Opening, OpenedSteps, NothingMade
    <2>6. DeskTo(p, n)
      BY <1>4 DEF n
    <2> QED
      BY <1>3, <2>5, <2>6, MoveKeeps DEF FindAccount
  <1>5. ASSUME DeskTo(p, [w EXCEPT !.step = "newaccount"]) PROVE DealsInv'
    <2> DEFINE n == [w EXCEPT !.step = "newaccount"]
    <2>1. n \in Desk /\ n.step = "newaccount" /\ n.client = w.client /\ n.lines = w.lines /\ n.todo = w.todo /\ n.made = w.made
      BY <1>2 DEF Desk, DeskSteps
    <2> HIDE DEF n
    <2>2. DeskHeld(n)
      BY <1>2, <2>1 DEF DeskHeld, Opening, OpenedSteps, NothingMade
    <2>3. DeskTo(p, n)
      BY <1>5 DEF n
    <2> QED
      BY <1>3, <2>2, <2>3, MoveKeeps DEF FindAccount
  <1> QED
    BY <1>4, <1>5 DEF FindAccount

LEMMA AccountFailsKeeps ==
    ASSUME DealsInv, NEW p \in Stations, AccountFails(p)
    PROVE  DealsInv'
  <1> DEFINE w == desks[p]
             n == [w EXCEPT !.step = "done"]
  <1>1. DeskHeld(w) /\ w.step \in {"account", "newaccount"}
    BY DEF DealsInv, DesksHeld, AccountFails
  <1>2. w \in Desk /\ w.todo \subseteq w.lines /\ w.lines # {}
    BY <1>1 DEF DeskHeld
  <1>3. DeskTo(p, n)
    BY DEF AccountFails
  <1>4. n \in Desk /\ n.step = "done" /\ n.lines = w.lines /\ n.todo = w.todo
    BY <1>2 DEF Desk, DeskSteps
  <1>5. DealCounts'
    BY CountAfter DEF AccountFails, DealFault, DealsInv, DealCounts
  <1> HIDE DEF n
  <1>6. DeskHeld(n)
    BY <1>2, <1>4 DEF DeskHeld, Opening, OpenedSteps, NothingMade
  <1> QED
    BY <1>3, <1>5, <1>6, MoveKeeps DEF AccountFails


\* Ids are counted, so the new one is none that a row or a commit knows.
LEMMA CreateAccountKeeps ==
    ASSUME DealsInv, NEW p \in Stations, CreateAccount(p)
    PROVE  DealsInv'
  <1> DEFINE w == desks[p]
             id == Cardinality(DOMAIN zohoAccounts) + 1
             n == [w EXCEPT !.step = "deals", !.account = id]
  <1>1. DeskHeld(w) /\ w.step = "newaccount"
    BY DEF DealsInv, DesksHeld, CreateAccount
  <1>2. /\ w \in Desk /\ w.todo \subseteq w.lines /\ w.lines # {} /\ w.client \in Clients
        /\ w.made = {} /\ \A k \in w.lines : RowAt(w.client, k)
    BY <1>1 DEF DeskHeld, OpenedSteps, NothingMade, Desk
  <1>3. /\ IsFiniteSet(DOMAIN zohoAccounts) /\ Cardinality(DOMAIN zohoAccounts) \in Nat
        /\ DOMAIN zohoAccounts = 1..Cardinality(DOMAIN zohoAccounts)
    BY FS_CardinalityType DEF DealsInv, ZohoCounted
  <1>4. id \in Nat /\ id \notin DOMAIN zohoAccounts
    BY <1>3
  <1>5. /\ zohoAccounts' = [a \in (DOMAIN zohoAccounts) \cup {id} |-> IF a = id THEN w.client ELSE zohoAccounts[a]]
        /\ DeskTo(p, n)
    BY DEF CreateAccount
  <1>6. /\ DOMAIN zohoAccounts' = (DOMAIN zohoAccounts) \cup {id} /\ zohoAccounts'[id] = w.client
        /\ \A a \in DOMAIN zohoAccounts : zohoAccounts'[a] = zohoAccounts[a]
    BY <1>4, <1>5
  <1>7. IsFiniteSet(DOMAIN zohoAccounts') /\ Cardinality(DOMAIN zohoAccounts') = id
    BY <1>3, <1>4, <1>6, FS_AddElement
  <1>8. DOMAIN zohoAccounts' = 1..Cardinality(DOMAIN zohoAccounts')
    <2> DEFINE m == Cardinality(DOMAIN zohoAccounts)
    <2>1. m \in Nat /\ DOMAIN zohoAccounts = 1..m /\ id = m + 1
      BY <1>3
    <2> HIDE DEF m, id
    <2>2. (1..m) \cup {m + 1} = 1..(m + 1)
      BY <2>1
    <2> QED
      BY <1>6, <1>7, <2>1, <2>2
  <1>9. n \in Desk /\ n.step = "deals" /\ n.client = w.client /\ n.lines = w.lines /\ n.todo = w.todo
        /\ n.account = id /\ n.made = w.made
    BY <1>2, <1>4 DEF Desk, DeskSteps
  <1>10. dealRows' = dealRows /\ zohoDeals' = zohoDeals /\ leads' = leads /\ commits' = commits /\ dealFaults' = dealFaults
    BY DEF CreateAccount
  <1> HIDE DEF n, id
  <1>11. Grown
    BY <1>6, <1>10 DEF Grown, RowAt, ZohoIds
  <1>12. n.account \in DOMAIN zohoAccounts' /\ zohoAccounts'[n.account] = n.client /\ n.made = {}
    BY <1>2, <1>6, <1>9
  <1>13. \A k \in n.lines : dealRows'[<<n.client, k>>] # NoDeal
    BY <1>2, <1>9, <1>10 DEF RowAt
  <1>14. DesksHeld'
    <2>1. PICK m : m = n
      OBVIOUS
    <2>2. DeskHeld(m)'
      BY <1>2, <1>9, <1>12, <1>13, <2>1 DEF DeskHeld, Opening, NothingMade, SaysTrue, RowAt
    <2> QED
      BY <1>5, <1>11, <2>1, <2>2, OneDesk DEF DealsInv
  <1>15. ZohoCounted'
    BY <1>6, <1>7, <1>8, <1>10 DEF DealsInv, ZohoCounted
  <1>16. RowsTrue'
    BY <1>10, <1>11, RowStill DEF DealsInv, RowsTrue
  <1>17. LeadsTrue' /\ DealCounts'
    BY <1>10, <1>11, LeadsStill DEF DealsInv, DealCounts
  <1> QED
    BY <1>14, <1>15, <1>16, <1>17 DEF DealsInv

LEMMA DealsOnward ==
    ASSUME NEW w, DeskHeld(w), w.step = "deals", NEW l \in w.todo, NEW n, n = Onward(w, l, "deals", "stamp")
    PROVE  DeskHeld(n)
  <1>1. /\ w \in Desk /\ w.todo \subseteq w.lines /\ w.lines # {}
        /\ w.made \subseteq ZohoIds /\ SaysTrue(w.client, w.account, w.made) /\ \A k \in w.lines : RowAt(w.client, k)
    BY DEF DeskHeld, OpenedSteps
  <1>2. "deals" \in DeskSteps /\ "stamp" \in DeskSteps
    BY DEF DeskSteps
  <1>3. n \in Desk /\ SameWork(n, w) /\ MovedOn(n, w, l, "deals", "stamp")
    BY <1>1, <1>2, DeskOnward
  <1>4. n.step \in {"deals", "stamp"} /\ n.todo \subseteq n.lines
    BY <1>1, <1>3 DEF MovedOn, SameWork
  <1>5. n.lines # {} /\ n.made \subseteq ZohoIds /\ SaysTrue(n.client, n.account, n.made) /\ \A k \in n.lines : RowAt(n.client, k)
    BY <1>1, <1>3 DEF SameWork
  <1> QED
    BY <1>3, <1>4, <1>5 DEF DeskHeld, Opening, NothingMade

LEMMA DealFailsKeeps ==
    ASSUME DealsInv, NEW p \in Stations, NEW l \in Lines, DealFails(p, l)
    PROVE  DealsInv'
  <1>1. PICK n : n = Onward(desks[p], l, "deals", "stamp")
    OBVIOUS
  <1>2. DeskHeld(desks[p]) /\ desks[p].step = "deals" /\ l \in desks[p].todo
    BY DEF DealsInv, DesksHeld, DealFails, InTurn
  <1>3. DeskHeld(n)
    BY <1>1, <1>2, DealsOnward
  <1>4. DealCounts'
    BY CountAfter DEF DealFails, DealFault, DealsInv, DealCounts
  <1> QED
    BY <1>1, <1>3, <1>4, MoveKeeps DEF DealFails

LEMMA StampOnward ==
    ASSUME NEW w, DeskHeld(w), w.step = "stamp", NEW l \in w.todo, NEW n, n = Onward(w, l, "stamp", "done")
    PROVE  DeskHeld(n)
  <1>1. /\ w \in Desk /\ w.todo \subseteq w.lines /\ w.lines # {}
        /\ w.made \subseteq ZohoIds /\ SaysTrue(w.client, w.account, w.made) /\ \A k \in w.lines : RowAt(w.client, k)
    BY DEF DeskHeld, OpenedSteps
  <1>2. "stamp" \in DeskSteps /\ "done" \in DeskSteps
    BY DEF DeskSteps
  <1>3. n \in Desk /\ SameWork(n, w) /\ MovedOn(n, w, l, "stamp", "done")
    BY <1>1, <1>2, DeskOnward
  <1>4. n.step \in {"stamp", "done"} /\ n.todo \subseteq n.lines
    BY <1>1, <1>3 DEF MovedOn, SameWork
  <1>5. n.lines # {} /\ n.made \subseteq ZohoIds /\ SaysTrue(n.client, n.account, n.made) /\ \A k \in n.lines : RowAt(n.client, k)
    BY <1>1, <1>3 DEF SameWork
  <1> QED
    BY <1>3, <1>4, <1>5 DEF DeskHeld, Opening, NothingMade

LEMMA StampFailsKeeps ==
    ASSUME DealsInv, NEW p \in Stations, NEW l \in Lines, StampFails(p, l)
    PROVE  DealsInv'
  <1>1. PICK n : n = Onward(desks[p], l, "stamp", "done")
    OBVIOUS
  <1>2. DeskHeld(desks[p]) /\ desks[p].step = "stamp" /\ l \in desks[p].todo
    BY DEF DealsInv, DesksHeld, StampFails, InTurn
  <1>3. DeskHeld(n)
    BY <1>1, <1>2, StampOnward
  <1>4. DealCounts'
    BY CountAfter DEF StampFails, DealFault, DealsInv, DealCounts
  <1> QED
    BY <1>1, <1>3, <1>4, MoveKeeps DEF StampFails, AfterFailedStamp


LEMMA CreateDealKeeps ==
    ASSUME DealsInv, NEW p \in Stations, NEW l \in Lines, CreateDeal(p, l)
    PROVE  DealsInv'
  <1> DEFINE w == desks[p]
             id == Cardinality(zohoDeals) + 1
             v == [w EXCEPT !.made = @ \cup {id}]
             new == ZohoDealOf(id, w, l)
  <1>1. DeskHeld(w) /\ w.step = "deals" /\ l \in w.todo
    BY DEF DealsInv, DesksHeld, CreateDeal, InTurn
  <1>2. /\ w \in Desk /\ w.todo \subseteq w.lines /\ w.lines # {} /\ w.client \in Clients /\ w.lines \subseteq Lines
        /\ w.made \subseteq ZohoIds /\ SaysTrue(w.client, w.account, w.made)
        /\ \A k \in w.lines : RowAt(w.client, k)
    BY <1>1 DEF DeskHeld, OpenedSteps, Desk
  <1>3. IsFiniteSet(zohoDeals) /\ Cardinality(zohoDeals) \in Nat
    BY FS_CardinalityType DEF DealsInv, ZohoCounted
  <1>4. \A d \in zohoDeals : d.id # id
    BY <1>3 DEF DealsInv, ZohoCounted
  <1>5. id \in Nat /\ id \in 1..(Cardinality(zohoDeals) + 1)
    BY <1>3
  <1>6. new.id = id /\ new.account = w.account /\ new.line = l
    BY DEF ZohoDealOf
  <1>7. /\ v \in Desk /\ v.step = "deals" /\ v.client = w.client /\ v.lines = w.lines /\ v.todo = w.todo
        /\ v.account = w.account /\ v.made = w.made \cup {id}
    BY <1>1, <1>2, <1>5 DEF Desk
  <1>8. zohoDeals' = zohoDeals \cup {new} /\ DeskTo(p, Onward(v, l, "deals", "stamp"))
    BY DEF CreateDeal
  <1>9. dealRows' = dealRows /\ zohoAccounts' = zohoAccounts /\ leads' = leads /\ commits' = commits /\ dealFaults' = dealFaults
    BY DEF CreateDeal
  <1>10. new \notin zohoDeals
    BY <1>4, <1>6
  <1>11. IsFiniteSet(zohoDeals') /\ Cardinality(zohoDeals') = id
    BY <1>3, <1>8, <1>10, FS_AddElement
  <1>12. \A d \in zohoDeals : d.id \in 1..Cardinality(zohoDeals')
    <2> DEFINE m == Cardinality(zohoDeals)
    <2>1. \A d \in zohoDeals : d.id \in 1..m
      BY DEF DealsInv, ZohoCounted
    <2>2. m \in Nat /\ Cardinality(zohoDeals') = m + 1
      BY <1>3, <1>11
    <2> HIDE DEF m
    <2> QED
      BY <2>1, <2>2
  <1>13. new.id \in 1..Cardinality(zohoDeals')
    BY <1>5, <1>6, <1>11
  <1> HIDE DEF v, id, new
  <1>14. Grown
    BY <1>4, <1>6, <1>8, <1>9 DEF Grown, RowAt, ZohoIds
  <1>15. w.account \in DOMAIN zohoAccounts /\ zohoAccounts[w.account] = w.client
         /\ \A d \in zohoDeals : d.id \in w.made => d.account = w.account
    BY <1>2 DEF SaysTrue
  <1>16. \A d \in zohoDeals' : d.id \in v.made => d.account = v.account
    BY <1>4, <1>6, <1>7, <1>8, <1>15 DEF ZohoIds
  <1>17. v.made \subseteq ZohoIds'
    BY <1>2, <1>6, <1>7, <1>8 DEF ZohoIds
  <1>18. PICK n : n = Onward(v, l, "deals", "stamp")
    OBVIOUS
  <1>19. "deals" \in DeskSteps /\ "stamp" \in DeskSteps
    BY DEF DeskSteps
  <1>20. n \in Desk /\ SameWork(n, v) /\ MovedOn(n, v, l, "deals", "stamp")
    BY <1>7, <1>18, <1>19, DeskOnward
  <1>21. n.step \in {"deals", "stamp"} /\ n.todo \subseteq n.lines /\ n.lines # {}
    BY <1>2, <1>7, <1>20 DEF MovedOn, SameWork
  <1>22. n.client = w.client /\ n.lines = w.lines /\ n.account = w.account /\ n.made = v.made
    BY <1>7, <1>20 DEF SameWork
  <1>23. SaysTrue(n.client, n.account, n.made)'
    BY <1>7, <1>9, <1>15, <1>16, <1>22 DEF SaysTrue
  <1>24. n.made \subseteq ZohoIds' /\ \A k \in n.lines : RowAt(n.client, k)'
    BY <1>2, <1>9, <1>17, <1>22 DEF RowAt
  <1>25. DeskHeld(n)'
    BY <1>20, <1>21, <1>23, <1>24 DEF DeskHeld, Opening, NothingMade
  <1>26. DesksHeld'
    BY <1>8, <1>14, <1>18, <1>25, OneDesk DEF DealsInv
  <1>27. ZohoCounted'
    <2>1. new.account \in DOMAIN zohoAccounts' /\ new.line \in Lines
      BY <1>6, <1>9, <1>15
    <2>2. \A d \in zohoDeals : d.account \in DOMAIN zohoAccounts' /\ d.line \in Lines
      BY <1>9 DEF DealsInv, ZohoCounted
    <2>3. IsFiniteSet(DOMAIN zohoAccounts') /\ DOMAIN zohoAccounts' = 1..Cardinality(DOMAIN zohoAccounts')
      BY <1>9 DEF DealsInv, ZohoCounted
    <2>4. \A d \in zohoDeals' : d.id \in 1..Cardinality(zohoDeals') /\ d.account \in DOMAIN zohoAccounts' /\ d.line \in Lines
      BY <1>8, <1>12, <1>13, <2>1, <2>2
    <2> QED
      BY <1>11, <2>3, <2>4 DEF ZohoCounted
  <1>28. RowsTrue'
    BY <1>9, <1>14, RowStill DEF DealsInv, RowsTrue
  <1>29. LeadsTrue' /\ DealCounts'
    BY <1>9, <1>14, LeadsStill DEF DealsInv, DealCounts
  <1> QED
    BY <1>26, <1>27, <1>28, <1>29 DEF DealsInv

\* The cross-reference is of the account and the deals of one commit.
LEMMA StampRowKeeps ==
    ASSUME DealsInv, NEW p \in Stations, NEW l \in Lines, StampRow(p, l)
    PROVE  DealsInv'
  <1> DEFINE w == desks[p]
             row == dealRows[<<w.client, l>>]
             new == [row EXCEPT !.account = w.account, !.deals = w.made]
  <1>1. DeskHeld(w) /\ w.step = "stamp" /\ l \in w.todo
    BY DEF DealsInv, DesksHeld, StampRow, InTurn
  <1>2. /\ w \in Desk /\ w.todo \subseteq w.lines /\ w.client \in Clients /\ w.account \in Nat /\ w.made \in SUBSET Nat
        /\ w.made \subseteq ZohoIds /\ SaysTrue(w.client, w.account, w.made)
        /\ \A k \in w.lines : RowAt(w.client, k)
    BY <1>1 DEF DeskHeld, OpenedSteps, Desk
  <1>3. dealRows \in [Clients \X Lines -> {NoDeal} \cup DealRecord]
    BY DEF DealsInv, RowsTrue
  <1>4. row \in DealRecord
    BY <1>1, <1>2, <1>3 DEF RowAt
  <1>5. new \in DealRecord /\ new.account = w.account /\ new.deals = w.made
    BY <1>2, <1>4 DEF DealRecord
  <1>6. PICK n : n = Onward(w, l, "stamp", "done")
    OBVIOUS
  <1>7. DeskHeld(n)
    BY <1>1, <1>6, StampOnward
  <1>8. DeskTo(p, n) /\ dealRows' = [dealRows EXCEPT ![<<w.client, l>>] = new]
    BY <1>6 DEF StampRow, Stamped
  <1>9. zohoAccounts' = zohoAccounts /\ zohoDeals' = zohoDeals /\ leads' = leads /\ commits' = commits /\ dealFaults' = dealFaults
    BY DEF StampRow
  <1> HIDE DEF new
  <1>10. /\ dealRows' \in [Clients \X Lines -> {NoDeal} \cup DealRecord]
         /\ dealRows'[<<w.client, l>>] = new
         /\ \A key \in Clients \X Lines : key # <<w.client, l>> => dealRows'[key] = dealRows[key]
    BY <1>2, <1>3, <1>5, <1>8
  <1>11. new # NoDeal
    BY <1>5, RecordIsDeal
  <1>12. \A c \in Clients, k \in Lines : RowAt(c, k) => RowAt(c, k)'
    BY <1>10, <1>11 DEF RowAt
  <1>13. ASSUME NEW c \in Clients, NEW k \in Lines PROVE RowTrue(c, k)'
    <2>1. CASE <<c, k>> = <<w.client, l>>
      BY <1>2, <1>5, <1>9, <1>10, <2>1 DEF RowTrue, SaysTrue, ZohoIds
    <2>2. CASE <<c, k>> # <<w.client, l>>
      <3>1. dealRows'[<<c, k>>] = dealRows[<<c, k>>]
        BY <1>10, <2>2
      <3>2. RowTrue(c, k)
        BY DEF DealsInv, RowsTrue
      <3> QED
        BY <1>9, <3>1, <3>2 DEF RowTrue, RowAt, SaysTrue, ZohoIds
    <2> QED
      BY <2>1, <2>2
  <1> QED
    BY <1>7, <1>8, <1>9, <1>10, <1>12, <1>13, RowsKeep

-----------------------------------------------------------------------------

LEMMA DealsInvStep == DealsInv /\ [NewDealsNext]_dealVars => DealsInv'
  <1> SUFFICES ASSUME DealsInv, [NewDealsNext]_dealVars PROVE DealsInv'
    OBVIOUS
  <1>1. CASE UNCHANGED dealVars
    <2> USE <1>1 DEF dealVars, DealsInv
    <2>1. ZohoCounted'
      BY DEF ZohoCounted
    <2>2. RowsTrue'
      BY DEF RowsTrue, RowTrue, RowAt, SaysTrue, ZohoIds
    <2>3. DesksHeld'
      BY DEF DesksHeld, DeskHeld, RowAt, SaysTrue, ZohoIds
    <2>4. LeadsTrue' /\ DealCounts'
      BY DEF LeadsTrue, ConvertedHasDeal, DealCounts
    <2> QED
      BY <2>1, <2>2, <2>3, <2>4
  <1>2. ASSUME NEW c \in Clients, EditLead(c) \/ DeleteLead(c) PROVE DealsInv'
    BY <1>2, LeadEditsKeep
  <1>3. ASSUME NEW p \in Stations, NEW c \in Clients, NEW ls \in (SUBSET Lines) \ {{}}, StartIntake(p, c, ls) PROVE DealsInv'
    BY <1>3, StartIntakeKeeps
  <1>4. ASSUME NEW p \in Stations, NEW c \in Clients, NEW l \in Lines, StartConversion(p, c, l) PROVE DealsInv'
    BY <1>4, StartConversionKeeps
  <1>5. ASSUME NEW p \in Stations,
               \/ InsertDeal(p) \/ OpeningFails(p) \/ Convert(p)
               \/ AdoptDeal(p) \/ FindAccount(p) \/ CreateAccount(p) \/ AccountFails(p)
        PROVE  DealsInv'
    BY <1>5, InsertDealKeeps, OpeningFailsKeeps, ConvertKeeps, AdoptDealKeeps, FindAccountKeeps, CreateAccountKeeps,
       AccountFailsKeeps
  <1>6. ASSUME NEW p \in Stations, NEW l \in Lines,
               FindDeal(p, l) \/ CreateDeal(p, l) \/ DealFails(p, l) \/ StampRow(p, l) \/ StampFails(p, l)
        PROVE  DealsInv'
    BY <1>6, FindDealKeeps, CreateDealKeeps, DealFailsKeeps, StampRowKeeps, StampFailsKeeps
  <1> QED
    BY <1>1, <1>2, <1>3, <1>4, <1>5, <1>6 DEF NewDealsNext

LEMMA DealsInvGives == DealsInv => NewDealsSafe
  <1> SUFFICES ASSUME DealsInv PROVE NewDealsSafe
    OBVIOUS
  <1>1. ZohoStampTrue
    BY DEF DealsInv, RowsTrue, RowTrue, RowAt, SaysTrue, ZohoStampTrue
  <1>2. RaisedMadeNothing
    BY DEF DealsInv, DesksHeld, DeskHeld, NothingMade, RaisedMadeNothing
  <1>3. ConvertedHasDeal
    BY DEF DealsInv, LeadsTrue
  <1>4. NewDealTypeOK
    <2> DEFINE Shown == [guid : BOOLEAN, account : 0..Cardinality(DOMAIN zohoAccounts), deals : SUBSET {d.id : d \in zohoDeals}]
    <2>1. Cardinality(DOMAIN zohoAccounts) \in Nat /\ DOMAIN zohoAccounts = 1..Cardinality(DOMAIN zohoAccounts)
      BY FS_CardinalityType DEF DealsInv, ZohoCounted
    <2>2. ASSUME NEW c \in Clients, NEW l \in Lines PROVE dealRows[<<c, l>>] \in {NoDeal} \cup Shown
      <3> DEFINE row == dealRows[<<c, l>>]
      <3> SUFFICES ASSUME RowAt(c, l) PROVE row \in Shown
        BY DEF RowAt
      <3>1. row \in DealRecord /\ row.deals \subseteq ZohoIds
            /\ (row.account # 0 => row.account \in DOMAIN zohoAccounts)
        BY DEF DealsInv, RowsTrue, RowTrue, RowAt, SaysTrue
      <3>2. row.account \in 0..Cardinality(DOMAIN zohoAccounts)
        BY <2>1, <3>1 DEF DealRecord
      <3> QED
        BY <3>1, <3>2 DEF DealRecord, ZohoIds
    <2>3. dealRows \in [Clients \X Lines -> {NoDeal} \cup Shown]
      <3>1. DOMAIN dealRows = Clients \X Lines /\ dealRows = [key \in Clients \X Lines |-> dealRows[key]]
        BY DEF DealsInv, RowsTrue
      <3>2. \A key \in Clients \X Lines : dealRows[key] \in {NoDeal} \cup Shown
        BY <2>2
      <3> HIDE DEF Shown
      <3> QED
        BY <3>1, <3>2
    <2> QED
      BY <2>3 DEF DealsInv, ZohoCounted, LeadsTrue, LeadRecord, DealCounts, NewDealTypeOK
  <1> QED
    BY <1>1, <1>2, <1>3, <1>4 DEF NewDealsSafe

\* Whatever commits and conversions overlap, and whichever request of which of them
\* fails: a row that names an account of Zoho names one of its client, and deals of that
\* account; a commit that raised made nothing in Zoho; and a converted lead has its deal
\* (hermes/intake/commit.py, hermes/zoho_writer.py, hermes/leads.py).
THEOREM NewDealsAreSafe == NewDealsSpec => []NewDealsSafe
  BY DealsInvInit, DealsInvStep, DealsInvGives, PTL DEF NewDealsSpec


-----------------------------------------------------------------------------
(* OpportunityBoard, for any number of rows, lines, quotes, opportunities, *)
(* edits and failures, whichever jobs run side by side: the types, one     *)
(* deal of the quote sync for a line, what a worked deal keeps, and that   *)
(* what is removed loses nothing.                                          *)

Ladders == Stages("new") \cup Stages("renewal")
JobFields == {"at", "todo", "item", "row", "seen", "created", "open", "lines"}
Writers == Job \cup {"nobody", "people"}

BoardTyped ==
    /\ board \in [Row -> Deal \cup {Absent}]
    /\ born \in [Row -> Writers]
    /\ \A r \in Row : born[r] = "nobody" => board[r] = Absent
WorldTyped ==
    /\ register \subseteq Quote /\ stood \subseteq Quote /\ jobs \in Cast /\ archive \subseteq Row
    /\ ams \in [Opp -> [type : Type, stage : Ladders]] /\ \A o \in Opp : ams[o].stage \in Stages(ams[o].type)
    /\ moves \in 0..MaxMoves /\ faults \in 0..MaxFaults
JobsTyped ==
    /\ DOMAIN job = Job
    /\ \A j \in Job : /\ DOMAIN job[j] = JobFields
                      /\ job[j].row \in Row \cup {Absent} /\ job[j].seen \in Deal \cup {Absent}

\* The mirror: the items keep to the ladder of their type, and what it is about to
\* write to was not worked in the CRM when it was read.
IsFetched(o) == o.id \in Opp /\ o.type \in Type /\ o.stage \in Stages(o.type)
MirrorInv ==
    LET m == job["mirror"]
    IN  /\ \A o \in m.todo : IsFetched(o)
        /\ m.at \in {"find", "insert", "write"} => IsFetched(m.item)
        /\ m.at = "write" => m.row \in Row /\ m.seen.source # "crm"

\* The quote sync: past its own lookup, it has no deal yet on the line of its quote.
NoneOfQuotes(line) == \A r \in Row : board[r] # Absent /\ born[r] = "quotes" => board[r].line # line
QuotesInv ==
    LET m == job["quotes"]
    IN  /\ m.todo \subseteq Quote
        /\ m.at \in {"find", "lookup", "insert", "write"} => m.item \in Quote
        /\ m.at \in {"lookup", "insert"} => NoneOfQuotes(LineOf[m.item])
        /\ m.at = "write" => m.row \in Row

\* The merge: when the twin had a quote and none is carried across, the survivor has one;
\* once it is merged, it has one in any case.
HasQuote(r) == board[r] # Absent => board[r].quote # Absent
IsPair(p) ==
    /\ p.keep \in Row /\ p.drop \in Row /\ born[p.keep] # "nobody"
    /\ p.carried.opp \in Opp \cup {Absent} /\ p.carried.quote \in Quote \cup {Absent}
    /\ p.twin.quote # Absent /\ p.carried.quote = Absent => HasQuote(p.keep)
DedupeInv ==
    LET m == job["dedupe"]
    IN  /\ \A p \in m.todo : IsPair(p)
        /\ m.at \in {"merge", "drop"} => IsPair(m.item)
        /\ m.at = "drop" => (m.item.twin.quote # Absent => HasQuote(m.item.keep))

\* The retirement: the lines it has read cover the quotes that have stood open since,
\* and what it is about to take has none of those and is in the archive.
Closed(r) == born[r] # "nobody" /\ (board[r] # Absent => \A q \in stood : LineOf[q] # board[r].line)
RetireInv ==
    LET m == job["retire"]
    IN  /\ m.at \in {"rest", "deals", "plan", "archive", "next"}
        /\ m.at \in {"archive", "next"} => m.todo \subseteq Row /\ \A r \in m.todo : Closed(r)
        /\ m.at = "plan" => \A q \in stood : LineOf[q] \in m.lines
        /\ m.at = "next" => m.todo \subseteq archive

\* The repair: what it does to the row it has read, which nobody had typed then.
IsFix(f) ==
    /\ f.row \in Row /\ f.type \in Type /\ f.seen.source # "crm"
    /\ f.stage = IF f.seen.stage \in Stages(f.type) THEN Absent ELSE StageFor(f.type)
RepairInv ==
    LET m == job["repair"]
    IN  /\ \A f \in m.todo : IsFix(f)
        /\ m.at = "write" => IsFix(m.item)

BoardInv ==
    /\ BoardTyped /\ WorldTyped /\ JobsTyped /\ OneQuoteDealPerLine
    /\ MirrorInv /\ QuotesInv /\ DedupeInv /\ RetireInv /\ RepairInv


-----------------------------------------------------------------------------
(* The table: what a step does to the rows                                 *)

\* A row keeps its writer, its line and, once it has one, a quote.
KeptRow(r) ==
    /\ born'[r] = born[r]
    /\ board'[r] # Absent => /\ board[r] # Absent /\ board'[r].line = board[r].line
                             /\ board[r].quote # Absent => board'[r].quote # Absent
NewRow(r, who) == born[r] = "nobody" /\ born'[r] = who
TableStep(who) == BoardTyped' /\ \A r \in Row : KeptRow(r) \/ NewRow(r, who)

LEMMA DealShape ==
    ASSUME NEW d \in Deal
    PROVE  /\ d.line \in Line /\ d.type \in Type /\ d.stage \in Ladders /\ d.source \in Source
           /\ d.opp \in Opp \cup {Absent} /\ d.quote \in Quote \cup {Absent}
  BY DEF Deal, Ladders

LEMMA LadderOf ==
    /\ \A type : Stages(type) \subseteq Ladders /\ Absent \notin Stages(type)
    /\ \A type : StageFor(type) \in Stages(type) /\ FirstStage(type) \in Stages(type)
  <1>1. \A type : Stages(type) \subseteq Ladders
    BY DEF Stages, Ladders
  <1>2. \A type : Absent \notin Stages(type)
    BY BoardAssumption DEF Stages
  <1>3. \A type : StageFor(type) \in Stages(type) /\ FirstStage(type) \in Stages(type)
    BY DEF Stages, StageFor, FirstStage
  <1> QED
    BY <1>1, <1>2, <1>3

LEMMA RowHeld ==
    ASSUME BoardTyped, NEW r \in Row, board[r] # Absent PROVE board[r] \in Deal /\ born[r] # "nobody"
  BY DEF BoardTyped

LEMMA IdleTable ==
    ASSUME BoardTyped, board' = board, born' = born, NEW who PROVE TableStep(who)
  BY DEF TableStep, KeptRow, BoardTyped

LEMMA UpdateStep ==
    ASSUME BoardTyped, NEW r \in Row, NEW d, NEW who, Update(r, d), born' = born,
           board[r] # Absent => /\ d \in Deal /\ d.line = board[r].line
                                /\ board[r].quote # Absent => d.quote # Absent
    PROVE  TableStep(who)
  <1>1. CASE board[r] = Absent
    BY <1>1, IdleTable DEF Update
  <1>2. CASE board[r] # Absent
    <2>1. board' = [board EXCEPT ![r] = d] /\ d \in Deal
      BY <1>2 DEF Update
    <2>2. /\ board' \in [Row -> Deal \cup {Absent}] /\ board'[r] = d
          /\ \A s \in Row : s # r => board'[s] = board[s]
      BY <2>1 DEF BoardTyped
    <2>3. BoardTyped'
      BY <1>2, <2>2, RowHeld DEF BoardTyped
    <2>4. \A s \in Row : KeptRow(s)
      BY <1>2, <2>2 DEF KeptRow
    <2> QED
      BY <2>3, <2>4 DEF TableStep
  <1> QED
    BY <1>1, <1>2

LEMMA DeleteStep ==
    ASSUME BoardTyped, NEW r \in Row, NEW who, board' = [board EXCEPT ![r] = Absent], born' = born
    PROVE  TableStep(who)
  <1>1. /\ board' \in [Row -> Deal \cup {Absent}] /\ board'[r] = Absent
        /\ \A s \in Row : s # r => board'[s] = board[s]
    BY DEF BoardTyped
  <1>2. BoardTyped'
    BY <1>1 DEF BoardTyped
  <1>3. \A s \in Row : KeptRow(s)
    BY <1>1 DEF KeptRow
  <1> QED
    BY <1>2, <1>3 DEF TableStep

LEMMA InsertStep ==
    ASSUME BoardTyped, NEW r \in Row, NEW d \in Deal, NEW who \in Writers \ {"nobody"}, Insert(r, d, who)
    PROVE  /\ TableStep(who)
           /\ board'[r] = d /\ born'[r] = who
           /\ \A s \in Row : s # r => board'[s] = board[s] /\ born'[s] = born[s]
  <1>1. born[r] = "nobody" /\ board' = [board EXCEPT ![r] = d] /\ born' = [born EXCEPT ![r] = who]
    BY DEF Insert, Fresh
  <1>2. /\ board' \in [Row -> Deal \cup {Absent}] /\ board'[r] = d
        /\ \A s \in Row : s # r => board'[s] = board[s]
    BY <1>1 DEF BoardTyped
  <1>3. /\ born' \in [Row -> Writers] /\ born'[r] = who
        /\ \A s \in Row : s # r => born'[s] = born[s]
    BY <1>1 DEF BoardTyped
  <1>4. BoardTyped'
    BY <1>2, <1>3 DEF BoardTyped
  <1>5. \A s \in Row : KeptRow(s) \/ NewRow(s, who)
    BY <1>1, <1>2, <1>3 DEF KeptRow, NewRow
  <1> QED
    BY <1>2, <1>3, <1>4, <1>5 DEF TableStep

LEMMA NewDealTyped ==
    ASSUME NEW line \in Line, NEW type \in Type, NEW stage \in Ladders
    PROVE  /\ NewDeal(line, type, stage) \in Deal
           /\ NewDeal(line, type, stage).line = line /\ NewDeal(line, type, stage).type = type
           /\ NewDeal(line, type, stage).stage = stage
  BY DEF NewDeal, Deal, Ladders, Source

\* What a step that inserts no deal of the quote sync leaves true of the rows.
LEMMA TableKeeps ==
    ASSUME BoardTyped, NEW who \in Writers \ {"nobody"}, TableStep(who)
    PROVE  /\ \A r \in Row : born[r] # "nobody" /\ HasQuote(r) => HasQuote(r)'
           /\ stood' \subseteq stood => \A r \in Row : Closed(r) => Closed(r)'
           /\ \A p : IsPair(p) => IsPair(p)'
           /\ who # "quotes" => \A line : NoneOfQuotes(line) => NoneOfQuotes(line)'
           /\ who # "quotes" /\ OneQuoteDealPerLine => OneQuoteDealPerLine'
  <1>1. \A r \in Row : born[r] # "nobody" => KeptRow(r)
    BY DEF TableStep, NewRow
  <1>2. \A r \in Row : born[r] # "nobody" => born'[r] # "nobody"
    BY <1>1 DEF KeptRow
  <1>3. ASSUME NEW r \in Row, born[r] # "nobody", HasQuote(r) PROVE HasQuote(r)'
    BY <1>1, <1>3 DEF HasQuote, KeptRow
  <1>4. ASSUME stood' \subseteq stood, NEW r \in Row, Closed(r) PROVE Closed(r)'
    <2>1. KeptRow(r) /\ born'[r] # "nobody"
      BY <1>1, <1>2, <1>4 DEF Closed
    <2> QED
      BY <1>4, <2>1 DEF Closed, KeptRow
  <1>5. ASSUME NEW p, IsPair(p) PROVE IsPair(p)'
    <2>1. p.keep \in Row /\ born[p.keep] # "nobody" /\ born'[p.keep] # "nobody"
      BY <1>2, <1>5 DEF IsPair
    <2>2. HasQuote(p.keep) => HasQuote(p.keep)'
      BY <1>3, <2>1
    <2> QED
      BY <1>5, <2>1, <2>2 DEF IsPair
  <1>6. ASSUME who # "quotes", NEW r \in Row, board'[r] # Absent, born'[r] = "quotes"
        PROVE  board[r] # Absent /\ born[r] = "quotes" /\ board'[r].line = board[r].line
    <2>1. KeptRow(r)
      BY <1>6 DEF TableStep, NewRow
    <2> QED
      BY <1>6, <2>1 DEF KeptRow
  <1>7. who # "quotes" => \A line : NoneOfQuotes(line) => NoneOfQuotes(line)'
    BY <1>6 DEF NoneOfQuotes
  <1>8. who # "quotes" /\ OneQuoteDealPerLine => OneQuoteDealPerLine'
    BY <1>6 DEF OneQuoteDealPerLine, Held
  <1> QED
    BY <1>3, <1>4, <1>5, <1>7, <1>8


-----------------------------------------------------------------------------
(* The jobs: what a step does to the one that takes it                     *)

Unmoved(j) == \A k \in Job : k # j => job'[k] = job[k]

LEMMA NothingShape ==
    /\ DOMAIN Nothing = JobFields /\ Nothing.row = Absent /\ Nothing.seen = Absent /\ Nothing.item = Absent
    /\ Nothing.at = "rest" /\ Nothing.todo = {} /\ Nothing.open = {} /\ Nothing.lines = {}
  BY DEF Nothing, JobFields

\* The place of a job is taken by a record of the same shape.
LEMMA JobBecomes ==
    ASSUME JobsTyped, NEW j \in Job, NEW new, job' = [job EXCEPT ![j] = new],
           DOMAIN new = JobFields, new.row \in Row \cup {Absent}, new.seen \in Deal \cup {Absent}
    PROVE  JobsTyped' /\ Unmoved(j) /\ job'[j] = new
  <1>1. DOMAIN job' = Job /\ job'[j] = new /\ \A k \in Job : k # j => job'[k] = job[k]
    BY DEF JobsTyped
  <1>2. JobsTyped'
    BY <1>1 DEF JobsTyped
  <1> QED
    BY <1>1, <1>2 DEF Unmoved

LEMMA GotoJob ==
    ASSUME JobsTyped, NEW j \in Job, NEW place, Goto(j, place)
    PROVE  /\ JobsTyped' /\ Unmoved(j) /\ job'[j].at = place
           /\ job'[j].todo = job[j].todo /\ job'[j].item = job[j].item /\ job'[j].row = job[j].row
           /\ job'[j].seen = job[j].seen /\ job'[j].open = job[j].open /\ job'[j].lines = job[j].lines
  <1> DEFINE new == [job[j] EXCEPT !.at = place]
  <1>1. job' = [job EXCEPT ![j] = new]
    BY DEF Goto
  <1>2. DOMAIN job[j] = JobFields /\ job[j].row \in Row \cup {Absent} /\ job[j].seen \in Deal \cup {Absent}
    BY DEF JobsTyped
  <1>3. /\ DOMAIN new = JobFields /\ new.at = place
        /\ new.todo = job[j].todo /\ new.item = job[j].item /\ new.row = job[j].row
        /\ new.seen = job[j].seen /\ new.open = job[j].open /\ new.lines = job[j].lines
    BY <1>2 DEF JobFields
  <1> HIDE DEF new
  <1> QED
    BY <1>1, <1>2, <1>3, JobBecomes

LEMMA ContinueJob ==
    ASSUME JobsTyped, NEW j \in Job, Continue(j)
    PROVE  /\ JobsTyped' /\ Unmoved(j) /\ job'[j].at \in {"rest", "next"}
           /\ job'[j].todo = job[j].todo /\ job'[j].open = job[j].open /\ job'[j].lines = job[j].lines
  <1> DEFINE at == IF job[j].todo = {} THEN "rest" ELSE "next"
             new == [Nothing EXCEPT !.at = at, !.todo = job[j].todo, !.open = job[j].open, !.lines = job[j].lines]
  <1>1. job' = [job EXCEPT ![j] = new]
    BY DEF Continue
  <1>2. at \in {"rest", "next"}
    OBVIOUS
  <1> HIDE DEF at
  <1>3. /\ DOMAIN new = JobFields /\ new.at = at
        /\ new.todo = job[j].todo /\ new.row = Absent
        /\ new.seen = Absent /\ new.open = job[j].open /\ new.lines = job[j].lines
    BY NothingShape DEF JobFields
  <1> HIDE DEF new
  <1> QED
    BY <1>1, <1>2, <1>3, JobBecomes

LEMMA TakeJob ==
    ASSUME JobsTyped, NEW j \in Job, NEW item, NEW place, Take(j, item, place)
    PROVE  /\ JobsTyped' /\ Unmoved(j) /\ job'[j].at = place /\ job'[j].item = item
           /\ item \in job[j].todo /\ job'[j].todo = job[j].todo \ {item}
  <1> DEFINE new == [job[j] EXCEPT !.at = place, !.item = item, !.todo = job[j].todo \ {item}]
  <1>1. DOMAIN job[j] = JobFields /\ job[j].row \in Row \cup {Absent} /\ job[j].seen \in Deal \cup {Absent}
    BY DEF JobsTyped
  <1>2. job' = [job EXCEPT ![j].at = place, ![j].item = item, ![j].todo = @ \ {item}]
    BY DEF Take
  <1>3. DOMAIN job = Job
    BY DEF JobsTyped
  <1>4. job' = [job EXCEPT ![j] = new]
    BY <1>1, <1>2, <1>3 DEF JobFields
  <1>5. /\ DOMAIN new = JobFields /\ new.at = place /\ new.item = item
        /\ new.todo = job[j].todo \ {item} /\ new.row = job[j].row /\ new.seen = job[j].seen
    BY <1>1 DEF JobFields
  <1> HIDE DEF new
  <1> QED
    BY <1>1, <1>4, <1>5, JobBecomes DEF Take

LEMMA BeginJob ==
    ASSUME JobsTyped, NEW j \in Job, NEW place, NEW todo, Begin(j, place, todo)
    PROVE  /\ JobsTyped' /\ Unmoved(j) /\ job'[j].at = place /\ job'[j].todo = todo
  <1> DEFINE new == [Nothing EXCEPT !.at = place, !.todo = todo]
  <1>1. job' = [job EXCEPT ![j] = new]
    BY DEF Begin
  <1>2. DOMAIN new = JobFields /\ new.at = place /\ new.todo = todo /\ new.row = Absent /\ new.seen = Absent
    BY NothingShape DEF JobFields
  <1> HIDE DEF new
  <1> QED
    BY <1>1, <1>2, JobBecomes

-----------------------------------------------------------------------------
(* What a step leaves as it is (only the retirement that reads the deals   *)
(* looks at the register anew)                                             *)

WorldStep ==
    /\ WorldTyped' /\ archive \subseteq archive'
    /\ job'["retire"] = job["retire"] => stood' \subseteq stood

\* The jobs that do not take the step keep what they know.
LEMMA OthersKeep ==
    ASSUME BoardInv, NEW who \in Writers \ {"nobody"}, TableStep(who), WorldStep
    PROVE  /\ job'["mirror"] = job["mirror"] => MirrorInv'
           /\ job'["quotes"] = job["quotes"] /\ who # "quotes" => QuotesInv'
           /\ job'["dedupe"] = job["dedupe"] => DedupeInv'
           /\ job'["retire"] = job["retire"] => RetireInv'
           /\ job'["repair"] = job["repair"] => RepairInv'
  <1>1. BoardTyped /\ archive \subseteq archive'
    BY DEF BoardInv, WorldStep
  <1>2. job'["mirror"] = job["mirror"] => MirrorInv'
    BY DEF BoardInv, MirrorInv, IsFetched
  <1>3. job'["quotes"] = job["quotes"] /\ who # "quotes" => QuotesInv'
    <2> SUFFICES ASSUME job'["quotes"] = job["quotes"], who # "quotes" PROVE QuotesInv'
      OBVIOUS
    <2>1. \A line : NoneOfQuotes(line) => NoneOfQuotes(line)'
      BY <1>1, TableKeeps
    <2> QED
      BY <2>1 DEF BoardInv, QuotesInv
  <1>4. job'["dedupe"] = job["dedupe"] => DedupeInv'
    <2> SUFFICES ASSUME job'["dedupe"] = job["dedupe"] PROVE DedupeInv'
      OBVIOUS
    <2> DEFINE m == job["dedupe"]
    <2>1. \A p : IsPair(p) => IsPair(p)'
      BY <1>1, TableKeeps
    <2>2. \A p \in m.todo : IsPair(p)'
      BY <2>1 DEF BoardInv, DedupeInv
    <2>3. ASSUME m.at \in {"merge", "drop"} PROVE IsPair(m.item) /\ IsPair(m.item)'
      BY <2>1, <2>3 DEF BoardInv, DedupeInv, IsPair, HasQuote
    <2>4. ASSUME m.at = "drop", m.item.twin.quote # Absent
          PROVE  board'[m.item.keep] # Absent => board'[m.item.keep].quote # Absent
      <3>1. HasQuote(m.item.keep) /\ m.item.keep \in Row /\ born[m.item.keep] # "nobody"
        BY <2>3, <2>4 DEF BoardInv, DedupeInv, IsPair
      <3> DEFINE k == m.item.keep
      <3>2. KeptRow(k)
        BY <3>1 DEF TableStep, NewRow
      <3> QED
        BY <3>1, <3>2 DEF KeptRow, HasQuote
    <2> QED
      BY <2>2, <2>3, <2>4 DEF DedupeInv, IsPair, HasQuote
  <1>5. job'["retire"] = job["retire"] => RetireInv'
    <2> SUFFICES ASSUME job'["retire"] = job["retire"] PROVE RetireInv'
      OBVIOUS
    <2>1. stood' \subseteq stood
      BY DEF WorldStep
    <2>2. \A r \in Row : Closed(r) => Closed(r)'
      BY <1>1, <2>1, TableKeeps
    <2> QED
      BY <1>1, <2>1, <2>2 DEF BoardInv, RetireInv
  <1>6. job'["repair"] = job["repair"] => RepairInv'
    BY DEF BoardInv, RepairInv, IsFix
  <1> QED
    BY <1>2, <1>3, <1>4, <1>5, <1>6

\* A step that ends an item, and one that fails.
LEMMA ContinueKeeps ==
    ASSUME BoardInv, NEW j \in Job \ {"retire"}, NEW who \in Writers \ {"nobody", "quotes"}, TableStep(who), WorldStep,
           Continue(j)
    PROVE  BoardInv'
  <1>1. BoardTyped /\ JobsTyped
    BY DEF BoardInv
  <1>2. /\ JobsTyped' /\ Unmoved(j) /\ job'[j].at \in {"rest", "next"} /\ job'[j].todo = job[j].todo
    BY <1>1, ContinueJob
  <1>3. BoardTyped' /\ WorldTyped' /\ OneQuoteDealPerLine'
    BY <1>1, TableKeeps DEF BoardInv, WorldStep, TableStep
  <1>4. MirrorInv'
    <2>1. CASE j = "mirror"
      BY <1>2, <2>1 DEF BoardInv, MirrorInv, IsFetched
    <2>2. CASE j # "mirror"
      BY <1>2, <2>2, OthersKeep DEF Unmoved, Job
    <2> QED
      BY <2>1, <2>2
  <1>5. QuotesInv'
    <2>1. CASE j = "quotes"
      BY <1>2, <2>1 DEF BoardInv, QuotesInv
    <2>2. CASE j # "quotes"
      BY <1>2, <2>2, OthersKeep DEF Unmoved, Job
    <2> QED
      BY <2>1, <2>2
  <1>6. DedupeInv'
    <2>1. CASE j = "dedupe"
      <3>1. \A p : IsPair(p) => IsPair(p)'
        BY <1>1, TableKeeps
      <3> QED
        BY <1>2, <2>1, <3>1 DEF BoardInv, DedupeInv
    <2>2. CASE j # "dedupe"
      BY <1>2, <2>2, OthersKeep DEF Unmoved, Job
    <2> QED
      BY <2>1, <2>2
  <1>7. RetireInv'
    BY <1>2, OthersKeep DEF Unmoved, Job
  <1>8. RepairInv'
    <2>1. CASE j = "repair"
      BY <1>2, <2>1 DEF BoardInv, RepairInv, IsFix
    <2>2. CASE j # "repair"
      BY <1>2, <2>2, OthersKeep DEF Unmoved, Job
    <2> QED
      BY <2>1, <2>2
  <1> QED
    BY <1>2, <1>3, <1>4, <1>5, <1>6, <1>7, <1>8 DEF BoardInv


\* A step of one job, which leaves the deals of the quote sync.
LEMMA OneJob ==
    ASSUME BoardInv, NEW j \in Job, NEW who \in Writers \ {"nobody", "quotes"}, TableStep(who), WorldStep,
           JobsTyped', Unmoved(j),
           j = "mirror" => MirrorInv', j = "quotes" => QuotesInv', j = "dedupe" => DedupeInv',
           j = "retire" => RetireInv', j = "repair" => RepairInv'
    PROVE  BoardInv'
  <1>1. BoardTyped
    BY DEF BoardInv
  <1>2. BoardTyped' /\ WorldTyped' /\ OneQuoteDealPerLine'
    BY <1>1, TableKeeps DEF BoardInv, WorldStep, TableStep
  <1>3. MirrorInv'
    BY OthersKeep DEF Unmoved, Job
  <1>4. QuotesInv'
    BY OthersKeep DEF Unmoved, Job
  <1>5. DedupeInv'
    BY OthersKeep DEF Unmoved, Job
  <1>6. RetireInv'
    BY OthersKeep DEF Unmoved, Job
  <1>7. RepairInv'
    BY OthersKeep DEF Unmoved, Job
  <1> QED
    BY <1>2, <1>3, <1>4, <1>5, <1>6, <1>7 DEF BoardInv

LEMMA IdleWorld ==
    ASSUME WorldTyped, WorldIdle, faults' = faults \/ Fault, archive' = archive
    PROVE  WorldStep
  <1>1. faults' \in 0..MaxFaults
    BY BoardAssumption DEF WorldTyped, Fault
  <1> QED
    BY <1>1 DEF WorldTyped, WorldIdle, WorldStep

\* A request of a job that only reads.
LEMMA IdleStep ==
    ASSUME BoardInv, TableIdle, WorldIdle, UNCHANGED faults
    PROVE  TableStep("people") /\ WorldStep /\ "people" \in Writers \ {"nobody", "quotes"}
  <1>1. TableStep("people")
    BY IdleTable DEF TableIdle, BoardInv
  <1>2. WorldStep
    BY IdleWorld DEF TableIdle, BoardInv
  <1> QED
    BY <1>1, <1>2 DEF Writers, Job

LEMMA JobNames ==
    /\ {"mirror", "quotes", "dedupe", "retire", "repair"} \subseteq Job
    /\ {"mirror", "people"} \subseteq Writers \ {"nobody", "quotes"}
    /\ \A j \in Job : j \in {"mirror", "quotes", "dedupe", "retire", "repair"}
    /\ \A set \in Cast : set \subseteq Job
  BY BoardAssumption DEF Job, Writers

LEMMA FailKeeps == ASSUME BoardInv, NEW j \in Job, Fail(j) PROVE BoardInv'
  <1>1. j \in Job \ {"retire"} /\ Continue(j) /\ TableIdle /\ WorldIdle /\ Fault
    BY DEF Fail
  <1>2. TableStep("people")
    BY <1>1, IdleTable DEF TableIdle, BoardInv
  <1>3. WorldStep
    BY <1>1, IdleWorld DEF TableIdle, BoardInv
  <1> QED
    BY <1>1, <1>2, <1>3, JobNames, ContinueKeeps

-----------------------------------------------------------------------------
(* The mirror                                                              *)

LEMMA StartMirrorKeeps == ASSUME BoardInv, StartMirror PROVE BoardInv'
  <1> DEFINE todo == {[id |-> o, type |-> ams[o].type, stage |-> ams[o].stage] : o \in Opp}
  <1>1. Begin("mirror", "next", todo)
    BY DEF StartMirror
  <1>2. \A o \in todo : IsFetched(o)
    BY DEF BoardInv, WorldTyped, IsFetched
  <1> HIDE DEF todo
  <1>3. JobsTyped' /\ Unmoved("mirror") /\ job'["mirror"].at = "next" /\ job'["mirror"].todo = todo
    BY <1>1, BeginJob, JobNames DEF BoardInv
  <1>4. MirrorInv'
    BY <1>2, <1>3 DEF MirrorInv, IsFetched
  <1>5. TableStep("people") /\ WorldStep
    BY <1>1, IdleStep DEF Begin
  <1> QED
    BY <1>3, <1>4, <1>5, OneJob, JobNames

LEMMA NextOpportunityKeeps == ASSUME BoardInv, NextOpportunity PROVE BoardInv'
  <1>1. PICK o \in job["mirror"].todo : Take("mirror", o, "find")
    BY DEF NextOpportunity
  <1>2. /\ JobsTyped' /\ Unmoved("mirror") /\ job'["mirror"].at = "find"
        /\ job'["mirror"].item = o /\ job'["mirror"].todo = job["mirror"].todo \ {o}
    BY <1>1, TakeJob, JobNames DEF BoardInv
  <1>3. MirrorInv'
    BY <1>2 DEF BoardInv, MirrorInv, IsFetched
  <1>4. TableStep("people") /\ WorldStep
    BY <1>1, IdleStep DEF Take
  <1> QED
    BY <1>2, <1>3, <1>4, OneJob, JobNames

\* What a job that found a row is about to write to.
LEMMA RowTaken ==
    ASSUME BoardInv, NEW j \in Job, NEW r \in Held,
           job' = [job EXCEPT ![j].at = "write", ![j].row = r, ![j].seen = board[r]]
    PROVE  /\ JobsTyped' /\ Unmoved(j) /\ job'[j].at = "write" /\ job'[j].row = r /\ job'[j].seen = board[r]
           /\ job'[j].item = job[j].item /\ job'[j].todo = job[j].todo
  <1> DEFINE new == [job[j] EXCEPT !.at = "write", !.row = r, !.seen = board[r]]
  <1>1. DOMAIN job = Job /\ DOMAIN job[j] = JobFields /\ JobsTyped
    BY DEF BoardInv, JobsTyped
  <1>2. job' = [job EXCEPT ![j] = new]
    BY <1>1 DEF JobFields
  <1>3. r \in Row /\ board[r] \in Deal
    BY DEF Held, BoardInv, BoardTyped
  <1>4. /\ DOMAIN new = JobFields /\ new.at = "write" /\ new.row = r /\ new.seen = board[r]
        /\ new.item = job[j].item /\ new.todo = job[j].todo
    BY <1>1 DEF JobFields
  <1> HIDE DEF new
  <1> QED
    BY <1>1, <1>2, <1>3, <1>4, JobBecomes

LEMMA FindOpportunityKeeps == ASSUME BoardInv, FindOpportunity PROVE BoardInv'
  <1> DEFINE o == job["mirror"].item
  <1>1. IsFetched(o) /\ \A q \in job["mirror"].todo : IsFetched(q)
    BY DEF BoardInv, MirrorInv, FindOpportunity, At
  <1>2. TableStep("people") /\ WorldStep
    BY IdleStep DEF FindOpportunity
  <1>3. JobsTyped
    BY DEF BoardInv
  <1>4. CASE Goto("mirror", "insert")
    <2>1. /\ JobsTyped' /\ Unmoved("mirror") /\ job'["mirror"].at = "insert"
          /\ job'["mirror"].item = o /\ job'["mirror"].todo = job["mirror"].todo
      BY <1>3, <1>4, GotoJob, JobNames
    <2>2. MirrorInv'
      BY <1>1, <2>1 DEF MirrorInv, IsFetched
    <2> QED
      BY <1>2, <2>1, <2>2, OneJob, JobNames
  <1>5. CASE Continue("mirror")
    BY <1>2, <1>5, ContinueKeeps, JobNames
  <1>6. ASSUME NEW r \in Existing(o), ~Claimed(board[r]),
               job' = [job EXCEPT !["mirror"].at = "write", !["mirror"].row = r, !["mirror"].seen = board[r]]
        PROVE  BoardInv'
    <2>1. r \in Held
      BY DEF Existing, OfType, OnLine
    <2>2. /\ JobsTyped' /\ Unmoved("mirror") /\ job'["mirror"].at = "write" /\ job'["mirror"].row = r
          /\ job'["mirror"].seen = board[r] /\ job'["mirror"].item = o /\ job'["mirror"].todo = job["mirror"].todo
      BY <1>6, <2>1, RowTaken, JobNames
    <2>3. MirrorInv'
      BY <1>1, <1>6, <2>1, <2>2 DEF MirrorInv, IsFetched, Claimed, Held
    <2> QED
      BY <1>2, <2>2, <2>3, OneJob, JobNames
  <1> QED
    BY <1>4, <1>5, <1>6 DEF FindOpportunity

LEMMA MirroredDeal ==
    ASSUME NEW d \in Deal, NEW o, IsFetched(o)
    PROVE  /\ Mirrored(d, o) \in Deal /\ Mirrored(d, o).line = d.line /\ Mirrored(d, o).quote = d.quote
           /\ Mirrored(d, o).type = o.type /\ Mirrored(d, o).stage = o.stage
  <1>1. o.id \in Opp /\ o.type \in Type /\ o.stage \in Ladders
    BY LadderOf DEF IsFetched
  <1> QED
    BY <1>1 DEF Mirrored, Deal, Ladders, Source

LEMMA WriteOpportunityKeeps == ASSUME BoardInv, WriteOpportunity PROVE BoardInv'
  <1> DEFINE r == job["mirror"].row
             o == job["mirror"].item
             d == Mirrored(board[r], o)
  <1>1. IsFetched(o) /\ r \in Row
    BY DEF BoardInv, MirrorInv, WriteOpportunity, At
  <1>2. BoardTyped /\ archive' = archive
    BY DEF BoardInv, WriteOpportunity, Refused, TableIdle
  <1>3. WorldStep
    BY <1>2, IdleWorld DEF BoardInv, WriteOpportunity
  <1>4. CASE Update(r, d) /\ Continue("mirror") /\ UNCHANGED <<archive, born>>
    <2>1. board[r] # Absent => d \in Deal /\ d.line = board[r].line /\ d.quote = board[r].quote
      BY <1>1, <1>2, RowHeld, MirroredDeal
    <2>2. TableStep("mirror")
      BY <1>1, <1>2, <1>4, <2>1, UpdateStep
    <2> QED
      BY <1>3, <1>4, <2>2, ContinueKeeps, JobNames
  <1>5. CASE Refused("mirror", r, d)
    <2>1. TableStep("people")
      BY <1>2, <1>5, IdleTable DEF Refused, TableIdle
    <2> QED
      BY <1>3, <1>5, <2>1, ContinueKeeps, JobNames DEF Refused
  <1> QED
    BY <1>4, <1>5 DEF WriteOpportunity

LEMMA InsertOpportunityKeeps == ASSUME BoardInv, InsertOpportunity PROVE BoardInv'
  <1> DEFINE o == job["mirror"].item
             d == Mirrored(NewDeal(AmsLine[o.id], o.type, o.stage), o)
  <1>1. IsFetched(o)
    BY DEF BoardInv, MirrorInv, InsertOpportunity, At
  <1>2. BoardTyped /\ archive' = archive
    BY DEF BoardInv, InsertOpportunity, TableIdle
  <1>3. WorldStep
    BY <1>2, IdleWorld DEF BoardInv, InsertOpportunity
  <1>4. d \in Deal
    <2>1. AmsLine[o.id] \in Line /\ o.type \in Type /\ o.stage \in Ladders
      BY <1>1, BoardAssumption, LadderOf DEF IsFetched
    <2> QED
      BY <1>1, <2>1, NewDealTyped, MirroredDeal
  <1>5. CASE \E r \in Row : Insert(r, d, "mirror")
    <2>1. TableStep("mirror")
      BY <1>2, <1>4, <1>5, InsertStep, JobNames
    <2> QED
      BY <1>3, <2>1, ContinueKeeps, JobNames DEF InsertOpportunity
  <1>6. CASE TableIdle
    <2>1. TableStep("people")
      BY <1>2, <1>6, IdleTable DEF TableIdle
    <2> QED
      BY <1>3, <2>1, ContinueKeeps, JobNames DEF InsertOpportunity
  <1> QED
    BY <1>5, <1>6 DEF InsertOpportunity


-----------------------------------------------------------------------------
(* The quote sync                                                          *)

LEMMA StartQuotesKeeps == ASSUME BoardInv, StartQuotes PROVE BoardInv'
  <1>1. LatestTerms \subseteq Quote
    BY DEF LatestTerms, BoardInv, WorldTyped
  <1>2. JobsTyped' /\ Unmoved("quotes") /\ job'["quotes"].at = "next" /\ job'["quotes"].todo = LatestTerms
    BY BeginJob, JobNames DEF StartQuotes, BoardInv
  <1>3. QuotesInv'
    BY <1>1, <1>2 DEF QuotesInv
  <1>4. TableStep("people") /\ WorldStep
    BY IdleStep DEF StartQuotes, Begin
  <1> QED
    BY <1>2, <1>3, <1>4, OneJob, JobNames

LEMMA NextQuoteKeeps == ASSUME BoardInv, NextQuote PROVE BoardInv'
  <1>1. PICK q \in job["quotes"].todo : Take("quotes", q, "find")
    BY DEF NextQuote
  <1>2. /\ JobsTyped' /\ Unmoved("quotes") /\ job'["quotes"].at = "find"
        /\ job'["quotes"].item = q /\ job'["quotes"].todo = job["quotes"].todo \ {q}
    BY <1>1, TakeJob, JobNames DEF BoardInv
  <1>3. QuotesInv'
    BY <1>2 DEF BoardInv, QuotesInv
  <1>4. TableStep("people") /\ WorldStep
    BY <1>1, IdleStep DEF Take
  <1> QED
    BY <1>2, <1>3, <1>4, OneJob, JobNames

LEMMA QuoteWrites ==
    ASSUME JobsTyped, NEW r \in Row, NEW seen \in Deal \cup {Absent}, NEW created,
           job' = [job EXCEPT !["quotes"].at = "write", !["quotes"].row = r,
                              !["quotes"].seen = seen, !["quotes"].created = created]
    PROVE  /\ JobsTyped' /\ Unmoved("quotes") /\ job'["quotes"].at = "write" /\ job'["quotes"].row = r
           /\ job'["quotes"].seen = seen
           /\ job'["quotes"].item = job["quotes"].item /\ job'["quotes"].todo = job["quotes"].todo
  <1> DEFINE new == [job["quotes"] EXCEPT !.at = "write", !.row = r, !.seen = seen, !.created = created]
  <1>1. DOMAIN job = Job /\ DOMAIN job["quotes"] = JobFields
    BY JobNames DEF JobsTyped
  <1>2. job' = [job EXCEPT !["quotes"] = new]
    BY <1>1, JobNames DEF JobFields
  <1>3. /\ DOMAIN new = JobFields /\ new.at = "write" /\ new.row = r /\ new.seen = seen
        /\ new.item = job["quotes"].item /\ new.todo = job["quotes"].todo
    BY <1>1 DEF JobFields
  <1> HIDE DEF new
  <1> QED
    BY <1>2, <1>3, JobBecomes, JobNames

LEMMA AdoptKeeps ==
    ASSUME BoardInv, TableStep("people"), WorldStep, job["quotes"].item \in Quote,
           NEW r \in Held, NEW created, Adopt(r, created)
    PROVE  BoardInv'
  <1>1. r \in Row /\ board[r] \in Deal /\ JobsTyped
    BY DEF Held, BoardInv, BoardTyped
  <1>2. /\ JobsTyped' /\ Unmoved("quotes") /\ job'["quotes"].at = "write" /\ job'["quotes"].row = r
        /\ job'["quotes"].item = job["quotes"].item /\ job'["quotes"].todo = job["quotes"].todo
    BY <1>1, QuoteWrites DEF Adopt
  <1>3. QuotesInv'
    BY <1>1, <1>2 DEF BoardInv, QuotesInv
  <1> QED
    BY <1>2, <1>3, OneJob, JobNames

LEMMA FindPriorKeeps == ASSUME BoardInv, FindPrior PROVE BoardInv'
  <1> DEFINE q == job["quotes"].item
  <1>1. q \in Quote /\ job["quotes"].todo \subseteq Quote /\ JobsTyped
    BY DEF BoardInv, QuotesInv, FindPrior, At
  <1>2. TableStep("people") /\ WorldStep
    BY IdleStep DEF FindPrior
  <1>3. CASE Prior(q) = {} /\ Goto("quotes", "lookup")
    <2>1. /\ JobsTyped' /\ Unmoved("quotes") /\ job'["quotes"].at = "lookup"
          /\ job'["quotes"].item = q /\ job'["quotes"].todo = job["quotes"].todo
      BY <1>1, <1>3, GotoJob, JobNames
    <2>2. \A r \in Row : board[r] # Absent => board[r].line # LineOf[q]
      BY <1>3 DEF Prior, OnLine, Held
    <2>3. board' = board /\ born' = born
      BY DEF FindPrior, TableIdle
    <2>4. QuotesInv'
      BY <1>1, <2>1, <2>2, <2>3 DEF QuotesInv, NoneOfQuotes
    <2> QED
      BY <1>2, <2>1, <2>4, OneJob, JobNames
  <1>4. ASSUME NEW r \in Prior(q), Adopt(r, FALSE) PROVE BoardInv'
    <2>1. r \in Held
      BY DEF Prior, OnLine
    <2> QED
      BY <1>1, <1>2, <1>4, <2>1, AdoptKeeps
  <1> QED
    BY <1>3, <1>4 DEF FindPrior

LEMMA LookUpKeeps == ASSUME BoardInv, LookUp PROVE BoardInv'
  <1> DEFINE q == job["quotes"].item
  <1>1. q \in Quote /\ job["quotes"].todo \subseteq Quote /\ NoneOfQuotes(LineOf[q]) /\ JobsTyped
    BY DEF BoardInv, QuotesInv, LookUp, At
  <1>2. TableStep("people") /\ WorldStep
    BY IdleStep DEF LookUp
  <1>3. CASE Goto("quotes", "insert")
    <2>1. /\ JobsTyped' /\ Unmoved("quotes") /\ job'["quotes"].at = "insert"
          /\ job'["quotes"].item = q /\ job'["quotes"].todo = job["quotes"].todo
      BY <1>1, <1>3, GotoJob, JobNames
    <2>2. board' = board /\ born' = born
      BY DEF LookUp, TableIdle
    <2>3. QuotesInv'
      BY <1>1, <2>1, <2>2 DEF QuotesInv, NoneOfQuotes
    <2> QED
      BY <1>2, <2>1, <2>3, OneJob, JobNames
  <1>4. ASSUME NEW r \in OfType(LineOf[q], TypeOf[q]), Adopt(r, FALSE) PROVE BoardInv'
    <2>1. r \in Held
      BY DEF OfType, OnLine
    <2> QED
      BY <1>1, <1>2, <1>4, <2>1, AdoptKeeps
  <1> QED
    BY <1>3, <1>4 DEF LookUp

\* The deal that the quote sync opens is its only one on the line.
LEMMA CreateKeeps == ASSUME BoardInv, Create PROVE BoardInv'
  <1> DEFINE q == job["quotes"].item
             d == NewDeal(LineOf[q], TypeOf[q], StageFor(TypeOf[q]))
  <1>1. q \in Quote /\ job["quotes"].todo \subseteq Quote /\ NoneOfQuotes(LineOf[q]) /\ JobsTyped /\ BoardTyped
    BY DEF BoardInv, QuotesInv, Create, At
  <1>2. archive' = archive
    BY DEF Create, TableIdle
  <1>3. WorldStep
    BY <1>2, IdleWorld DEF Create, BoardInv
  <1>4. d \in Deal /\ d.line = LineOf[q]
    <2>1. LineOf[q] \in Line /\ TypeOf[q] \in Type /\ StageFor(TypeOf[q]) \in Ladders
      BY <1>1, BoardAssumption, LadderOf
    <2> QED
      BY <2>1, NewDealTyped
  <1> HIDE DEF d
  <1>5. ASSUME NEW r \in Row, Insert(r, d, "quotes"),
               job' = [job EXCEPT !["quotes"].at = "write", !["quotes"].row = r,
                                  !["quotes"].seen = d, !["quotes"].created = TRUE]
        PROVE  BoardInv'
    <2>0. "quotes" \in Writers \ {"nobody"}
      BY DEF Writers, Job
    <2>1. /\ TableStep("quotes") /\ board'[r] = d /\ born'[r] = "quotes"
          /\ \A s \in Row : s # r => board'[s] = board[s] /\ born'[s] = born[s]
      BY <1>1, <1>4, <1>5, <2>0, InsertStep
    <2>2. /\ JobsTyped' /\ Unmoved("quotes") /\ job'["quotes"].at = "write" /\ job'["quotes"].row = r
          /\ job'["quotes"].item = q /\ job'["quotes"].todo = job["quotes"].todo
      BY <1>1, <1>4, <1>5, QuoteWrites
    <2>3. QuotesInv'
      BY <1>1, <2>2 DEF QuotesInv
    <2>4. MirrorInv' /\ DedupeInv' /\ RetireInv' /\ RepairInv'
      BY <1>3, <2>0, <2>1, <2>2, OthersKeep, JobNames DEF Unmoved
    <2>5. OneQuoteDealPerLine'
      <3> SUFFICES ASSUME NEW s \in Row, NEW t \in Row, board'[s] # Absent, board'[t] # Absent,
                          born'[s] = "quotes", born'[t] = "quotes", board'[s].line = board'[t].line
                   PROVE  s = t
        BY DEF OneQuoteDealPerLine, Held
      <3>1. CASE s # r /\ t # r
        BY <2>1, <3>1 DEF BoardInv, OneQuoteDealPerLine, Held
      <3>2. CASE s = r /\ t # r
        BY <1>1, <1>4, <2>1, <3>2 DEF NoneOfQuotes
      <3>3. CASE s # r /\ t = r
        BY <1>1, <1>4, <2>1, <3>3 DEF NoneOfQuotes
      <3> QED
        BY <3>1, <3>2, <3>3
    <2> QED
      BY <1>3, <2>1, <2>2, <2>3, <2>4, <2>5 DEF BoardInv, WorldStep, TableStep
  <1>6. CASE TableIdle /\ Continue("quotes")
    <2>1. TableStep("people")
      BY <1>1, <1>6, IdleTable DEF TableIdle
    <2> QED
      BY <1>3, <1>6, <2>1, ContinueKeeps, JobNames
  <1> QED
    BY <1>5, <1>6 DEF Create, d

LEMMA EnrichedDeal ==
    ASSUME NEW d \in Deal, job["quotes"].item \in Quote
    PROVE  /\ Enriched(d) \in Deal /\ Enriched(d).line = d.line /\ Enriched(d).type = d.type
           /\ Enriched(d).quote = job["quotes"].item /\ Enriched(d).quote # Absent
           /\ Enriched(d).stage = IF Promotes THEN StageFor("new") ELSE d.stage
  <1>1. StageFor("new") \in Ladders
    BY LadderOf
  <1>2. PICK s \in Ladders : s = IF Promotes THEN StageFor("new") ELSE d.stage
    BY <1>1, DealShape
  <1>3. Enriched(d) = [d EXCEPT !.quote = job["quotes"].item, !.source = "quotes", !.stage = s]
    BY <1>2 DEF Enriched
  <1>4. PICK q \in Quote : q = job["quotes"].item
    OBVIOUS
  <1>5. q # Absent
    BY BoardAssumption
  <1> DEFINE e == [d EXCEPT !.quote = q, !.source = "quotes", !.stage = s]
  <1>6. e \in Deal /\ e.line = d.line /\ e.type = d.type /\ e.quote = q /\ e.stage = s
    BY DEF Deal, Ladders, Source
  <1>7. Enriched(d) = e
    BY <1>3, <1>4
  <1> HIDE DEF e
  <1> QED
    BY <1>2, <1>4, <1>5, <1>6, <1>7

LEMMA EnrichKeeps == ASSUME BoardInv, Enrich PROVE BoardInv'
  <1> DEFINE r == job["quotes"].row
  <1>1. r \in Row /\ job["quotes"].item \in Quote /\ BoardTyped
    BY DEF BoardInv, QuotesInv, Enrich, At
  <1>2. WorldStep
    BY IdleWorld DEF BoardInv, Enrich
  <1>3. board[r] # Absent => /\ Enriched(board[r]) \in Deal /\ Enriched(board[r]).line = board[r].line
                             /\ Enriched(board[r]).quote # Absent
    BY <1>1, EnrichedDeal, RowHeld
  <1>4. TableStep("people")
    BY <1>1, <1>3, UpdateStep DEF Enrich
  <1> QED
    BY <1>2, <1>4, ContinueKeeps, JobNames DEF Enrich


-----------------------------------------------------------------------------
(* The merge of duplicates                                                 *)

LEMMA PairsArePairs == BoardInv => \A p \in Pairs : IsPair(p)
  <1> SUFFICES ASSUME BoardInv, NEW keep \in Held, NEW drop \in Held PROVE IsPair(Pair(keep, drop))
    BY DEF Pairs
  <1>1. keep \in Row /\ drop \in Row /\ board[keep] \in Deal /\ board[drop] \in Deal /\ born[keep] # "nobody"
    BY DEF Held, BoardInv, BoardTyped
  <1> DEFINE p == Pair(keep, drop)
  <1>2. p.keep = keep /\ p.drop = drop /\ p.carried = Carried(keep, drop) /\ p.twin = board[drop]
    BY DEF Pair
  <1>3. /\ Carried(keep, drop).opp \in Opp \cup {Absent} /\ Carried(keep, drop).quote \in Quote \cup {Absent}
        /\ Carried(keep, drop).quote = IF board[keep].quote = Absent THEN board[drop].quote ELSE Absent
    BY <1>1, DealShape DEF Carried
  <1> HIDE DEF p
  <1>4. IsPair(p)
    BY <1>1, <1>2, <1>3 DEF IsPair, HasQuote
  <1> QED
    BY <1>4 DEF p

LEMMA StartDedupeKeeps == ASSUME BoardInv, StartDedupe PROVE BoardInv'
  <1>1. PICK same \in SUBSET Pairs : Begin("dedupe", "next", same)
    BY DEF StartDedupe
  <1>2. JobsTyped' /\ Unmoved("dedupe") /\ job'["dedupe"].at = "next" /\ job'["dedupe"].todo = same
    BY <1>1, BeginJob, JobNames DEF BoardInv
  <1>3. TableStep("people") /\ WorldStep
    BY <1>1, IdleStep DEF Begin
  <1>4. \A p \in same : IsPair(p)'
    BY <1>3, PairsArePairs, TableKeeps, JobNames DEF BoardInv
  <1>5. DedupeInv'
    BY <1>2, <1>4 DEF DedupeInv
  <1> QED
    BY <1>2, <1>3, <1>5, OneJob, JobNames

LEMMA NextPairKeeps == ASSUME BoardInv, NextPair PROVE BoardInv'
  <1>1. PICK p \in job["dedupe"].todo : Take("dedupe", p, "merge")
    BY DEF NextPair
  <1>2. /\ JobsTyped' /\ Unmoved("dedupe") /\ job'["dedupe"].at = "merge"
        /\ job'["dedupe"].item = p /\ job'["dedupe"].todo = job["dedupe"].todo \ {p}
    BY <1>1, TakeJob, JobNames DEF BoardInv
  <1>3. TableStep("people") /\ WorldStep
    BY <1>1, IdleStep DEF Take
  <1>4. \A q \in job["dedupe"].todo : IsPair(q)'
    BY <1>3, TableKeeps, JobNames DEF BoardInv, DedupeInv
  <1>5. DedupeInv'
    BY <1>2, <1>4 DEF DedupeInv
  <1> QED
    BY <1>2, <1>3, <1>5, OneJob, JobNames

LEMMA MergedDeal ==
    ASSUME NEW d \in Deal, NEW c, c.opp \in Opp \cup {Absent}, c.quote \in Quote \cup {Absent}
    PROVE  /\ Merged(d, c) \in Deal /\ Merged(d, c).line = d.line
           /\ Merged(d, c).quote = Filled(d.quote, c.quote)
  <1>1. PICK opp \in Opp \cup {Absent} : opp = Filled(d.opp, c.opp)
    BY DealShape DEF Filled
  <1>2. PICK quote \in Quote \cup {Absent} : quote = Filled(d.quote, c.quote)
    BY DealShape DEF Filled
  <1> DEFINE e == [d EXCEPT !.opp = opp, !.quote = quote]
  <1>3. e \in Deal /\ e.line = d.line /\ e.quote = quote
    BY DEF Deal
  <1>4. Merged(d, c) = e
    BY <1>1, <1>2 DEF Merged
  <1> HIDE DEF e
  <1> QED
    BY <1>2, <1>3, <1>4

\* The survivor has the quote of the twin, or its own, before the twin goes.
LEMMA MergePairKeeps == ASSUME BoardInv, MergePair PROVE BoardInv'
  <1> DEFINE p == job["dedupe"].item
             d == Merged(board[p.keep], p.carried)
  <1>1. IsPair(p) /\ BoardTyped /\ JobsTyped /\ p.keep \in Row
    BY DEF BoardInv, DedupeInv, MergePair, At, IsPair
  <1>2. archive' = archive
    BY DEF MergePair, Refused, TableIdle
  <1>3. WorldStep
    BY <1>2, IdleWorld DEF BoardInv, MergePair
  <1>4. CASE Update(p.keep, d) /\ Goto("dedupe", "drop") /\ UNCHANGED <<archive, born>>
    <2>1. board[p.keep] # Absent =>
            /\ d \in Deal /\ d.line = board[p.keep].line
            /\ d.quote = Filled(board[p.keep].quote, p.carried.quote)
      BY <1>1, MergedDeal, RowHeld DEF IsPair
    <2>2. board[p.keep] # Absent /\ board[p.keep].quote # Absent => d.quote # Absent
      BY <2>1 DEF Filled
    <2>3. TableStep("people")
      BY <1>1, <1>4, <2>1, <2>2, UpdateStep
    <2>4. /\ JobsTyped' /\ Unmoved("dedupe") /\ job'["dedupe"].at = "drop"
          /\ job'["dedupe"].item = p /\ job'["dedupe"].todo = job["dedupe"].todo
      BY <1>1, <1>4, GotoJob, JobNames
    <2>5. \A q : IsPair(q) => IsPair(q)'
      BY <1>1, <1>3, <2>3, TableKeeps, JobNames
    <2>6. ASSUME p.twin.quote # Absent, board'[p.keep] # Absent PROVE board'[p.keep].quote # Absent
      <3>1. CASE board[p.keep] = Absent
        BY <1>4, <2>6, <3>1 DEF Update
      <3>2. CASE board[p.keep] # Absent
        <4>1. board'[p.keep] = d
          BY <1>1, <1>4, <3>2 DEF Update, BoardTyped
        <4>2. p.carried.quote = Absent => board[p.keep].quote # Absent
          BY <1>1, <2>6, <3>2 DEF IsPair, HasQuote
        <4> HIDE DEF d
        <4> QED
          BY <2>1, <3>2, <4>1, <4>2 DEF Filled
      <3> QED
        BY <3>1, <3>2
    <2>7. PICK m : m = p
      OBVIOUS
    <2>8. IsPair(m)' /\ (m.twin.quote # Absent => HasQuote(m.keep)')
      BY <1>1, <2>5, <2>6, <2>7 DEF HasQuote
    <2>9. \A q \in job["dedupe"].todo : IsPair(q)'
      BY <2>5 DEF BoardInv, DedupeInv
    <2>10. DedupeInv'
      BY <2>4, <2>7, <2>8, <2>9 DEF DedupeInv, HasQuote
    <2> QED
      BY <1>3, <2>3, <2>4, <2>10, OneJob, JobNames
  <1>5. CASE Refused("dedupe", p.keep, d)
    <2>1. TableStep("people")
      BY <1>1, <1>5, IdleTable DEF Refused, TableIdle
    <2> QED
      BY <1>3, <1>5, <2>1, ContinueKeeps, JobNames DEF Refused
  <1> QED
    BY <1>4, <1>5 DEF MergePair

LEMMA DropTwinKeeps == ASSUME BoardInv, DropTwin PROVE BoardInv'
  <1> DEFINE r == job["dedupe"].item.drop
  <1>1. r \in Row /\ BoardTyped
    BY DEF BoardInv, DedupeInv, DropTwin, At, IsPair
  <1>2. WorldStep
    BY IdleWorld DEF BoardInv, DropTwin, Delete
  <1>3. TableStep("people")
    BY <1>1, DeleteStep DEF DropTwin, Delete
  <1> QED
    BY <1>2, <1>3, ContinueKeeps, JobNames DEF DropTwin

-----------------------------------------------------------------------------
(* The retirement                                                          *)

LEMMA ReadGuidsKeeps == ASSUME BoardInv, ReadGuids PROVE BoardInv'
  <1>1. TableStep("people") /\ WorldStep
    BY IdleStep DEF ReadGuids
  <1> DEFINE new == [job["retire"] EXCEPT !.at = "deals", !.open = register]
  <1>2. DOMAIN job = Job /\ DOMAIN job["retire"] = JobFields /\ JobsTyped
        /\ job["retire"].row \in Row \cup {Absent} /\ job["retire"].seen \in Deal \cup {Absent}
    BY JobNames DEF BoardInv, JobsTyped
  <1>3. job' = [job EXCEPT !["retire"] = new]
    BY <1>2, JobNames DEF ReadGuids, JobFields
  <1>4. DOMAIN new = JobFields /\ new.at = "deals" /\ new.row = job["retire"].row /\ new.seen = job["retire"].seen
    BY <1>2 DEF JobFields
  <1> HIDE DEF new
  <1>5. JobsTyped' /\ Unmoved("retire") /\ job'["retire"] = new
    BY <1>2, <1>3, <1>4, JobBecomes, JobNames
  <1>6. RetireInv'
    BY <1>4, <1>5 DEF RetireInv
  <1> QED
    BY <1>1, <1>5, <1>6, OneJob, JobNames

LEMMA ReadDealsKeeps == ASSUME BoardInv, ReadDeals PROVE BoardInv'
  <1>1. TableStep("people") /\ stood' = register
    BY IdleTable DEF BoardInv, ReadDeals, TableIdle
  <1> DEFINE lines == {LineOf[q] : q \in register}
             new == [job["retire"] EXCEPT !.at = "plan", !.lines = lines]
  <1>2. DOMAIN job = Job /\ DOMAIN job["retire"] = JobFields /\ JobsTyped
        /\ job["retire"].row \in Row \cup {Absent} /\ job["retire"].seen \in Deal \cup {Absent}
    BY JobNames DEF BoardInv, JobsTyped
  <1>3. \A q \in register : LineOf[q] \in lines
    OBVIOUS
  <1>4. job' = [job EXCEPT !["retire"].at = "plan", !["retire"].lines = lines]
    BY DEF ReadDeals
  <1> HIDE DEF lines
  <1>5. job' = [job EXCEPT !["retire"] = new]
    BY <1>2, <1>4, JobNames DEF JobFields
  <1>6. /\ DOMAIN new = JobFields /\ new.at = "plan" /\ new.lines = lines
        /\ new.row = job["retire"].row /\ new.seen = job["retire"].seen
    BY <1>2 DEF JobFields
  <1> HIDE DEF new
  <1>7. JobsTyped' /\ Unmoved("retire") /\ job'["retire"] = new
    BY <1>2, <1>5, <1>6, JobBecomes, JobNames
  <1>8. RetireInv'
    BY <1>1, <1>3, <1>6, <1>7 DEF RetireInv
  <1>9. job'["retire"] # job["retire"]
    BY <1>6, <1>7 DEF ReadDeals, At
  <1>10. WorldStep
    BY <1>1, <1>9 DEF BoardInv, WorldTyped, WorldStep, ReadDeals, TableIdle
  <1> QED
    BY <1>1, <1>7, <1>8, <1>10, OneJob, JobNames

LEMMA PlanRetirementKeeps == ASSUME BoardInv, PlanRetirement PROVE BoardInv'
  <1>1. TableStep("people") /\ WorldStep /\ stood' = stood
    BY IdleStep DEF PlanRetirement, WorldIdle
  <1> DEFINE gone == {r \in Held : Retired(r)}
             at == IF gone = {} THEN "rest" ELSE "archive"
             new == [job["retire"] EXCEPT !.todo = gone, !.at = at]
  <1>2. DOMAIN job = Job /\ DOMAIN job["retire"] = JobFields /\ JobsTyped /\ BoardTyped
        /\ job["retire"].row \in Row \cup {Absent} /\ job["retire"].seen \in Deal \cup {Absent}
    BY JobNames DEF BoardInv, JobsTyped
  <1>3. \A q \in stood : LineOf[q] \in job["retire"].lines
    BY DEF BoardInv, RetireInv, PlanRetirement, At
  <1>4. gone \subseteq Row /\ \A r \in gone : Closed(r)
    BY <1>2, <1>3, RowHeld DEF Held, Retired, Closed
  <1>5. \A r \in gone : Closed(r)'
    BY <1>1, <1>2, <1>4, TableKeeps, JobNames
  <1>6. job' = [job EXCEPT !["retire"].todo = gone, !["retire"].at = at]
    BY DEF PlanRetirement
  <1>7. at \in {"rest", "archive"}
    OBVIOUS
  <1> HIDE DEF gone, at
  <1>8. job' = [job EXCEPT !["retire"] = new]
    BY <1>2, <1>6, JobNames DEF JobFields
  <1>9. /\ DOMAIN new = JobFields /\ new.at = at /\ new.todo = gone
        /\ new.row = job["retire"].row /\ new.seen = job["retire"].seen
    BY <1>2 DEF JobFields
  <1> HIDE DEF new
  <1>10. JobsTyped' /\ Unmoved("retire") /\ job'["retire"] = new
    BY <1>2, <1>8, <1>9, JobBecomes, JobNames
  <1>11. RetireInv'
    BY <1>4, <1>5, <1>7, <1>9, <1>10 DEF RetireInv
  <1> QED
    BY <1>1, <1>10, <1>11, OneJob, JobNames

LEMMA ArchiveKeeps == ASSUME BoardInv, Archive PROVE BoardInv'
  <1>1. BoardTyped /\ JobsTyped /\ job["retire"].todo \subseteq Row /\ \A r \in job["retire"].todo : Closed(r)
    BY DEF BoardInv, RetireInv, Archive, At
  <1>2. TableStep("people")
    BY <1>1, IdleTable DEF Archive
  <1>3. WorldStep /\ stood' = stood /\ job["retire"].todo \subseteq archive'
    BY <1>1 DEF BoardInv, WorldTyped, WorldStep, Archive, WorldIdle
  <1>4. JobsTyped' /\ Unmoved("retire") /\ job'["retire"].at = "next" /\ job'["retire"].todo = job["retire"].todo
    BY <1>1, GotoJob, JobNames DEF Archive
  <1>5. \A r \in job["retire"].todo : Closed(r)'
    BY <1>1, <1>2, <1>3, TableKeeps, JobNames
  <1>6. RetireInv'
    BY <1>1, <1>3, <1>4, <1>5 DEF RetireInv
  <1> QED
    BY <1>2, <1>3, <1>4, <1>6, OneJob, JobNames

\* The retirement is done with a row, or with the last one.
LEMMA RowDone ==
    ASSUME JobsTyped, NEW r,
           job' = [job EXCEPT !["retire"] = IF job["retire"].todo = {r} THEN Nothing
                                            ELSE [job["retire"] EXCEPT !.todo = @ \ {r}]]
    PROVE  /\ JobsTyped' /\ Unmoved("retire")
           /\ \/ job'["retire"].at = "rest"
              \/ job'["retire"].at = job["retire"].at /\ job'["retire"].todo = job["retire"].todo \ {r}
  <1>1. DOMAIN job["retire"] = JobFields
        /\ job["retire"].row \in Row \cup {Absent} /\ job["retire"].seen \in Deal \cup {Absent}
    BY JobNames DEF JobsTyped
  <1>2. CASE job["retire"].todo = {r}
    <2>1. job' = [job EXCEPT !["retire"] = Nothing]
      BY <1>2
    <2> QED
      BY <2>1, NothingShape, JobBecomes, JobNames
  <1>3. CASE job["retire"].todo # {r}
    <2> DEFINE new == [job["retire"] EXCEPT !.todo = job["retire"].todo \ {r}]
    <2>1. job' = [job EXCEPT !["retire"] = new]
      BY <1>3
    <2>2. /\ DOMAIN new = JobFields /\ new.at = job["retire"].at /\ new.todo = job["retire"].todo \ {r}
          /\ new.row = job["retire"].row /\ new.seen = job["retire"].seen
      BY <1>1 DEF JobFields
    <2> HIDE DEF new
    <2> QED
      BY <1>1, <2>1, <2>2, JobBecomes, JobNames
  <1> QED
    BY <1>2, <1>3

LEMMA RetirementGoesOn ==
    ASSUME BoardInv, NEW r \in job["retire"].todo, At("retire", "next") \/ job["retire"].at = "next",
           TableStep("people"), WorldStep, archive' = archive, stood' = stood,
           job' = [job EXCEPT !["retire"] = IF job["retire"].todo = {r} THEN Nothing
                                            ELSE [job["retire"] EXCEPT !.todo = @ \ {r}]]
    PROVE  BoardInv'
  <1>1. job["retire"].at = "next" /\ JobsTyped /\ BoardTyped
    BY DEF At, BoardInv
  <1>2. job["retire"].todo \subseteq Row /\ job["retire"].todo \subseteq archive /\ \A s \in job["retire"].todo : Closed(s)
    BY <1>1 DEF BoardInv, RetireInv
  <1>3. /\ JobsTyped' /\ Unmoved("retire")
        /\ \/ job'["retire"].at = "rest"
           \/ job'["retire"].at = "next" /\ job'["retire"].todo = job["retire"].todo \ {r}
    BY <1>1, RowDone
  <1>4. \A s \in job["retire"].todo : Closed(s)'
    BY <1>1, <1>2, TableKeeps, JobNames
  <1>5. RetireInv'
    BY <1>2, <1>3, <1>4 DEF RetireInv
  <1> QED
    BY <1>3, <1>5, OneJob, JobNames

LEMMA RetireRowKeeps == ASSUME BoardInv, RetireRow PROVE BoardInv'
  <1>1. PICK r \in job["retire"].todo :
            /\ Delete(r)
            /\ job' = [job EXCEPT !["retire"] = IF job["retire"].todo = {r} THEN Nothing
                                                ELSE [job["retire"] EXCEPT !.todo = @ \ {r}]]
    BY DEF RetireRow
  <1>2. At("retire", "next") /\ archive' = archive /\ stood' = stood /\ BoardTyped
    BY <1>1 DEF RetireRow, Delete, BoardInv, WorldIdle
  <1>3. r \in Row
    BY <1>2 DEF BoardInv, RetireInv, At
  <1>4. TableStep("people")
    BY <1>1, <1>2, <1>3, DeleteStep DEF Delete
  <1>5. WorldStep
    BY <1>2, IdleWorld DEF BoardInv, RetireRow
  <1> QED
    BY <1>1, <1>2, <1>4, <1>5, RetirementGoesOn

LEMMA FailRetirementKeeps == ASSUME BoardInv, FailRetirement PROVE BoardInv'
  <1>1. TableStep("people") /\ archive' = archive /\ stood' = stood /\ JobsTyped
    BY IdleTable DEF BoardInv, FailRetirement, TableIdle, WorldIdle
  <1>2. WorldStep
    BY <1>1, IdleWorld DEF BoardInv, FailRetirement
  <1>3. CASE job' = [job EXCEPT !["retire"] = Nothing]
    <2>1. JobsTyped' /\ Unmoved("retire") /\ job'["retire"] = Nothing
      BY <1>1, <1>3, NothingShape, JobBecomes, JobNames
    <2>2. RetireInv'
      BY <2>1, NothingShape DEF RetireInv
    <2> QED
      BY <1>1, <1>2, <2>1, <2>2, OneJob, JobNames
  <1>4. ASSUME NEW r \in job["retire"].todo, job["retire"].at = "next",
               job' = [job EXCEPT !["retire"] = IF job["retire"].todo = {r} THEN Nothing
                                                ELSE [job["retire"] EXCEPT !.todo = @ \ {r}]]
        PROVE  BoardInv'
    BY <1>1, <1>2, <1>4, RetirementGoesOn
  <1> QED
    BY <1>3, <1>4 DEF FailRetirement


-----------------------------------------------------------------------------
(* The repair                                                              *)

LEMMA FixesAreFixes == BoardInv => \A f \in Fixes : IsFix(f)
  <1> SUFFICES ASSUME BoardInv, NEW r \in Held, board[r].quote # Absent, board[r].source # "crm" PROVE IsFix(Fix(r))
    BY DEF Fixes
  <1> DEFINE want == TypeOf[board[r].quote]
             f == Fix(r)
  <1>1. r \in Row /\ board[r] \in Deal /\ want \in Type
    <2>1. r \in Row /\ board[r] \in Deal
      BY DEF Held, BoardInv, BoardTyped
    <2>2. board[r].quote \in Quote
      BY <2>1, DealShape
    <2> QED
      BY <2>1, <2>2, BoardAssumption
  <1>2. /\ f.row = r /\ f.type = want /\ f.seen = board[r]
        /\ f.stage = IF board[r].stage \in Stages(want) THEN Absent ELSE StageFor(want)
    BY DEF Fix
  <1> HIDE DEF f
  <1>3. IsFix(f)
    BY <1>1, <1>2 DEF IsFix
  <1> QED
    BY <1>3 DEF f

LEMMA StartRepairKeeps == ASSUME BoardInv, StartRepair PROVE BoardInv'
  <1>1. BoardTyped /\ JobsTyped
    BY DEF BoardInv
  <1>2. TableStep("people")
    BY <1>1, IdleTable DEF StartRepair
  <1>3. WorldStep
    BY DEF BoardInv, WorldTyped, WorldStep, StartRepair, WorldIdle, Held
  <1> DEFINE todo == Fixes
             new == [Nothing EXCEPT !.at = "next", !.todo = todo]
  <1>4. \A f \in todo : IsFix(f)
    BY FixesAreFixes
  <1>5. job' = [job EXCEPT !["repair"] = new]
    BY DEF StartRepair
  <1> HIDE DEF todo
  <1>6. DOMAIN new = JobFields /\ new.at = "next" /\ new.todo = todo /\ new.row = Absent /\ new.seen = Absent
    BY NothingShape DEF JobFields
  <1> HIDE DEF new
  <1>7. JobsTyped' /\ Unmoved("repair") /\ job'["repair"] = new
    BY <1>1, <1>5, <1>6, JobBecomes, JobNames
  <1>8. PICK set : set = todo
    OBVIOUS
  <1>9. RepairInv'
    BY <1>4, <1>6, <1>7, <1>8 DEF RepairInv, IsFix
  <1> QED
    BY <1>2, <1>3, <1>7, <1>9, OneJob, JobNames

LEMMA NextFixKeeps == ASSUME BoardInv, NextFix PROVE BoardInv'
  <1>1. PICK f \in job["repair"].todo : Take("repair", f, "write")
    BY DEF NextFix
  <1>2. /\ JobsTyped' /\ Unmoved("repair") /\ job'["repair"].at = "write"
        /\ job'["repair"].item = f /\ job'["repair"].todo = job["repair"].todo \ {f}
    BY <1>1, TakeJob, JobNames DEF BoardInv
  <1>3. RepairInv'
    BY <1>2 DEF BoardInv, RepairInv, IsFix
  <1>4. TableStep("people") /\ WorldStep
    BY <1>1, IdleStep DEF Take
  <1> QED
    BY <1>2, <1>3, <1>4, OneJob, JobNames

LEMMA RetypedDeal ==
    ASSUME NEW d \in Deal, NEW f, IsFix(f)
    PROVE  /\ Retyped(d, f) \in Deal /\ Retyped(d, f).line = d.line /\ Retyped(d, f).quote = d.quote
           /\ Retyped(d, f).type = f.type /\ Retyped(d, f).stage = Filled(d.stage, f.stage)
  <1>1. f.type \in Type /\ f.stage \in Ladders \cup {Absent}
    BY LadderOf DEF IsFix
  <1>2. PICK s \in Ladders : s = Filled(d.stage, f.stage)
    BY <1>1, DealShape DEF Filled
  <1>3. PICK t \in Type : t = f.type
    BY <1>1
  <1> DEFINE e == [d EXCEPT !.type = t, !.stage = s]
  <1>4. e \in Deal /\ e.line = d.line /\ e.quote = d.quote /\ e.type = t /\ e.stage = s
    BY DEF Deal, Ladders
  <1>5. Retyped(d, f) = e
    BY <1>2, <1>3 DEF Retyped
  <1> HIDE DEF e
  <1> QED
    BY <1>2, <1>3, <1>4, <1>5

LEMMA ApplyFixKeeps == ASSUME BoardInv, ApplyFix PROVE BoardInv'
  <1> DEFINE f == job["repair"].item
             d == Retyped(board[f.row], f)
  <1>1. IsFix(f) /\ f.row \in Row /\ BoardTyped
    BY DEF BoardInv, RepairInv, ApplyFix, At, IsFix
  <1>2. archive' = archive
    BY DEF ApplyFix, TableIdle
  <1>3. WorldStep
    BY <1>2, IdleWorld DEF BoardInv, ApplyFix
  <1>4. CASE Update(f.row, d) /\ UNCHANGED <<archive, born>>
    <2>1. board[f.row] # Absent => d \in Deal /\ d.line = board[f.row].line /\ d.quote = board[f.row].quote
      BY <1>1, RowHeld, RetypedDeal
    <2>2. TableStep("people")
      BY <1>1, <1>4, <2>1, UpdateStep
    <2> QED
      BY <1>3, <2>2, ContinueKeeps, JobNames DEF ApplyFix
  <1>5. CASE TableIdle
    <2>1. TableStep("people")
      BY <1>1, <1>5, IdleTable DEF TableIdle
    <2> QED
      BY <1>3, <2>1, ContinueKeeps, JobNames DEF ApplyFix
  <1> QED
    BY <1>4, <1>5 DEF ApplyFix

-----------------------------------------------------------------------------
(* People                                                                  *)

LEMMA PeopleKeep ==
    ASSUME BoardInv, TableStep("people"), WorldStep, job' = job
    PROVE  BoardInv'
  <1>1. BoardTyped
    BY DEF BoardInv
  <1>2. BoardTyped' /\ WorldTyped' /\ OneQuoteDealPerLine'
    BY <1>1, TableKeeps, JobNames DEF BoardInv, WorldStep, TableStep
  <1>3. MirrorInv' /\ QuotesInv' /\ DedupeInv' /\ RetireInv' /\ RepairInv'
    BY OthersKeep, JobNames
  <1>4. JobsTyped'
    BY DEF BoardInv, JobsTyped
  <1> QED
    BY <1>2, <1>3, <1>4 DEF BoardInv

LEMMA PeoplesWorld ==
    ASSUME WorldTyped, Move, JobsIdle, register' \subseteq Quote, stood' \subseteq stood,
           ams' = ams \/ (/\ ams' \in [Opp -> [type : Type, stage : Ladders]]
                          /\ \A o \in Opp : ams'[o].stage \in Stages(ams'[o].type))
    PROVE  WorldStep /\ job' = job
  <1>1. moves' \in 0..MaxMoves
    BY BoardAssumption DEF WorldTyped, Move
  <1>2. stood' \subseteq Quote /\ jobs' = jobs /\ archive' = archive /\ faults' = faults /\ job' = job
    BY DEF WorldTyped, JobsIdle
  <1> QED
    BY <1>1, <1>2 DEF WorldTyped, WorldStep

LEMMA WorkKeeps == ASSUME BoardInv, NEW r \in Row, Work(r) PROVE BoardInv'
  <1>1. PICK type \in Type, stage \in Ladders :
            board' = [board EXCEPT ![r] = [board[r] EXCEPT !.type = type, !.stage = stage, !.source = "crm"]]
    BY DEF Work, Ladders
  <1> DEFINE d == [board[r] EXCEPT !.type = type, !.stage = stage, !.source = "crm"]
  <1>2. BoardTyped /\ WorldTyped /\ board[r] # Absent /\ board[r] \in Deal
    BY DEF Work, Held, BoardInv, BoardTyped
  <1>3. d \in Deal /\ d.line = board[r].line /\ d.quote = board[r].quote
    BY <1>2 DEF Deal, Ladders, Source
  <1> HIDE DEF d
  <1>4. board' = [board EXCEPT ![r] = d]
    BY <1>1 DEF d
  <1>5. PICK new : new = d
    OBVIOUS
  <1>6. /\ board' \in [Row -> Deal \cup {Absent}] /\ board'[r] = new
        /\ \A s \in Row : s # r => board'[s] = board[s]
    BY <1>2, <1>3, <1>4, <1>5 DEF BoardTyped
  <1>7. born' = born
    BY DEF Work
  <1>8. BoardTyped'
    BY <1>2, <1>6, <1>7, RowHeld DEF BoardTyped
  <1>9. \A s \in Row : KeptRow(s)
    BY <1>2, <1>3, <1>5, <1>6, <1>7 DEF KeptRow
  <1>10. WorldStep /\ job' = job
    BY <1>2, PeoplesWorld DEF Work, WorldTyped
  <1> QED
    BY <1>8, <1>9, <1>10, PeopleKeep DEF TableStep

LEMMA OpenKeeps == ASSUME BoardInv, NEW line \in Line, NEW type \in Type, Open(line, type) PROVE BoardInv'
  <1>1. FirstStage(type) \in Ladders /\ BoardTyped /\ WorldTyped
    BY LadderOf DEF BoardInv
  <1>2. NewDeal(line, type, FirstStage(type)) \in Deal
    BY <1>1, NewDealTyped
  <1>3. TableStep("people")
    BY <1>1, <1>2, InsertStep, JobNames DEF Open
  <1>4. WorldStep /\ job' = job
    BY <1>1, PeoplesWorld DEF Open, WorldTyped
  <1> QED
    BY <1>3, <1>4, PeopleKeep

LEMMA DiscardKeeps == ASSUME BoardInv, NEW r \in Row, Discard(r) PROVE BoardInv'
  <1>1. TableStep("people")
    BY DeleteStep DEF Discard, BoardInv
  <1>2. WorldStep /\ job' = job
    BY PeoplesWorld DEF Discard, BoardInv, WorldTyped
  <1> QED
    BY <1>1, <1>2, PeopleKeep

LEMMA CloseQuoteKeeps == ASSUME BoardInv, NEW q \in Quote, CloseQuote(q) PROVE BoardInv'
  <1>1. TableStep("people")
    BY IdleTable DEF CloseQuote, TableIdle, BoardInv
  <1>2. WorldStep /\ job' = job
    BY PeoplesWorld DEF CloseQuote, BoardInv, WorldTyped
  <1> QED
    BY <1>1, <1>2, PeopleKeep

LEMMA OpenQuoteKeeps == ASSUME BoardInv, NEW q \in Quote, OpenQuote(q) PROVE BoardInv'
  <1>1. TableStep("people")
    BY IdleTable DEF OpenQuote, TableIdle, BoardInv
  <1>2. WorldStep /\ job' = job
    BY PeoplesWorld DEF OpenQuote, BoardInv, WorldTyped
  <1> QED
    BY <1>1, <1>2, PeopleKeep

LEMMA MoveInAmsKeeps == ASSUME BoardInv, NEW o \in Opp, MoveInAms(o) PROVE BoardInv'
  <1>1. TableStep("people")
    BY IdleTable DEF MoveInAms, TableIdle, BoardInv
  <1>2. PICK stage \in Stages(ams[o].type) : ams' = [ams EXCEPT ![o].stage = stage]
    BY DEF MoveInAms
  <1>3. ams \in [Opp -> [type : Type, stage : Ladders]] /\ \A p \in Opp : ams[p].stage \in Stages(ams[p].type)
    BY DEF BoardInv, WorldTyped
  <1> DEFINE new == [ams[o] EXCEPT !.stage = stage]
  <1>4. new \in [type : Type, stage : Ladders] /\ new.stage \in Stages(new.type)
    <2>1. stage \in Ladders
      BY LadderOf
    <2> QED
      BY <1>3, <2>1
  <1>5. ams' = [ams EXCEPT ![o] = new]
    BY <1>2, <1>3
  <1> HIDE DEF new
  <1>6. ams' \in [Opp -> [type : Type, stage : Ladders]] /\ \A p \in Opp : ams'[p].stage \in Stages(ams'[p].type)
    BY <1>3, <1>4, <1>5
  <1>7. WorldStep /\ job' = job
    BY <1>6, PeoplesWorld DEF MoveInAms, BoardInv, WorldTyped
  <1> QED
    BY <1>1, <1>7, PeopleKeep

-----------------------------------------------------------------------------

LEMMA BoardInvInit == Init => BoardInv
  <1> SUFFICES ASSUME Init PROVE BoardInv
    OBVIOUS
  <1>1. board \in [Row -> Deal \cup {Absent}]
    BY StartAssumption DEF Init
  <1>2. BoardTyped
    BY <1>1 DEF BoardTyped, Init, Writers
  <1>3. WorldTyped
    BY BoardAssumption DEF WorldTyped, Init, Ladders
  <1>4. JobsTyped
    BY NothingShape DEF JobsTyped, Init
  <1>5. OneQuoteDealPerLine
    BY DEF OneQuoteDealPerLine, Init, Held
  <1>6. \A j \in Job : job[j].at = "rest" /\ job[j].todo = {}
    BY NothingShape DEF Init
  <1>7. MirrorInv /\ QuotesInv /\ DedupeInv /\ RetireInv /\ RepairInv
    BY <1>6, JobNames DEF MirrorInv, QuotesInv, DedupeInv, RetireInv, RepairInv
  <1> QED
    BY <1>2, <1>3, <1>4, <1>5, <1>7 DEF BoardInv

LEMMA BoardInvStep == BoardInv /\ [Next]_vars => BoardInv'
  <1> SUFFICES ASSUME BoardInv, [Next]_vars PROVE BoardInv'
    OBVIOUS
  <1>1. CASE UNCHANGED vars
    <2>1. TableStep("people")
      BY <1>1, IdleTable DEF vars, BoardInv
    <2>2. WorldStep
      BY <1>1 DEF vars, BoardInv, WorldTyped, WorldStep
    <2> QED
      BY <1>1, <2>1, <2>2, PeopleKeep DEF vars
  <1>2. CASE Mirror
    BY <1>2, StartMirrorKeeps, NextOpportunityKeeps, FindOpportunityKeeps, WriteOpportunityKeeps,
       InsertOpportunityKeeps DEF Mirror
  <1>3. CASE Quotes
    BY <1>3, StartQuotesKeeps, NextQuoteKeeps, FindPriorKeeps, LookUpKeeps, CreateKeeps, EnrichKeeps DEF Quotes
  <1>4. CASE Dedupe
    BY <1>4, StartDedupeKeeps, NextPairKeeps, MergePairKeeps, DropTwinKeeps DEF Dedupe
  <1>5. CASE Retire
    BY <1>5, ReadGuidsKeeps, ReadDealsKeeps, PlanRetirementKeeps, ArchiveKeeps, RetireRowKeeps, FailRetirementKeeps
       DEF Retire
  <1>6. CASE Repair
    BY <1>6, StartRepairKeeps, NextFixKeeps, ApplyFixKeeps DEF Repair
  <1>7. CASE \E j \in Job : Fail(j)
    BY <1>7, FailKeeps
  <1>8. CASE \E r \in Row : Work(r) \/ Discard(r)
    BY <1>8, WorkKeeps, DiscardKeeps
  <1>9. CASE \E line \in Line, type \in Type : Open(line, type)
    BY <1>9, OpenKeeps
  <1>10. CASE \E q \in Quote : CloseQuote(q) \/ OpenQuote(q)
    BY <1>10, CloseQuoteKeeps, OpenQuoteKeeps
  <1>11. CASE \E o \in Opp : MoveInAms(o)
    BY <1>11, MoveInAmsKeeps
  <1> QED
    BY <1>1, <1>2, <1>3, <1>4, <1>5, <1>6, <1>7, <1>8, <1>9, <1>10, <1>11 DEF Next

THEOREM BoardInvariant == Spec => []BoardInv
  BY BoardInvInit, BoardInvStep, PTL DEF Spec

-----------------------------------------------------------------------------
(* What a person gave a deal: it stays as the deal has it, ends when a job *)
(* writes the deal, or is given anew.                                      *)

GivenInv ==
    /\ given \in [Row -> Given \cup {Absent}]
    /\ \A r \in Row : /\ given[r] # Absent /\ board[r] # Absent
                           => board[r].source = "crm" /\ Standing(board[r]) = given[r]
                      /\ born[r] = "nobody" => given[r] = Absent

Stays(r) ==
    /\ given'[r] = given[r]
    /\ given[r] # Absent /\ board'[r] # Absent
          => /\ board[r] # Absent /\ board'[r].source = board[r].source
             /\ Standing(board'[r]) = Standing(board[r])
Displaced(r) ==
    \/ Standing(board'[r]) = Standing(board[r])
    \/ Enrich /\ board[r].stage \in PreQuote
    \/ Overtaken(r)
Ends(r) ==
    /\ given'[r] = Absent
    /\ given[r] # Absent /\ board[r] # Absent /\ board'[r] # Absent => Displaced(r)
Anew(r) ==
    /\ Work(r) /\ board'[r].source = "crm" /\ given'[r] = Standing(board'[r])
GivenStep ==
    /\ given' \in [Row -> Given \cup {Absent}]
    /\ \A r \in Row : /\ born'[r] = "nobody" => born[r] = "nobody"
                      /\ Stays(r) \/ Ends(r) \/ Anew(r)

LEMMA GivenIdle ==
    ASSUME GivenInv, board' = board, born' = born, given' = given PROVE GivenStep
  BY DEF GivenInv, GivenStep, Stays

LEMMA GivenDeleted ==
    ASSUME GivenInv, BoardTyped, NEW r \in Row, board' = [board EXCEPT ![r] = Absent],
           born' = born, given' = given
    PROVE  GivenStep
  <1>1. board'[r] = Absent /\ \A s \in Row : s # r => board'[s] = board[s]
    BY DEF BoardTyped
  <1> QED
    BY <1>1 DEF GivenInv, GivenStep, Stays

LEMMA GivenInserted ==
    ASSUME GivenInv, BoardTyped, NEW r \in Row, NEW d \in Deal, NEW who \in Writers \ {"nobody"}, Insert(r, d, who)
    PROVE  GivenStep
  <1>1. \A s \in Row : s # r => board'[s] = board[s] /\ born'[s] = born[s]
    BY InsertStep
  <1>2. given' = given /\ born[r] = "nobody" /\ given[r] = Absent
    BY DEF Insert, Fresh, GivenInv
  <1>3. \A s \in Row : Stays(s)
    BY <1>1, <1>2 DEF Stays
  <1> QED
    BY <1>1, <1>2, <1>3 DEF GivenInv, GivenStep

LEMMA GivenOverruled ==
    ASSUME GivenInv, BoardTyped, NEW r \in Row, NEW d, Update(r, d), Overrule(r), born' = born,
           given[r] # Absent /\ board[r] # Absent /\ board'[r] = d => Displaced(r)
    PROVE  GivenStep
  <1>1. /\ given' \in [Row -> Given \cup {Absent}] /\ given'[r] = Absent
        /\ \A s \in Row : s # r => given'[s] = given[s]
    BY DEF GivenInv, Overrule
  <1>2. board[r] = Absent \/ board'[r] = d
    BY DEF Update, BoardTyped
  <1>3. \A s \in Row : s # r => board'[s] = board[s]
    BY DEF Update, BoardTyped
  <1>4. Ends(r)
    BY <1>1, <1>2 DEF Ends
  <1>5. \A s \in Row : s # r => Stays(s)
    BY <1>1, <1>3 DEF Stays
  <1> QED
    BY <1>1, <1>4, <1>5 DEF GivenStep

LEMMA MirrorGives == ASSUME BoardInv, GivenInv, Mirror PROVE GivenStep
  <1>1. BoardTyped
    BY DEF BoardInv
  <1>2. CASE StartMirror \/ NextOpportunity \/ FindOpportunity
    BY <1>2, GivenIdle DEF StartMirror, NextOpportunity, FindOpportunity, Begin, Take, TableIdle
  <1>3. CASE WriteOpportunity
    <2> DEFINE r == job["mirror"].row
               d == Mirrored(board[r], job["mirror"].item)
    <2>1. r \in Row /\ job["mirror"].seen.source # "crm"
      BY <1>3 DEF BoardInv, MirrorInv, WriteOpportunity, At
    <2>2. CASE Update(r, d) /\ Overrule(r) /\ born' = born
      <3>1. given[r] # Absent /\ board[r] # Absent => Displaced(r)
        BY <1>3, <2>1 DEF GivenInv, Displaced, Overtaken
      <3> HIDE DEF d
      <3> QED
        BY <1>1, <2>1, <2>2, <3>1, GivenOverruled
    <2>3. CASE TableIdle
      BY <2>3, GivenIdle DEF TableIdle
    <2> QED
      BY <1>3, <2>2, <2>3 DEF WriteOpportunity, Refused
  <1>4. CASE InsertOpportunity
    <2> DEFINE o == job["mirror"].item
               d == Mirrored(NewDeal(AmsLine[o.id], o.type, o.stage), o)
    <2>1. IsFetched(o)
      BY <1>4 DEF BoardInv, MirrorInv, InsertOpportunity, At
    <2>2. d \in Deal
      <3>1. AmsLine[o.id] \in Line /\ o.type \in Type /\ o.stage \in Ladders
        BY <2>1, BoardAssumption, LadderOf DEF IsFetched
      <3> QED
        BY <2>1, <3>1, NewDealTyped, MirroredDeal
    <2> HIDE DEF d
    <2>3. CASE \E r \in Row : Insert(r, d, "mirror")
      BY <1>1, <2>2, <2>3, GivenInserted, JobNames
    <2>4. CASE TableIdle
      BY <2>4, GivenIdle DEF TableIdle
    <2> QED
      BY <1>4, <2>3, <2>4 DEF InsertOpportunity, d
  <1> QED
    BY <1>2, <1>3, <1>4 DEF Mirror

LEMMA QuotesGive == ASSUME BoardInv, GivenInv, Quotes PROVE GivenStep
  <1>1. BoardTyped
    BY DEF BoardInv
  <1>2. CASE StartQuotes \/ NextQuote \/ FindPrior \/ LookUp
    BY <1>2, GivenIdle DEF StartQuotes, NextQuote, FindPrior, LookUp, Begin, Take, TableIdle
  <1>3. CASE Create
    <2> DEFINE q == job["quotes"].item
               d == NewDeal(LineOf[q], TypeOf[q], StageFor(TypeOf[q]))
    <2>1. q \in Quote
      BY <1>3 DEF BoardInv, QuotesInv, Create, At
    <2>2. d \in Deal
      <3>1. LineOf[q] \in Line /\ TypeOf[q] \in Type /\ StageFor(TypeOf[q]) \in Ladders
        BY <2>1, BoardAssumption, LadderOf
      <3> QED
        BY <3>1, NewDealTyped
    <2> HIDE DEF d
    <2>3. "quotes" \in Writers \ {"nobody"}
      BY DEF Writers, Job
    <2>4. CASE \E r \in Row : Insert(r, d, "quotes")
      BY <1>1, <2>2, <2>3, <2>4, GivenInserted
    <2>5. CASE TableIdle
      BY <2>5, GivenIdle DEF TableIdle
    <2> QED
      BY <1>3, <2>4, <2>5 DEF Create, d
  <1>4. CASE Enrich
    <2> DEFINE r == job["quotes"].row
               d == Enriched(board[r])
    <2>1. r \in Row /\ job["quotes"].item \in Quote
      BY <1>4 DEF BoardInv, QuotesInv, Enrich, At
    <2>2. ASSUME board[r] # Absent, board'[r] = d PROVE Displaced(r)
      <3>1. board[r] \in Deal
        BY <1>1, <2>1, <2>2, RowHeld
      <3>2. d.type = board[r].type /\ d.stage = IF Promotes THEN StageFor("new") ELSE board[r].stage
        BY <2>1, <3>1, EnrichedDeal
      <3> HIDE DEF d
      <3>3. CASE job["quotes"].seen # board[r]
        BY <1>4, <3>3 DEF Displaced, Overtaken
      <3>4. CASE job["quotes"].seen = board[r] /\ Promotes
        BY <1>4, <3>4 DEF Displaced, Promotes
      <3>5. CASE ~Promotes
        BY <2>2, <3>2, <3>5 DEF Displaced, Standing
      <3> QED
        BY <3>3, <3>4, <3>5
    <2> HIDE DEF d
    <2>3. Update(r, d) /\ Overrule(r) /\ born' = born
      BY <1>4 DEF Enrich, d
    <2> QED
      BY <1>1, <2>1, <2>2, <2>3, GivenOverruled
  <1> QED
    BY <1>2, <1>3, <1>4 DEF Quotes

LEMMA DedupeGives == ASSUME BoardInv, GivenInv, Dedupe PROVE GivenStep
  <1>1. BoardTyped
    BY DEF BoardInv
  <1>2. CASE StartDedupe \/ NextPair
    BY <1>2, GivenIdle DEF StartDedupe, NextPair, Begin, Take, TableIdle
  <1>3. CASE MergePair
    <2> DEFINE p == job["dedupe"].item
               d == Merged(board[p.keep], p.carried)
    <2>1. p.keep \in Row /\ IsPair(p)
      BY <1>3 DEF BoardInv, DedupeInv, IsPair, MergePair, At
    <2>2. CASE Update(p.keep, d) /\ born' = born /\ given' = given
      <3>1. CASE board[p.keep] = Absent
        BY <2>2, <3>1, GivenIdle DEF Update
      <3>2. CASE board[p.keep] # Absent
        <4>1. board[p.keep] \in Deal
          BY <1>1, <2>1, <3>2, RowHeld
        <4>2. d.type = board[p.keep].type /\ d.stage = board[p.keep].stage /\ d.source = board[p.keep].source
          BY <4>1 DEF Merged, Deal
        <4>3. PICK e : e = d
          OBVIOUS
        <4>4. board' = [board EXCEPT ![p.keep] = e]
          BY <2>2, <3>2, <4>3 DEF Update
        <4>5. board'[p.keep] = e /\ \A s \in Row : s # p.keep => board'[s] = board[s]
          BY <1>1, <2>1, <4>4 DEF BoardTyped
        <4>6. Stays(p.keep)
          BY <2>2, <3>2, <4>2, <4>3, <4>5 DEF Stays, Standing
        <4>7. \A s \in Row : s # p.keep => Stays(s)
          BY <2>2, <4>5 DEF Stays
        <4> QED
          BY <2>2, <4>6, <4>7 DEF GivenInv, GivenStep
      <3> QED
        BY <3>1, <3>2
    <2>3. CASE TableIdle
      BY <2>3, GivenIdle DEF TableIdle
    <2> QED
      BY <1>3, <2>2, <2>3 DEF MergePair, Refused
  <1>4. CASE DropTwin
    <2>1. job["dedupe"].item.drop \in Row
      BY <1>4 DEF BoardInv, DedupeInv, DropTwin, At, IsPair
    <2> QED
      BY <1>1, <1>4, <2>1, GivenDeleted DEF DropTwin, Delete
  <1> QED
    BY <1>2, <1>3, <1>4 DEF Dedupe

LEMMA RetireGives == ASSUME BoardInv, GivenInv, Retire PROVE GivenStep
  <1>1. BoardTyped
    BY DEF BoardInv
  <1>2. CASE ReadGuids \/ ReadDeals \/ PlanRetirement \/ Archive \/ FailRetirement
    BY <1>2, GivenIdle DEF ReadGuids, ReadDeals, PlanRetirement, Archive, FailRetirement, TableIdle
  <1>3. CASE RetireRow
    <2>1. PICK r \in job["retire"].todo : Delete(r)
      BY <1>3 DEF RetireRow
    <2>2. r \in Row
      BY <1>3, <2>1 DEF BoardInv, RetireInv, RetireRow, At
    <2> QED
      BY <1>1, <2>1, <2>2, GivenDeleted DEF Delete
  <1> QED
    BY <1>2, <1>3 DEF Retire

LEMMA RepairGives == ASSUME BoardInv, GivenInv, Repair PROVE GivenStep
  <1>1. BoardTyped
    BY DEF BoardInv
  <1>2. CASE StartRepair \/ NextFix
    BY <1>2, GivenIdle DEF StartRepair, NextFix, Take, TableIdle
  <1>3. CASE ApplyFix
    <2> DEFINE f == job["repair"].item
               d == Retyped(board[f.row], f)
    <2>1. IsFix(f) /\ f.row \in Row
      BY <1>3 DEF BoardInv, RepairInv, ApplyFix, At, IsFix
    <2>2. CASE Update(f.row, d) /\ Overrule(f.row) /\ born' = born
      <3>1. given[f.row] # Absent /\ board[f.row] # Absent => Displaced(f.row)
        BY <1>3, <2>1 DEF GivenInv, Displaced, Overtaken, IsFix
      <3> HIDE DEF d
      <3> QED
        BY <1>1, <2>1, <2>2, <3>1, GivenOverruled
    <2>3. CASE TableIdle
      BY <2>3, GivenIdle DEF TableIdle
    <2> QED
      BY <1>3, <2>2, <2>3 DEF ApplyFix
  <1> QED
    BY <1>2, <1>3 DEF Repair

LEMMA WorkGives == ASSUME BoardInv, GivenInv, NEW r \in Row, Work(r) PROVE GivenStep
  <1>1. PICK type \in Type, stage \in Ladders :
          LET worked == [board[r] EXCEPT !.type = type, !.stage = stage, !.source = "crm"]
          IN  board' = [board EXCEPT ![r] = worked] /\ given' = [given EXCEPT ![r] = Standing(worked)]
    BY DEF Work, Ladders
  <1> DEFINE d == [board[r] EXCEPT !.type = type, !.stage = stage, !.source = "crm"]
  <1>2. BoardTyped /\ board[r] # Absent
    BY DEF Work, Held, BoardInv
  <1>3. d.source = "crm" /\ d.type = type /\ d.stage = stage
    BY <1>2 DEF BoardTyped, Deal
  <1>4. PICK e : e = d
    OBVIOUS
  <1> HIDE DEF d
  <1>5. Standing(e) = <<type, stage>> /\ Standing(e) \in Given
    BY <1>3, <1>4 DEF Standing, Given, Ladders
  <1>6. board' = [board EXCEPT ![r] = e] /\ given' = [given EXCEPT ![r] = Standing(e)]
    BY <1>1, <1>4 DEF d
  <1>7. board'[r] = e /\ \A s \in Row : s # r => board'[s] = board[s]
    BY <1>2, <1>6 DEF BoardTyped
  <1>8. /\ given' \in [Row -> Given \cup {Absent}] /\ given'[r] = Standing(e)
        /\ \A s \in Row : s # r => given'[s] = given[s]
    BY <1>5, <1>6 DEF GivenInv
  <1>9. Anew(r)
    BY <1>3, <1>4, <1>7, <1>8 DEF Anew
  <1>10. \A s \in Row : s # r => Stays(s)
    BY <1>7, <1>8 DEF Stays
  <1>11. born' = born
    BY DEF Work
  <1> QED
    BY <1>8, <1>9, <1>10, <1>11 DEF GivenStep

LEMMA PeopleGive ==
    ASSUME BoardInv, GivenInv, NEW line \in Line, NEW type \in Type, Open(line, type)
    PROVE  GivenStep
  <1>1. FirstStage(type) \in Ladders /\ BoardTyped
    BY LadderOf DEF BoardInv
  <1>2. NewDeal(line, type, FirstStage(type)) \in Deal
    BY <1>1, NewDealTyped
  <1> QED
    BY <1>1, <1>2, GivenInserted, JobNames DEF Open

LEMMA BoardGives == ASSUME BoardInv, GivenInv, [Next]_vars PROVE GivenStep
  <1>1. CASE UNCHANGED vars
    BY <1>1, GivenIdle DEF vars
  <1>2. CASE Mirror \/ Quotes \/ Dedupe \/ Retire \/ Repair
    BY <1>2, MirrorGives, QuotesGive, DedupeGives, RetireGives, RepairGives
  <1>3. CASE \E j \in Job : Fail(j)
    BY <1>3, GivenIdle DEF Fail, TableIdle
  <1>4. ASSUME NEW r \in Row, Work(r) \/ Discard(r) PROVE GivenStep
    BY <1>4, WorkGives, GivenDeleted DEF Discard, BoardInv
  <1>5. CASE \E line \in Line, type \in Type : Open(line, type)
    BY <1>5, PeopleGive
  <1>6. CASE \E q \in Quote : CloseQuote(q) \/ OpenQuote(q)
    BY <1>6, GivenIdle DEF CloseQuote, OpenQuote, TableIdle
  <1>7. CASE \E o \in Opp : MoveInAms(o)
    BY <1>7, GivenIdle DEF MoveInAms, TableIdle
  <1> QED
    BY <1>1, <1>2, <1>3, <1>4, <1>5, <1>6, <1>7 DEF Next

LEMMA GivenInvInit == Init => GivenInv
  <1> SUFFICES ASSUME Init PROVE GivenInv
    OBVIOUS
  <1>1. \A r \in Row : board[r] # Absent => board[r] \in Deal
    BY StartAssumption DEF Init
  <1>2. \A r \in Row : board[r] # Absent => Standing(board[r]) \in Given
    BY <1>1 DEF Standing, Given, Deal
  <1> QED
    BY <1>2 DEF Init, GivenInv

LEMMA GivenInvStep == BoardInv /\ GivenInv /\ [Next]_vars => GivenInv'
  <1> SUFFICES ASSUME BoardInv, GivenInv, [Next]_vars PROVE GivenInv'
    OBVIOUS
  <1>1. GivenStep
    BY BoardGives
  <1>2. ASSUME NEW r \in Row, given'[r] # Absent, board'[r] # Absent
        PROVE  board'[r].source = "crm" /\ Standing(board'[r]) = given'[r]
    <2>1. CASE Stays(r)
      BY <1>2, <2>1 DEF GivenInv, Stays
    <2>2. CASE Anew(r)
      BY <2>2 DEF Anew
    <2> QED
      BY <1>1, <1>2, <2>1, <2>2 DEF GivenStep, Ends
  <1>3. ASSUME NEW r \in Row, born'[r] = "nobody" PROVE given'[r] = Absent
    <2>1. born[r] = "nobody" /\ given[r] = Absent
      BY <1>1, <1>3 DEF GivenStep, GivenInv
    <2>2. ~Anew(r)
      BY <2>1 DEF Anew, Work, Held, BoardInv, BoardTyped
    <2> QED
      BY <1>1, <2>1, <2>2 DEF GivenStep, Stays, Ends
  <1> QED
    BY <1>1, <1>2, <1>3 DEF GivenInv, GivenStep, Standing

\* A type and stage that still stick are the deal's, and it is worked in the CRM.
THEOREM GivenInvariant == Spec => []GivenInv
  BY GivenInvInit, GivenInvStep, BoardInvariant, PTL DEF Spec

\* Whichever jobs run side by side and whatever people do meanwhile: the rows keep their
\* shape, and the quote sync opens one deal for a client and line
\* (hermes/sync/quote_sync.py, opportunity_sync.py, opportunity_dedupe.py).
THEOREM BoardIsSafe == Spec => []BoardSafe
  <1>1. BoardInv /\ GivenInv => BoardSafe
    <2> SUFFICES ASSUME BoardInv, GivenInv PROVE BoardSafe
      OBVIOUS
    <2>1. TypeOK
      BY DEF BoardInv, BoardTyped, WorldTyped, JobsTyped, GivenInv, TypeOK, Ladders, Writers
    <2> QED
      BY <2>1 DEF BoardInv, BoardSafe
  <1> QED
    BY <1>1, BoardInvariant, GivenInvariant, PTL

\* A job that writes to a deal as it has read it does not take it off the ladder.
LEMMA LadderKept ==
    ASSUME BoardInv, NEW r \in Held, Writes(r, board[r]), board'[r] # Absent
    PROVE  board[r].stage \in Stages(board[r].type) => board'[r].stage \in Stages(board'[r].type)
  <1>1. r \in Row /\ board[r] # Absent /\ board[r] \in Deal /\ DOMAIN board = Row
    BY DEF Held, BoardInv, BoardTyped
  <1>2. CASE WriteOpportunity /\ job["mirror"].row = r /\ job["mirror"].seen = board[r]
    <2> DEFINE o == job["mirror"].item
               d == Mirrored(board[r], o)
    <2>1. IsFetched(o) /\ board[r].source # "crm"
      BY <1>2 DEF BoardInv, MirrorInv, WriteOpportunity, At
    <2>2. d.type = o.type /\ d.stage = o.stage
      BY <1>1, <2>1, MirroredDeal
    <2>3. board'[r] = board[r] \/ board'[r] = d
      BY <1>1, <1>2 DEF WriteOpportunity, Update, Refused, TableIdle
    <2> HIDE DEF d
    <2> QED
      BY <2>1, <2>2, <2>3 DEF IsFetched
  <1>3. CASE Enrich /\ job["quotes"].row = r /\ job["quotes"].seen = board[r]
    <2> DEFINE d == Enriched(board[r])
    <2>1. /\ d.type = board[r].type
          /\ d.stage = IF Promotes THEN StageFor("new") ELSE board[r].stage
      BY <1>1, <1>3, EnrichedDeal DEF BoardInv, QuotesInv, Enrich, At
    <2>2. board'[r] = d
      BY <1>1, <1>3 DEF Enrich, Update
    <2> HIDE DEF d
    <2>3. CASE Promotes
      <3>1. board[r].stage = "prep"
        BY <1>3, <2>3 DEF Promotes, PreQuote
      <3>2. "prep" \in Stages(board[r].type) => board[r].type # "renewal"
        BY DEF Stages
      <3>3. d.stage = "quoted"
        BY <2>1, <2>3 DEF StageFor
      <3>4. board[r].type # "renewal" => "quoted" \in Stages(board[r].type)
        BY DEF Stages
      <3> QED
        BY <1>3, <2>1, <2>2, <3>1, <3>2, <3>3, <3>4 DEF PreQuote
    <2>4. CASE ~Promotes
      BY <2>1, <2>2, <2>4
    <2> QED
      BY <2>3, <2>4
  <1>4. CASE ApplyFix /\ job["repair"].item.row = r /\ job["repair"].item.seen = board[r]
    <2> DEFINE f == job["repair"].item
               d == Retyped(board[r], f)
    <2>1. IsFix(f) /\ f.seen = board[r] /\ f.row = r
      BY <1>4 DEF BoardInv, RepairInv, ApplyFix, At
    <2>2. d.type = f.type /\ d.stage = Filled(board[r].stage, f.stage)
      BY <1>1, <2>1, RetypedDeal
    <2>3. board'[r] = board[r] \/ board'[r] = d
      BY <1>1, <1>4 DEF ApplyFix, Update, TableIdle
    <2> HIDE DEF d
    <2>4. d.stage \in Stages(d.type)
      <3>1. CASE board[r].stage \in Stages(f.type)
        BY <2>1, <2>2, <3>1 DEF IsFix, Filled
      <3>2. CASE board[r].stage \notin Stages(f.type)
        BY <2>1, <2>2, <3>2, LadderOf DEF IsFix, Filled
      <3> QED
        BY <3>1, <3>2
    <2> QED
      BY <2>1, <2>3, <2>4 DEF IsFix
  <1> QED
    BY <1>2, <1>3, <1>4 DEF Writes

\* Through the nights of all five jobs, the type and stage that a person gave a deal stay
\* until a person gives it others, the quote sync takes the deal over with a quote, or a
\* job writes that had read the deal before; and a job that has read it as it is takes no
\* deal off the ladder of its type (hermes/sync/opportunity_sync.py, quote_sync.py,
\* quote_board_repair.py, hermes/api.py).
THEOREM WorkedAreSpared == Spec => WorkedSpared
  <1> DEFINE Spared == \A r \in Held : board'[r] # Absent =>
          /\ given[r] # Absent =>
                \/ Standing(board'[r]) = given[r]
                \/ Work(r)
                \/ Enrich /\ board[r].stage \in PreQuote
                \/ Overtaken(r)
          /\ Writes(r, board[r]) /\ board[r].stage \in Stages(board[r].type)
                => board'[r].stage \in Stages(board'[r].type)
  <1>1. BoardInv /\ GivenInv /\ [Next]_vars => Spared
    <2> SUFFICES ASSUME BoardInv, GivenInv, [Next]_vars, NEW r \in Held, board'[r] # Absent
                 PROVE  /\ given[r] # Absent =>
                              \/ Standing(board'[r]) = given[r]
                              \/ Work(r)
                              \/ Enrich /\ board[r].stage \in PreQuote
                              \/ Overtaken(r)
                        /\ Writes(r, board[r]) /\ board[r].stage \in Stages(board[r].type)
                              => board'[r].stage \in Stages(board'[r].type)
      OBVIOUS
    <2>1. r \in Row /\ board[r] # Absent
      BY DEF Held
    <2>2. Stays(r) \/ Ends(r) \/ Anew(r)
      BY <2>1, BoardGives DEF GivenStep
    <2>3. ASSUME given[r] # Absent
          PROVE  \/ Standing(board'[r]) = given[r]
                 \/ Work(r)
                 \/ Enrich /\ board[r].stage \in PreQuote
                 \/ Overtaken(r)
      <3>1. Standing(board[r]) = given[r]
        BY <2>1, <2>3 DEF GivenInv
      <3> QED
        BY <2>1, <2>2, <2>3, <3>1 DEF Stays, Ends, Displaced, Anew
    <2>4. Writes(r, board[r]) => (board[r].stage \in Stages(board[r].type) => board'[r].stage \in Stages(board'[r].type))
      BY LadderKept
    <2> QED
      BY <2>3, <2>4
  <1> QED
    BY <1>1, BoardInvariant, GivenInvariant, PTL DEF WorkedSpared, Spec

\* When a merge drops a twin that had a quote, the survivor names one; and the row that
\* the retirement takes is in the archive and has no quote on its line that has been open
\* ever since the retirement asked (hermes/sync/opportunity_dedupe.py).
THEOREM NothingIsLost == Spec => NothingLost
  <1> DEFINE Safe == \A r \in Held :
          /\ DropTwin /\ r = job["dedupe"].item.keep /\ job["dedupe"].item.twin.quote # Absent
             => board[r].quote # Absent
          /\ RetireRow /\ board'[r] = Absent
             => r \in archive /\ ~\E q \in stood : LineOf[q] = board[r].line
  <1>1. BoardInv => Safe
    <2> SUFFICES ASSUME BoardInv, NEW r \in Held
                 PROVE  /\ DropTwin /\ r = job["dedupe"].item.keep /\ job["dedupe"].item.twin.quote # Absent
                           => board[r].quote # Absent
                        /\ RetireRow /\ board'[r] = Absent
                           => r \in archive /\ ~\E q \in stood : LineOf[q] = board[r].line
      OBVIOUS
    <2>1. r \in Row /\ board[r] # Absent /\ DOMAIN board = Row
      BY DEF Held, BoardInv, BoardTyped
    <2>2. ASSUME DropTwin, r = job["dedupe"].item.keep, job["dedupe"].item.twin.quote # Absent
          PROVE  board[r].quote # Absent
      BY <2>1, <2>2 DEF BoardInv, DedupeInv, DropTwin, At, HasQuote
    <2>3. ASSUME RetireRow, board'[r] = Absent
          PROVE  r \in archive /\ ~\E q \in stood : LineOf[q] = board[r].line
      <3>1. PICK s \in job["retire"].todo : board' = [board EXCEPT ![s] = Absent]
        BY <2>3 DEF RetireRow, Delete
      <3>2. r = s
        BY <2>1, <2>3, <3>1
      <3>3. job["retire"].todo \subseteq archive /\ Closed(r)
        BY <2>3, <3>1, <3>2 DEF BoardInv, RetireInv, RetireRow, At
      <3> QED
        BY <2>1, <3>1, <3>2, <3>3 DEF Closed
    <2> QED
      BY <2>2, <2>3
  <1> QED
    BY <1>1, BoardInvariant, PTL DEF NothingLost

-----------------------------------------------------------------------------
(***************************************************************************)
(* Sums over a finite set, whichever way MapThenSumSet() takes its members *)
(* (one by one, as CHOOSE has it): they are what they should be, each a    *)
(* proof by a smallest set of which it is not true.                        *)
(***************************************************************************)
LEMMA LeastOf ==
    ASSUME NEW S \in SUBSET Nat, S # {}
    PROVE  \E m \in S : \A k \in S : m <= k
PROOF
<1>1. PICK T : T = {0..k : k \in S}
    OBVIOUS
<1>2. T \subseteq FiniteSubsetsOf(Nat) /\ T # {}
  <2>1. ASSUME NEW k \in S PROVE 0..k \in FiniteSubsetsOf(Nat)
    <3>1. 0..k \subseteq Nat /\ IsFiniteSet(0..k)
        BY FS_Interval
    <3>2. QED
        BY <3>1 DEF FiniteSubsetsOf
  <2>2. QED
      BY <1>1, <2>1
<1>3. IsWellFoundedOn(StrictSubsetOrdering(Nat), FiniteSubsetsOf(Nat))
    BY FS_StrictSubsetOrderingWellFounded
<1>4. PICK X \in T : \A Y \in T : ~ (<<Y, X>> \in StrictSubsetOrdering(Nat))
    BY <1>2, <1>3, WFMin
<1>5. PICK m \in S : X = 0..m
    BY <1>1
<1>6. ASSUME NEW k \in S, k < m PROVE FALSE
  <2>1. 0..k \in T /\ 0..k \subseteq 0..m /\ 0..k # 0..m
      BY <1>1, <1>6
  <2>2. <<0..k, X>> \in StrictSubsetOrdering(Nat)
      BY <1>5, <2>1 DEF StrictSubsetOrdering
  <2>3. QED
      BY <1>4, <2>1, <2>2
<1>7. QED
    BY <1>6

One(s) == CHOOSE x \in s : TRUE

IsSum(g, f, S) ==
    /\ g = [s \in SUBSET S |-> g[s]] /\ g[{}] = 0
    /\ \A s \in SUBSET S : s # {} => g[s] = f[One(s)] + g[s \ {One(s)}]

LEMMA SmallestSet ==
    ASSUME NEW S, IsFiniteSet(S), NEW T \in SUBSET SUBSET S, T # {}
    PROVE  \E X \in T : \A Y \in T : Y \subseteq X => Y = X
PROOF
<1>1. T \subseteq FiniteSubsetsOf(S)
    BY FS_Subset DEF FiniteSubsetsOf
<1>2. IsWellFoundedOn(StrictSubsetOrdering(S), FiniteSubsetsOf(S))
    BY FS_StrictSubsetOrderingWellFounded
<1>3. PICK X \in T : \A Y \in T : ~ (<<Y, X>> \in StrictSubsetOrdering(S))
    BY <1>1, <1>2, WFMin
<1>4. ASSUME NEW Y \in T, Y \subseteq X, Y # X PROVE FALSE
    BY <1>3, <1>4 DEF StrictSubsetOrdering
<1>5. QED
    BY <1>4

LEMMA OneIsIn ==
    ASSUME NEW s, s # {}
    PROVE  One(s) \in s /\ s \ {One(s)} \subseteq s /\ s \ {One(s)} # s
PROOF
<1>1. \E x : x \in s
    OBVIOUS
<1>2. One(s) \in s
    BY <1>1 DEF One
<1>3. QED
    BY <1>2

LEMMA SumOfPart ==
    ASSUME NEW S, NEW f, NEW g, IsSum(g, f, S), NEW T \in SUBSET S
    PROVE  IsSum([s \in SUBSET T |-> g[s]], f, T)
PROOF
<1>1. PICK h : h = [s \in SUBSET T |-> g[s]]
    OBVIOUS
<1>2. \A s \in SUBSET T : s # {} => s \ {One(s)} \in SUBSET T
    OBVIOUS
<1>3. h = [s \in SUBSET T |-> h[s]] /\ \A s \in SUBSET T : h[s] = g[s]
    BY <1>1
<1>4. h[{}] = 0 /\ \A s \in SUBSET T : s # {} => h[s] = f[One(s)] + h[s \ {One(s)}]
    BY <1>2, <1>3 DEF IsSum
<1>5. IsSum(h, f, T)
    BY <1>3, <1>4 DEF IsSum
<1>6. QED
    BY <1>1, <1>5

\* Two sums over one set are one, if they sum the same.
LEMMA SumsAgree ==
    ASSUME NEW S, IsFiniteSet(S), NEW f, NEW e, \A x \in S : f[x] = e[x],
           NEW g, IsSum(g, f, S), NEW h, IsSum(h, e, S), NEW s \in SUBSET S
    PROVE  g[s] = h[s]
PROOF
<1>0. /\ g[{}] = 0 /\ \A t \in SUBSET S : t # {} => g[t] = f[One(t)] + g[t \ {One(t)}]
      /\ h[{}] = 0 /\ \A t \in SUBSET S : t # {} => h[t] = e[One(t)] + h[t \ {One(t)}]
    BY DEF IsSum
<1>1. PICK T \in SUBSET SUBSET S : T = {t \in SUBSET S : g[t] # h[t]}
    OBVIOUS
<1>2. ASSUME T # {} PROVE FALSE
  <2>1. PICK X \in T : \A Y \in T : Y \subseteq X => Y = X
      BY <1>2, SmallestSet
  <2>2. X # {} /\ X \subseteq S
      BY <1>0, <1>1
  <2>3. PICK Y \in SUBSET S : Y = X \ {One(X)}
      BY <2>2
  <2>4. One(X) \in X /\ Y \subseteq X /\ Y # X
      BY <2>2, <2>3, OneIsIn
  <2>5. g[Y] = h[Y]
      BY <1>1, <2>1, <2>4
  <2>6. g[X] = f[One(X)] + g[Y] /\ h[X] = e[One(X)] + h[Y]
      BY <1>0, <2>2, <2>3
  <2>7. f[One(X)] = e[One(X)]
      BY <2>2, <2>4
  <2>8. g[X] = h[X]
      BY <2>5, <2>6, <2>7
  <2>9. QED
      BY <1>1, <2>8
<1>3. QED
    BY <1>1, <1>2

SumFor(f, S) == CHOOSE g : IsSum(g, f, S)

LEMMA SumExists ==
    ASSUME NEW S, IsFiniteSet(S), NEW f
    PROVE  IsSum(SumFor(f, S), f, S)
PROOF
<1>1. PICK T \in SUBSET SUBSET S : T = {t \in SUBSET S : ~\E g : IsSum(g, f, t)}
    OBVIOUS
<1>2. ASSUME T # {} PROVE FALSE
  <2>1. PICK X \in T : \A Y \in T : Y \subseteq X => Y = X
      BY <1>2, SmallestSet
  <2>2. IsFiniteSet(X) /\ X \subseteq S
      BY FS_Subset
  <2>3. \A Y \in SUBSET X : Y # X => IsSum(SumFor(f, Y), f, Y)
      BY <1>1, <2>1 DEF SumFor
  <2>4. PICK part : part = [Y \in SUBSET X |-> IF Y = X THEN 0 ELSE SumFor(f, Y)[Y]]
      OBVIOUS
  <2>5. ASSUME NEW Y \in SUBSET X, Y # X, Y # {} PROVE part[Y] = f[One(Y)] + part[Y \ {One(Y)}]
    <3>1. PICK g : g = SumFor(f, Y)
        OBVIOUS
    <3>2. PICK Z \in SUBSET Y : Z = Y \ {One(Y)}
        OBVIOUS
    <3>3. IsSum(g, f, Y) /\ One(Y) \in Y /\ Z # X /\ Z \in SUBSET X
        BY <2>3, <2>5, <3>1, <3>2, OneIsIn
    <3>4. PICK h : h = [s \in SUBSET Z |-> g[s]]
        OBVIOUS
    <3>5. IsSum(h, f, Z)
        BY <3>3, <3>4, SumOfPart
    <3>6. IsSum(SumFor(f, Z), f, Z) /\ IsFiniteSet(Z)
        BY <2>2, <2>3, <3>3, FS_Subset
    <3>7. SumFor(f, Z)[Z] = h[Z]
        BY <3>5, <3>6, SumsAgree
    <3>8. part[Z] = g[Z]
        BY <2>4, <3>3, <3>4, <3>7
    <3>9. g[Y] = f[One(Y)] + g[Z]
      <4>1. \A s \in SUBSET Y : s # {} => g[s] = f[One(s)] + g[s \ {One(s)}]
          BY <3>3 DEF IsSum
      <4>2. Y \in SUBSET Y
          OBVIOUS
      <4>3. QED
          BY <2>5, <3>2, <4>1, <4>2
    <3>10. part[Y] = g[Y]
        BY <2>4, <2>5, <3>1
    <3>11. QED
        BY <3>2, <3>8, <3>9, <3>10
  <2>6. CASE X = {}
    <3>1. IsSum([s \in {{}} |-> 0], f, {})
      <4>1. PICK g : g = [s \in {{}} |-> 0]
          OBVIOUS
      <4>2. SUBSET {} = {{}}
          OBVIOUS
      <4>3. g = [s \in SUBSET {} |-> g[s]] /\ g[{}] = 0 /\ \A s \in SUBSET {} : s = {}
          BY <4>1, <4>2
      <4>4. QED
          BY <4>1, <4>3 DEF IsSum
    <3>2. QED
        BY <1>1, <2>1, <2>6, <3>1
  <2>7. CASE X # {}
    <3>0. One(X) \in X
        BY <2>7, OneIsIn
    <3>1. PICK Z \in SUBSET X : Z = X \ {One(X)}
        OBVIOUS
    <3>2. PICK all : all = [s \in SUBSET X |-> IF s = X THEN f[One(X)] + part[Z] ELSE part[s]]
        OBVIOUS
    <3>3. part[{}] = 0
      <4>1. {} \in SUBSET X /\ {} # X /\ IsSum(SumFor(f, {}), f, {})
          BY <2>3, <2>7
      <4>2. SumFor(f, {})[{}] = 0
          BY <4>1 DEF IsSum
      <4>3. QED
          BY <2>4, <4>1, <4>2
    <3>4. \A s \in SUBSET X : s # {} => s \ {One(s)} \in SUBSET X /\ s \ {One(s)} # X
        BY OneIsIn
    <3>5. \A s \in SUBSET X : s # {} => all[s] = f[One(s)] + all[s \ {One(s)}]
      <4>1. SUFFICES ASSUME NEW s \in SUBSET X, s # {} PROVE all[s] = f[One(s)] + all[s \ {One(s)}]
          OBVIOUS
      <4>2. all[s \ {One(s)}] = part[s \ {One(s)}]
          BY <3>2, <3>4, <4>1
      <4>3. CASE s = X
          BY <3>0, <3>1, <3>2, <4>2, <4>3
      <4>4. CASE s # X
          BY <2>5, <3>2, <4>1, <4>2, <4>4
      <4>5. QED
          BY <4>3, <4>4
    <3>6. all[{}] = 0
        BY <2>7, <3>2, <3>3
    <3>7. all = [s \in SUBSET X |-> all[s]]
        BY <3>2
    <3>8. IsSum(all, f, X)
        BY <3>5, <3>6, <3>7 DEF IsSum
    <3>9. QED
        BY <1>1, <2>1, <3>8
  <2>8. QED
      BY <2>6, <2>7
<1>3. \E g : IsSum(g, f, S)
    BY <1>1, <1>2
<1>4. QED
    BY <1>3 DEF SumFor

LEMMA SumIsNat ==
    ASSUME NEW S, IsFiniteSet(S), NEW f, \A x \in S : f[x] \in Nat, NEW g, IsSum(g, f, S), NEW s \in SUBSET S
    PROVE  g[s] \in Nat
PROOF
<1>0. g[{}] = 0 /\ \A t \in SUBSET S : t # {} => g[t] = f[One(t)] + g[t \ {One(t)}]
    BY DEF IsSum
<1>1. PICK T \in SUBSET SUBSET S : T = {t \in SUBSET S : g[t] \notin Nat}
    OBVIOUS
<1>2. ASSUME T # {} PROVE FALSE
  <2>1. PICK X \in T : \A Y \in T : Y \subseteq X => Y = X
      BY <1>2, SmallestSet
  <2>2. X # {} /\ X \subseteq S
    <3>1. X \subseteq S /\ g[X] \notin Nat
        BY <1>1
    <3>2. g[{}] \in Nat
        BY <1>0
    <3>3. QED
        BY <3>1, <3>2
  <2>3. PICK Y \in SUBSET S : Y = X \ {One(X)}
      BY <2>2
  <2>4. One(X) \in X /\ Y \subseteq X /\ Y # X
      BY <2>2, <2>3, OneIsIn
  <2>5. g[Y] \in Nat /\ f[One(X)] \in Nat
      BY <1>1, <2>1, <2>2, <2>4
  <2>6. g[X] = f[One(X)] + g[Y]
      BY <1>0, <2>2, <2>3
  <2>7. QED
      BY <1>1, <2>1, <2>5, <2>6
<1>3. QED
    BY <1>1, <1>2

\* Whichever member is taken first.
LEMMA SumTakesAny ==
    ASSUME NEW S, IsFiniteSet(S), NEW f, \A x \in S : f[x] \in Nat, NEW g, IsSum(g, f, S)
    PROVE  \A s \in SUBSET S : \A x \in s : g[s] = f[x] + g[s \ {x}]
PROOF
<1>0. g[{}] = 0 /\ \A s \in SUBSET S : s # {} => g[s] = f[One(s)] + g[s \ {One(s)}]
    BY DEF IsSum
<1>1. PICK T \in SUBSET SUBSET S : T = {t \in SUBSET S : \E x \in t : g[t] # f[x] + g[t \ {x}]}
    OBVIOUS
<1>2. ASSUME T # {} PROVE FALSE
  <2>1. PICK X \in T : \A Y \in T : Y \subseteq X => Y = X
      BY <1>2, SmallestSet
  <2>2. PICK x \in X : g[X] # f[x] + g[X \ {x}]
      BY <1>1
  <2>3. PICK y : y = One(X)
      OBVIOUS
  <2>4. y \in X /\ g[X] = f[y] + g[X \ {y}] /\ X \subseteq S
      BY <1>0, <2>2, <2>3, OneIsIn
  <2>5. x # y
      BY <2>2, <2>4
  <2>6. PICK A \in SUBSET S : A = X \ {y}
      BY <2>4
  <2>7. PICK B \in SUBSET S : B = X \ {x}
      BY <2>4
  <2>8. PICK C \in SUBSET S : C = X \ {x, y}
      BY <2>4
  <2>9. A \subseteq X /\ A # X /\ B \subseteq X /\ B # X /\ x \in A /\ y \in B /\ A \ {x} = C /\ B \ {y} = C
      BY <2>2, <2>4, <2>5, <2>6, <2>7, <2>8
  <2>10. g[A] = f[x] + g[C]
      BY <1>1, <2>1, <2>9
  <2>11. g[B] = f[y] + g[C]
      BY <1>1, <2>1, <2>9
  <2>12. g[C] \in Nat /\ f[x] \in Nat /\ f[y] \in Nat
      BY <2>4, SumIsNat
  <2>13. g[X] = f[y] + g[A] /\ g[X] # f[x] + g[B]
      BY <2>2, <2>4, <2>6, <2>7
  <2>14. QED
      BY <2>10, <2>11, <2>12, <2>13
<1>3. QED
    BY <1>1, <1>2

\* What adds nothing may be left out.
LEMMA SumSkipsZeros ==
    ASSUME NEW S, IsFiniteSet(S), NEW f, \A x \in S : f[x] \in Nat, NEW g, IsSum(g, f, S),
           NEW Z \in SUBSET S, \A x \in S \ Z : f[x] = 0
    PROVE  g[S] = g[Z]
PROOF
<1>1. PICK T \in SUBSET SUBSET S : T = {t \in SUBSET S : Z \subseteq t /\ g[t] # g[Z]}
    OBVIOUS
<1>2. ASSUME T # {} PROVE FALSE
  <2>1. PICK X \in T : \A Y \in T : Y \subseteq X => Y = X
      BY <1>2, SmallestSet
  <2>2. X \subseteq S /\ Z \subseteq X /\ g[X] # g[Z]
      BY <1>1
  <2>3. PICK x \in X : x \notin Z
      BY <2>2
  <2>4. PICK Y \in SUBSET S : Y = X \ {x}
      BY <2>2
  <2>5. g[X] = f[x] + g[Y] /\ f[x] = 0 /\ g[Y] \in Nat
      BY <2>2, <2>3, <2>4, SumTakesAny, SumIsNat
  <2>6. g[Y] = g[Z]
      BY <1>1, <2>1, <2>2, <2>3, <2>4
  <2>7. QED
      BY <2>2, <2>5, <2>6
<1>3. QED
    BY <1>1, <1>2

-----------------------------------------------------------------------------
(* QuoteDesk, for any terms and any number of quotes, jobs, uploads and failed   *)
(* requests.  The terms of a quote never change, so that the job, the quote in   *)
(* NowCerts and the stamp speak of one premium whenever each of them is made.    *)

Listed(s) == \E S : s \in Seq(S)

QuoteRowsInv ==
    /\ Listed(quotes) /\ Listed(quoteJobs) /\ Listed(amsQuotes)
    /\ \A q \in DOMAIN quotes : DOMAIN quotes[q] = {"terms", "status", "number", "document", "upload"}
    /\ \A q \in DOMAIN quotes : quotes[q].terms \in QuoteTerms
    /\ \A j \in DOMAIN quoteJobs : DOMAIN quoteJobs[j] = {"object", "premium", "status"}
    /\ DOMAIN request = {"at", "quote", "upload", "name"} /\ DOMAIN executor = {"at", "job", "number"}

\* A job carries the terms of its quote.
JobsInv ==
    \A j \in DOMAIN quoteJobs :
        /\ quoteJobs[j].object \in DOMAIN quotes \cup {Unset}
        /\ quoteJobs[j].object # Unset => quoteJobs[j].premium = quotes[quoteJobs[j].object].terms.premium

\* Whoever works on a quote or a job works on one that is there, and a stamp is of a
\* quote in NowCerts that says what the job says.
WorkersInv ==
    /\ request.at \in {"file", "attach", "mark"} => request.quote \in DOMAIN quotes
    /\ executor.at # "idle" => executor.job \in DOMAIN quoteJobs
    /\ executor.at = "stamp" =>
          /\ executor.number \in DOMAIN amsQuotes
          /\ amsQuotes[executor.number] = [of |-> quoteJobs[executor.job].object,
                                           premium |-> quoteJobs[executor.job].premium]

Premiums(t) == [q \in DOMAIN t |-> t[q].terms.premium]

\* A proposal is of quotes that are there, and its stars and its total are still theirs.
ProposalInv ==
    /\ proposal.of \subseteq DOMAIN quotes /\ proposal.starred = Starred(proposal.of)
    /\ proposal.total = SumFor(Premiums(quotes), proposal.starred)[proposal.starred]

QuoteInv == QuoteRowsInv /\ JobsInv /\ WorkersInv /\ SentMeansQuoted /\ ProposalInv

LEMMA OneMoreListed ==
    ASSUME NEW s, Listed(s), NEW r
    PROVE  /\ Listed(Append(s, r)) /\ DOMAIN Append(s, r) = DOMAIN s \cup {Len(s) + 1}
           /\ Len(s) + 1 \notin DOMAIN s /\ DOMAIN s \subseteq Nat \ {0} /\ Len(s) + 1 \in Nat \ {0}
           /\ Len(Append(s, r)) = Len(s) + 1 /\ Append(s, r)[Len(s) + 1] = r /\ \A i \in DOMAIN s : Append(s, r)[i] = s[i]
PROOF
<1>1. PICK S : s \in Seq(S)
    BY DEF Listed
<1>2. PICK T : T = S \cup {r}
    OBVIOUS
<1>3. s \in Seq(T) /\ r \in T
    BY <1>1, <1>2
<1>4. PICK u : u = Append(s, r)
    OBVIOUS
<1>5. u \in Seq(T) /\ Len(u) = Len(s) + 1 /\ Len(s) \in Nat /\ DOMAIN s = 1..Len(s) /\ DOMAIN u = 1..(Len(s) + 1)
    BY <1>3, <1>4
<1>6. u[Len(s) + 1] = r /\ \A i \in DOMAIN s : u[i] = s[i]
    BY <1>3, <1>4, <1>5
<1>7. QED
    BY <1>4, <1>5, <1>6 DEF Listed

LEMMA StillListed ==
    ASSUME NEW s, Listed(s), NEW k \in DOMAIN s, NEW r
    PROVE  /\ Listed([s EXCEPT ![k] = r]) /\ DOMAIN [s EXCEPT ![k] = r] = DOMAIN s
           /\ [s EXCEPT ![k] = r][k] = r /\ \A i \in DOMAIN s : i # k => [s EXCEPT ![k] = r][i] = s[i]
PROOF
<1>1. PICK S : s \in Seq(S)
    BY DEF Listed
<1>2. PICK T : T = S \cup {r}
    OBVIOUS
<1>3. s \in Seq(T) /\ r \in T
    BY <1>1, <1>2
<1>4. [s EXCEPT ![k] = r] \in Seq(T)
    BY <1>3, ExceptSeq
<1>5. QED
    BY <1>4 DEF Listed

LEMMA QuoteIds ==
    ASSUME QuoteInv
    PROVE  DOMAIN quotes \subseteq Nat \ {0} /\ Unset \notin DOMAIN quotes
    BY OneMoreListed DEF QuoteInv, QuoteRowsInv, Unset

LEMMA QuotesAreFinite ==
    ASSUME QuoteInv, NEW qs \in SUBSET DOMAIN quotes
    PROVE  IsFiniteSet(qs)
PROOF
<1>1. PICK S : quotes \in Seq(S)
    BY DEF QuoteInv, QuoteRowsInv, Listed
<1>2. DOMAIN quotes = 1..Len(quotes) /\ Len(quotes) \in Nat
    BY <1>1
<1>3. IsFiniteSet(DOMAIN quotes)
    BY <1>2, FS_Interval
<1>4. QED
    BY <1>3, FS_Subset

\* MapThenSumSet() gives the sum.
LEMMA PremiumsSum ==
    ASSUME NEW t, NEW S, IsFiniteSet(S), NEW f, \A x \in S : f[x] = t[x].terms.premium
    PROVE  MapThenSumSet(LAMBDA x : t[x].terms.premium, S) = SumFor(f, S)[S]
PROOF
<1>1. PICK e : e = [x \in S |-> t[x].terms.premium]
    OBVIOUS
<1>2. PICK g : g = SumFor(e, S)
    OBVIOUS
<1>3. IsSum(g, e, S) /\ IsSum(SumFor(f, S), f, S)
    BY <1>2, SumExists
<1>4. g = [s \in SUBSET S |-> IF s = {} THEN 0 ELSE t[One(s)].terms.premium + g[s \ {One(s)}]]
  <2>1. \A s \in SUBSET S : s # {} => e[One(s)] = t[One(s)].terms.premium
      BY <1>1, OneIsIn
  <2>2. \A s \in SUBSET S : g[s] = IF s = {} THEN 0 ELSE t[One(s)].terms.premium + g[s \ {One(s)}]
      BY <1>3, <2>1 DEF IsSum
  <2>3. g = [s \in SUBSET S |-> g[s]]
      BY <1>3 DEF IsSum
  <2>4. QED
      BY <2>2, <2>3
<1>5. PICK h : h = CHOOSE i : i = [s \in SUBSET S |-> IF s = {} THEN 0 ELSE t[One(s)].terms.premium + i[s \ {One(s)}]]
    OBVIOUS
<1>6. h = [s \in SUBSET S |-> IF s = {} THEN 0 ELSE t[One(s)].terms.premium + h[s \ {One(s)}]]
    BY <1>4, <1>5
<1>7. IsSum(h, e, S)
  <2>1. \A s \in SUBSET S : s # {} => e[One(s)] = t[One(s)].terms.premium
      BY <1>1, OneIsIn
  <2>2. h = [s \in SUBSET S |-> h[s]] /\ h[{}] = 0
      BY <1>6
  <2>3. \A s \in SUBSET S : s # {} => h[s] = t[One(s)].terms.premium + h[s \ {One(s)}]
      BY <1>6
  <2>4. QED
      BY <2>1, <2>2, <2>3 DEF IsSum
<1>8. MapThenSumSet(LAMBDA x : t[x].terms.premium, S) = h[S]
    BY <1>5 DEF MapThenSumSet, MapThenFoldSet, One
<1>9. \A x \in S : f[x] = e[x]
    BY <1>1
<1>10. h[S] = SumFor(f, S)[S]
    BY <1>3, <1>7, <1>9, SumsAgree
<1>11. QED
    BY <1>8, <1>10

(***************************************************************************)
(* What depends on the terms of the quotes stays as they stay.             *)
(***************************************************************************)
TermsStay == DOMAIN quotes \subseteq DOMAIN quotes' /\ \A q \in DOMAIN quotes : quotes'[q].terms = quotes[q].terms

LEMMA TermsDecide ==
    ASSUME QuoteInv, TermsStay
    PROVE  /\ quoteJobs' = quoteJobs => JobsInv'
           /\ request' = request /\ executor' = executor /\ quoteJobs' = quoteJobs /\ amsQuotes' = amsQuotes => WorkersInv'
           /\ proposal' = proposal => ProposalInv'
PROOF
<1>1. quoteJobs' = quoteJobs => JobsInv'
    BY QuoteIds DEF TermsStay, QuoteInv, JobsInv
<1>2. request' = request /\ executor' = executor /\ quoteJobs' = quoteJobs /\ amsQuotes' = amsQuotes => WorkersInv'
    BY DEF TermsStay, QuoteInv, WorkersInv
<1>3. ASSUME proposal' = proposal PROVE ProposalInv'
  <2>1. PICK qs : qs = proposal.of
      OBVIOUS
  <2>2. qs \subseteq DOMAIN quotes /\ proposal.starred = Starred(qs)
      BY <2>1 DEF QuoteInv, ProposalInv
  <2>3. \A q \in qs : quotes'[q].terms = quotes[q].terms
      BY <2>2 DEF TermsStay
  <2>4. \A q \in qs : SameLine(qs, q)' = SameLine(qs, q)
      BY <2>3 DEF SameLine
  <2>5. \A q \in qs : SameLine(qs, q) \subseteq qs
      BY DEF SameLine
  <2>6. Starred(qs)' = Starred(qs)
      BY <2>3, <2>4, <2>5 DEF Starred
  <2>7. PICK stars \in SUBSET qs : stars = proposal.starred
      BY <2>2 DEF Starred
  <2>8. IsFiniteSet(stars)
      BY <2>2, <2>7, QuotesAreFinite
  <2>9. \A q \in stars : Premiums(quotes')[q] = Premiums(quotes)[q]
      BY <2>2, <2>3, <2>7 DEF TermsStay, Premiums
  <2>10. SumFor(Premiums(quotes'), stars)[stars] = SumFor(Premiums(quotes), stars)[stars]
      BY <2>8, <2>9, SumExists, SumsAgree
  <2>11. proposal.total = SumFor(Premiums(quotes), stars)[stars]
      BY <2>7 DEF QuoteInv, ProposalInv
  <2>12. proposal'.total = SumFor(Premiums(quotes'), proposal'.starred)[proposal'.starred]
      BY <1>3, <2>7, <2>10, <2>11
  <2>13. QED
      BY <1>3, <2>1, <2>2, <2>6, <2>12 DEF TermsStay, ProposalInv
<1>4. QED
    BY <1>1, <1>2, <1>3

\* The quotes stay as they are.
LEMMA QuotesStay ==
    ASSUME QuoteInv, quotes' = quotes
    PROVE  /\ TermsStay
           /\ amsQuotes' = amsQuotes => SentMeansQuoted'
PROOF
<1>1. amsQuotes' = amsQuotes => SentMeansQuoted'
    BY DEF QuoteInv, SentMeansQuoted
<1>2. QED
    BY <1>1 DEF TermsStay

\* One quote changes in everything but its terms.
LEMMA QuoteChanges ==
    ASSUME QuoteInv, NEW k \in DOMAIN quotes, NEW r, quotes' = [quotes EXCEPT ![k] = r],
           DOMAIN r = {"terms", "status", "number", "document", "upload"}, r.terms = quotes[k].terms,
           amsQuotes' = amsQuotes, quoteJobs' = quoteJobs, proposal' = proposal,
           DOMAIN request' = DOMAIN request, DOMAIN executor' = DOMAIN executor,
           r.status = "Sent" => /\ r.number \in DOMAIN amsQuotes
                                /\ amsQuotes[r.number] = [of |-> k, premium |-> r.terms.premium]
    PROVE  QuoteRowsInv' /\ JobsInv' /\ ProposalInv' /\ SentMeansQuoted' /\ TermsStay /\ DOMAIN quotes' = DOMAIN quotes
PROOF
<1>1. Listed(quotes') /\ DOMAIN quotes' = DOMAIN quotes /\ quotes'[k] = r /\ \A i \in DOMAIN quotes : i # k => quotes'[i] = quotes[i]
    BY StillListed DEF QuoteInv, QuoteRowsInv
<1>2. QuoteRowsInv'
    BY <1>1 DEF QuoteInv, QuoteRowsInv
<1>3. TermsStay
    BY <1>1 DEF TermsStay
<1>4. SentMeansQuoted'
  <2>1. SUFFICES ASSUME NEW q \in DOMAIN quotes, quotes'[q].status = "Sent"
                 PROVE  /\ quotes'[q].number \in DOMAIN amsQuotes
                        /\ amsQuotes[quotes'[q].number] = [of |-> q, premium |-> quotes'[q].terms.premium]
      BY <1>1 DEF SentMeansQuoted
  <2>2. CASE q = k
      BY <1>1, <2>1, <2>2
  <2>3. CASE q # k
      BY <1>1, <2>1, <2>3 DEF QuoteInv, SentMeansQuoted
  <2>4. QED
      BY <2>2, <2>3
<1>5. QED
    BY <1>1, <1>2, <1>3, <1>4, TermsDecide

(***************************************************************************)
(* The desk.                                                               *)
(***************************************************************************)
LEMMA NoRequestIsEmpty == DOMAIN NoRequest = {"at", "quote", "upload", "name"} /\ NoRequest.at = "none"
    BY DEF NoRequest

LEMMA CreateQuoteStep ==
    ASSUME QuoteInv, NEW t \in QuoteTerms, NEW file \in BOOLEAN, CreateQuote(t, file)
    PROVE  QuoteInv'
PROOF
<1>1. PICK r : r = [terms |-> t, status |-> "Draft", number |-> Unset, document |-> NoName, upload |-> Unset]
    OBVIOUS
<1>2. PICK n : n = Len(quotes) + 1
    OBVIOUS
<1>3. quotes' = Append(quotes, r)
    BY <1>1 DEF CreateQuote
<1>4. UNCHANGED <<cloud, quoteJobs, amsQuotes, pipeline, executor, proposal, quoteFaults>>
    BY DEF CreateQuote
<1>5. PICK uploads : uploads = Uploads + 1
    OBVIOUS
<1>6. PICK filed : filed = [NoRequest EXCEPT !.at = "file", !.quote = n, !.upload = uploads]
    OBVIOUS
<1>7. /\ Listed(quotes') /\ DOMAIN quotes' = DOMAIN quotes \cup {n} /\ n \notin DOMAIN quotes
      /\ quotes'[n] = r /\ \A q \in DOMAIN quotes : quotes'[q] = quotes[q]
    BY <1>2, <1>3, OneMoreListed DEF QuoteInv, QuoteRowsInv
<1>8. /\ DOMAIN r = {"terms", "status", "number", "document", "upload"} /\ r.status # "Sent" /\ r.terms = t
    BY <1>1
<1>9. /\ DOMAIN request' = {"at", "quote", "upload", "name"}
      /\ request'.at \in {"file", "attach", "mark"} => request'.quote = n
  <2>1. request' = filed \/ request' = NoRequest
      BY <1>2, <1>5, <1>6 DEF CreateQuote
  <2>2. DOMAIN filed = {"at", "quote", "upload", "name"} /\ filed.quote = n
      BY <1>6 DEF NoRequest
  <2>3. QED
      BY <2>1, <2>2, NoRequestIsEmpty
<1>10. QuoteRowsInv'
    BY <1>4, <1>7, <1>8, <1>9 DEF QuoteInv, QuoteRowsInv
<1>11. TermsStay
    BY <1>7 DEF TermsStay
<1>12. SentMeansQuoted'
    BY <1>4, <1>7, <1>8 DEF QuoteInv, SentMeansQuoted
<1>13. WorkersInv'
    BY <1>4, <1>7, <1>9 DEF QuoteInv, WorkersInv
<1>14. QED
    BY <1>4, <1>10, <1>11, <1>12, <1>13, TermsDecide DEF QuoteInv

\* A request goes on, and only the folder may change with it.
LEMMA RequestStep ==
    ASSUME QuoteInv, quotes' = quotes, quoteJobs' = quoteJobs, amsQuotes' = amsQuotes, executor' = executor, proposal' = proposal,
           DOMAIN request' = {"at", "quote", "upload", "name"},
           request'.at \in {"file", "attach", "mark"} => request'.quote \in DOMAIN quotes
    PROVE  QuoteInv'
PROOF
<1>1. QuoteRowsInv'
    BY DEF QuoteInv, QuoteRowsInv
<1>2. WorkersInv'
    BY DEF QuoteInv, WorkersInv
<1>3. QED
    BY <1>1, <1>2, QuotesStay, TermsDecide DEF QuoteInv

LEMMA AttachDocumentStep ==
    ASSUME QuoteInv, NEW q \in DOMAIN quotes, AttachDocument(q)
    PROVE  QuoteInv'
PROOF
<1>1. PICK uploads : uploads = Uploads + 1
    OBVIOUS
<1>2. PICK r : r = [NoRequest EXCEPT !.at = "file", !.quote = q, !.upload = uploads]
    OBVIOUS
<1>3. DOMAIN r = {"at", "quote", "upload", "name"} /\ r.quote = q
    BY <1>2 DEF NoRequest
<1>4. request' = r
    BY <1>1, <1>2 DEF AttachDocument
<1>5. QED
    BY <1>3, <1>4, RequestStep DEF AttachDocument

LEMMA FilePdfStep ==
    ASSUME QuoteInv, FilePdf
    PROVE  QuoteInv'
PROOF
<1>1. PICK name : name = FileName(request.quote)
    OBVIOUS
<1>2. request' = [request EXCEPT !.at = "attach", !.name = name] \/ request' = NoRequest
    BY <1>1 DEF FilePdf
<1>3. request.at = "file" /\ request.quote \in DOMAIN quotes
    BY DEF FilePdf, QuoteInv, WorkersInv
<1>4. DOMAIN request' = {"at", "quote", "upload", "name"} /\ (request'.at \in {"file", "attach", "mark"} => request'.quote \in DOMAIN quotes)
    BY <1>2, <1>3, NoRequestIsEmpty DEF QuoteInv, QuoteRowsInv
<1>5. QED
    BY <1>4, RequestStep DEF FilePdf

\* The request ends with a write to its quote.
LEMMA RequestEnds ==
    ASSUME QuoteInv, NEW k \in DOMAIN quotes, NEW r, quotes' = [quotes EXCEPT ![k] = r],
           DOMAIN r = {"terms", "status", "number", "document", "upload"}, r.terms = quotes[k].terms,
           r.status = "Sent" => quotes[k].status = "Sent" /\ r.number = quotes[k].number,
           UNCHANGED <<quoteJobs, amsQuotes, executor, proposal>>, request' = NoRequest
    PROVE  QuoteInv'
PROOF
<1>1. r.status = "Sent" => /\ r.number \in DOMAIN amsQuotes
                           /\ amsQuotes[r.number] = [of |-> k, premium |-> r.terms.premium]
    BY DEF QuoteInv, SentMeansQuoted
<1>2. DOMAIN request' = DOMAIN request /\ DOMAIN executor' = DOMAIN executor
    BY NoRequestIsEmpty DEF QuoteInv, QuoteRowsInv
<1>3. QuoteRowsInv' /\ JobsInv' /\ ProposalInv' /\ SentMeansQuoted'
    BY <1>1, <1>2, QuoteChanges
<1>4. WorkersInv'
    BY NoRequestIsEmpty DEF QuoteInv, WorkersInv
<1>5. QED
    BY <1>3, <1>4 DEF QuoteInv

LEMMA AttachPdfStep ==
    ASSUME QuoteInv, AttachPdf
    PROVE  QuoteInv'
PROOF
<1>1. request.quote \in DOMAIN quotes /\ request' = NoRequest /\ UNCHANGED <<quoteJobs, amsQuotes, executor, proposal>>
    BY DEF AttachPdf, QuoteInv, WorkersInv
<1>2. PICK k \in DOMAIN quotes : k = request.quote
    BY <1>1
<1>3. PICK old : old = quotes[k]
    OBVIOUS
<1>4. PICK r : r = [old EXCEPT !.document = request.name, !.upload = request.upload]
    OBVIOUS
<1>5. quotes' = [quotes EXCEPT ![k] = r] \/ quotes' = quotes
    BY <1>2, <1>3, <1>4 DEF AttachPdf
<1>6. DOMAIN old = {"terms", "status", "number", "document", "upload"}
    BY <1>3 DEF QuoteInv, QuoteRowsInv
<1>7. DOMAIN r = DOMAIN old /\ r.terms = old.terms /\ r.status = old.status /\ r.number = old.number
    BY <1>4, <1>6
<1>8. CASE quotes' = [quotes EXCEPT ![k] = r]
    BY <1>1, <1>3, <1>6, <1>7, <1>8, RequestEnds
<1>9. CASE quotes' = quotes
    BY <1>1, <1>9, RequestStep, NoRequestIsEmpty
<1>10. QED
    BY <1>5, <1>8, <1>9

LEMMA MarkQueuedStep ==
    ASSUME QuoteInv, MarkQueued
    PROVE  QuoteInv'
PROOF
<1>1. request.quote \in DOMAIN quotes /\ request' = NoRequest /\ UNCHANGED <<quoteJobs, amsQuotes, executor, proposal>>
    BY DEF MarkQueued, QuoteInv, WorkersInv
<1>2. PICK k \in DOMAIN quotes : k = request.quote
    BY <1>1
<1>3. PICK old : old = quotes[k]
    OBVIOUS
<1>4. PICK r : r = [old EXCEPT !.status = "Queued"]
    OBVIOUS
<1>5. quotes' = [quotes EXCEPT ![k] = r] \/ quotes' = quotes
    BY <1>2, <1>3, <1>4 DEF MarkQueued, AfterStaging
<1>6. DOMAIN old = {"terms", "status", "number", "document", "upload"}
    BY <1>3 DEF QuoteInv, QuoteRowsInv
<1>7. DOMAIN r = DOMAIN old /\ r.terms = old.terms /\ r.status = "Queued"
    BY <1>4, <1>6
<1>8. CASE quotes' = [quotes EXCEPT ![k] = r]
    BY <1>1, <1>3, <1>6, <1>7, <1>8, RequestEnds
<1>9. CASE quotes' = quotes
    BY <1>1, <1>9, RequestStep, NoRequestIsEmpty
<1>10. QED
    BY <1>5, <1>8, <1>9

(***************************************************************************)
(* The jobs.                                                               *)
(***************************************************************************)
\* A job is queued, of a quote or of the opportunity.
LEMMA JobIsQueued ==
    ASSUME QuoteInv, NEW object \in DOMAIN quotes \cup {Unset}, NEW premium,
           object # Unset => premium = quotes[object].terms.premium,
           quoteJobs' = Append(quoteJobs, [object |-> object, premium |-> premium, status |-> "queued"]),
           UNCHANGED <<quotes, amsQuotes, executor, proposal>>,
           DOMAIN request' = {"at", "quote", "upload", "name"},
           request'.at \in {"file", "attach", "mark"} => request'.quote \in DOMAIN quotes
    PROVE  QuoteInv'
PROOF
<1>1. PICK r : r = [object |-> object, premium |-> premium, status |-> "queued"]
    OBVIOUS
<1>2. PICK n : n = Len(quoteJobs) + 1
    OBVIOUS
<1>3. /\ Listed(quoteJobs') /\ DOMAIN quoteJobs' = DOMAIN quoteJobs \cup {n}
      /\ quoteJobs'[n] = r /\ \A j \in DOMAIN quoteJobs : quoteJobs'[j] = quoteJobs[j]
    BY <1>1, <1>2, OneMoreListed DEF QuoteInv, QuoteRowsInv
<1>4. DOMAIN r = {"object", "premium", "status"} /\ r.object = object /\ r.premium = premium
    BY <1>1
<1>5. QuoteRowsInv'
    BY <1>3, <1>4 DEF QuoteInv, QuoteRowsInv
<1>6. JobsInv'
  <2>1. SUFFICES ASSUME NEW j \in DOMAIN quoteJobs'
                 PROVE  /\ quoteJobs'[j].object \in DOMAIN quotes \cup {Unset}
                        /\ quoteJobs'[j].object # Unset => quoteJobs'[j].premium = quotes[quoteJobs'[j].object].terms.premium
      BY DEF JobsInv
  <2>2. CASE j = n
      BY <1>3, <1>4, <2>2
  <2>3. CASE j \in DOMAIN quoteJobs
      BY <1>3, <2>3 DEF QuoteInv, JobsInv
  <2>4. QED
      BY <1>3, <2>1, <2>2, <2>3
<1>7. WorkersInv'
    BY <1>3 DEF QuoteInv, WorkersInv
<1>8. QED
    BY <1>5, <1>6, <1>7, QuotesStay, TermsDecide DEF QuoteInv

LEMMA SendQuoteStep ==
    ASSUME QuoteInv, NEW q \in DOMAIN quotes, SendQuote(q)
    PROVE  QuoteInv'
PROOF
<1>1. PICK r : r = [NoRequest EXCEPT !.at = "mark", !.quote = q]
    OBVIOUS
<1>2. DOMAIN r = {"at", "quote", "upload", "name"} /\ r.quote = q
    BY <1>1 DEF NoRequest
<1>3. request' = r /\ UNCHANGED <<quotes, amsQuotes, executor, proposal>>
    BY <1>1 DEF SendQuote
<1>4. PICK premium : premium = Payload(q)
    OBVIOUS
<1>5. q # Unset => premium = quotes[q].terms.premium
    BY <1>4 DEF Payload
<1>6. quoteJobs' = Append(quoteJobs, [object |-> q, premium |-> premium, status |-> "queued"])
    BY <1>4 DEF SendQuote
<1>7. QED
    BY <1>2, <1>3, <1>5, <1>6, JobIsQueued

LEMMA SendOpportunityStep ==
    ASSUME QuoteInv, SendOpportunity
    PROVE  QuoteInv'
PROOF
<1>1. request' = request /\ UNCHANGED <<quotes, amsQuotes, executor, proposal>>
    BY DEF SendOpportunity
<1>2. PICK premium : premium = Payload(Unset)
    OBVIOUS
<1>3. PICK object \in DOMAIN quotes \cup {Unset} : object = Unset
    OBVIOUS
<1>4. quoteJobs' = Append(quoteJobs, [object |-> object, premium |-> premium, status |-> "queued"])
    BY <1>2, <1>3 DEF SendOpportunity
<1>5. /\ DOMAIN request' = {"at", "quote", "upload", "name"}
      /\ request'.at \in {"file", "attach", "mark"} => request'.quote \in DOMAIN quotes
    BY <1>1 DEF QuoteInv, QuoteRowsInv, WorkersInv
<1>6. QED
    BY <1>1, <1>3, <1>4, <1>5, JobIsQueued

\* A job changes its status.
LEMMA JobChanges ==
    ASSUME QuoteInv, NEW j \in DOMAIN quoteJobs, NEW status, quoteJobs' = [quoteJobs EXCEPT ![j].status = status],
           quotes' = quotes
    PROVE  /\ Listed(quoteJobs') /\ DOMAIN quoteJobs' = DOMAIN quoteJobs
           /\ \A i \in DOMAIN quoteJobs : /\ DOMAIN quoteJobs'[i] = DOMAIN quoteJobs[i]
                                          /\ quoteJobs'[i].object = quoteJobs[i].object
                                          /\ quoteJobs'[i].premium = quoteJobs[i].premium
           /\ JobsInv'
PROOF
<1>1. PICK r : r = [quoteJobs[j] EXCEPT !.status = status]
    OBVIOUS
<1>2. quoteJobs' = [quoteJobs EXCEPT ![j] = r]
    BY <1>1
<1>3. DOMAIN r = {"object", "premium", "status"} /\ r.object = quoteJobs[j].object /\ r.premium = quoteJobs[j].premium
    BY <1>1 DEF QuoteInv, QuoteRowsInv
<1>4. /\ Listed(quoteJobs') /\ DOMAIN quoteJobs' = DOMAIN quoteJobs /\ quoteJobs'[j] = r
      /\ \A i \in DOMAIN quoteJobs : i # j => quoteJobs'[i] = quoteJobs[i]
  <2>1. PICK before : before = quoteJobs
      OBVIOUS
  <2>2. Listed(before) /\ j \in DOMAIN before
      BY <2>1 DEF QuoteInv, QuoteRowsInv
  <2>3. PICK next : next = [before EXCEPT ![j] = r]
      OBVIOUS
  <2>4. Listed(next) /\ DOMAIN next = DOMAIN before /\ next[j] = r /\ \A i \in DOMAIN before : i # j => next[i] = before[i]
      BY <2>2, <2>3, StillListed
  <2>5. quoteJobs' = next
      BY <1>2, <2>1, <2>3
  <2>6. QED
      BY <2>1, <2>4, <2>5
<1>5. \A i \in DOMAIN quoteJobs : /\ DOMAIN quoteJobs'[i] = DOMAIN quoteJobs[i]
                                  /\ quoteJobs'[i].object = quoteJobs[i].object
                                  /\ quoteJobs'[i].premium = quoteJobs[i].premium
    BY <1>3, <1>4 DEF QuoteInv, QuoteRowsInv
<1>6. JobsInv'
    BY <1>4, <1>5 DEF QuoteInv, JobsInv
<1>7. QED
    BY <1>4, <1>5, <1>6

LEMMA NoWorkIsIdle == DOMAIN NoWork = {"at", "job", "number"} /\ NoWork.at = "idle"
    BY DEF NoWork

LEMMA ClaimQuoteStep ==
    ASSUME QuoteInv, NEW j \in DOMAIN quoteJobs, ClaimQuote(j)
    PROVE  QuoteInv'
PROOF
<1>1. PICK status : status = "processing"
    OBVIOUS
<1>2. quoteJobs' = [quoteJobs EXCEPT ![j].status = status] /\ UNCHANGED <<quotes, amsQuotes, request, proposal>>
    BY <1>1 DEF ClaimQuote
<1>3. PICK w : w = [NoWork EXCEPT !.at = "insert", !.job = j]
    OBVIOUS
<1>4. DOMAIN w = {"at", "job", "number"} /\ w.at = "insert" /\ w.job = j
    BY <1>3 DEF NoWork
<1>5. executor' = w
    BY <1>3 DEF ClaimQuote
<1>6. /\ Listed(quoteJobs') /\ DOMAIN quoteJobs' = DOMAIN quoteJobs
      /\ \A i \in DOMAIN quoteJobs : DOMAIN quoteJobs'[i] = DOMAIN quoteJobs[i]
      /\ JobsInv'
    BY <1>2, JobChanges
<1>7. QuoteRowsInv'
    BY <1>2, <1>4, <1>5, <1>6 DEF QuoteInv, QuoteRowsInv
<1>8. WorkersInv'
    BY <1>2, <1>4, <1>5, <1>6 DEF QuoteInv, WorkersInv
<1>9. QED
    BY <1>2, <1>6, <1>7, <1>8, QuotesStay, TermsDecide DEF QuoteInv

LEMMA RetryQuoteStep ==
    ASSUME QuoteInv, NEW j \in DOMAIN quoteJobs, RetryQuote(j)
    PROVE  QuoteInv'
PROOF
<1>1. PICK status : status = "queued"
    OBVIOUS
<1>2. quoteJobs' = [quoteJobs EXCEPT ![j].status = status] /\ UNCHANGED <<quotes, amsQuotes, request, executor, proposal>>
    BY <1>1 DEF RetryQuote
<1>3. /\ Listed(quoteJobs') /\ DOMAIN quoteJobs' = DOMAIN quoteJobs
      /\ \A i \in DOMAIN quoteJobs : /\ DOMAIN quoteJobs'[i] = DOMAIN quoteJobs[i]
                                     /\ quoteJobs'[i].object = quoteJobs[i].object
                                     /\ quoteJobs'[i].premium = quoteJobs[i].premium
      /\ JobsInv'
    BY <1>2, JobChanges
<1>4. QuoteRowsInv'
    BY <1>2, <1>3 DEF QuoteInv, QuoteRowsInv
<1>5. WorkersInv'
    BY <1>2, <1>3 DEF QuoteInv, WorkersInv
<1>6. QED
    BY <1>2, <1>3, <1>4, <1>5, QuotesStay, TermsDecide DEF QuoteInv

(***************************************************************************)
(* The executor.                                                           *)
(***************************************************************************)
LEMMA InsertQuoteStep ==
    ASSUME QuoteInv, InsertQuote
    PROVE  QuoteInv'
PROOF
<1>1. PICK j \in DOMAIN quoteJobs : j = executor.job
    BY DEF InsertQuote, QuoteInv, WorkersInv
<1>2. PICK r : r = [of |-> quoteJobs[j].object, premium |-> quoteJobs[j].premium]
    OBVIOUS
<1>3. PICK n : n = Len(amsQuotes) + 1
    OBVIOUS
<1>4. PICK made : made = Append(amsQuotes, r)
    OBVIOUS
<1>5. /\ Listed(made) /\ DOMAIN made = DOMAIN amsQuotes \cup {n} /\ made[n] = r /\ n \in Nat
      /\ \A i \in DOMAIN amsQuotes : made[i] = amsQuotes[i]
    BY <1>3, <1>4, OneMoreListed DEF QuoteInv, QuoteRowsInv
<1>6. Len(made) = n
    BY <1>3, <1>4, OneMoreListed DEF QuoteInv, QuoteRowsInv
<1>7. UNCHANGED <<quotes, request, proposal>>
    BY DEF InsertQuote
<1>8. ASSUME amsQuotes' \in {amsQuotes, made} PROVE Listed(amsQuotes') /\ SentMeansQuoted'
    BY <1>5, <1>7, <1>8 DEF QuoteInv, QuoteRowsInv, SentMeansQuoted
<1>9. CASE quoteJobs' = quoteJobs
  <2>1. PICK w : w = [executor EXCEPT !.at = "stamp", !.number = n]
      OBVIOUS
  <2>2. DOMAIN w = {"at", "job", "number"} /\ w.at = "stamp" /\ w.number = n /\ w.job = j
      BY <1>1, <2>1 DEF QuoteInv, QuoteRowsInv
  <2>3. CASE amsQuotes' = made /\ executor' = w
    <3>1. QuoteRowsInv'
        BY <1>7, <1>8, <1>9, <2>2, <2>3 DEF QuoteInv, QuoteRowsInv
    <3>2. WorkersInv'
        BY <1>2, <1>5, <1>7, <1>9, <2>2, <2>3 DEF QuoteInv, WorkersInv
    <3>3. QED
        BY <1>7, <1>8, <1>9, <2>3, <3>1, <3>2, QuotesStay, TermsDecide DEF QuoteInv
  <2>4. CASE amsQuotes' \in {amsQuotes, made} /\ executor' = NoWork
    <3>1. QuoteRowsInv'
        BY <1>7, <1>8, <1>9, <2>4, NoWorkIsIdle DEF QuoteInv, QuoteRowsInv
    <3>2. WorkersInv'
        BY <1>7, <2>4, NoWorkIsIdle DEF QuoteInv, WorkersInv
    <3>3. QED
        BY <1>7, <1>8, <1>9, <2>4, <3>1, <3>2, QuotesStay, TermsDecide DEF QuoteInv
  <2>5. QED
      BY <1>1, <1>2, <1>4, <1>6, <2>1, <2>3, <2>4 DEF InsertQuote
<1>10. CASE quoteJobs' # quoteJobs
  <2>1. PICK status : status = "failed"
      OBVIOUS
  <2>2. amsQuotes' \in {amsQuotes, made} /\ executor' = NoWork /\ quoteJobs' = [quoteJobs EXCEPT ![j].status = status]
      BY <1>1, <1>2, <1>4, <1>10, <2>1 DEF InsertQuote
  <2>3. /\ Listed(quoteJobs') /\ DOMAIN quoteJobs' = DOMAIN quoteJobs
        /\ \A i \in DOMAIN quoteJobs : DOMAIN quoteJobs'[i] = DOMAIN quoteJobs[i]
        /\ JobsInv'
      BY <1>7, <2>2, JobChanges
  <2>4. QuoteRowsInv'
      BY <1>7, <1>8, <2>2, <2>3, NoWorkIsIdle DEF QuoteInv, QuoteRowsInv
  <2>5. WorkersInv'
      BY <1>7, <2>2, NoWorkIsIdle DEF QuoteInv, WorkersInv
  <2>6. QED
      BY <1>7, <1>8, <2>2, <2>3, <2>4, <2>5, QuotesStay, TermsDecide DEF QuoteInv
<1>11. QED
    BY <1>9, <1>10

\* The number that the insert answered with goes onto the quote of the job, whose terms
\* are those of the job and so of the quote in NowCerts.
LEMMA StampQuoteStep ==
    ASSUME QuoteInv, StampQuote
    PROVE  QuoteInv'
PROOF
<1>1. PICK j \in DOMAIN quoteJobs : j = executor.job
    BY DEF StampQuote, QuoteInv, WorkersInv
<1>2. PICK q : q = quoteJobs[j].object
    OBVIOUS
<1>3. PICK w : w = [executor EXCEPT !.at = "close"]
    OBVIOUS
<1>4. DOMAIN w = {"at", "job", "number"} /\ w.at = "close" /\ w.job = j
    BY <1>1, <1>3 DEF QuoteInv, QuoteRowsInv
<1>5. executor' = w /\ UNCHANGED <<quoteJobs, amsQuotes, request, proposal>>
    BY <1>3 DEF StampQuote
<1>6. CASE quotes' = quotes
  <2>1. QuoteRowsInv'
      BY <1>4, <1>5, <1>6 DEF QuoteInv, QuoteRowsInv
  <2>2. WorkersInv'
      BY <1>4, <1>5, <1>6 DEF QuoteInv, WorkersInv
  <2>3. QED
      BY <1>5, <1>6, <2>1, <2>2, QuotesStay, TermsDecide DEF QuoteInv
<1>7. CASE quotes' # quotes
  <2>1. q # Unset /\ quotes' = [quotes EXCEPT ![q].number = executor.number, ![q].status = "Sent"]
      BY <1>1, <1>2, <1>7 DEF StampQuote
  <2>2. q \in DOMAIN quotes /\ quoteJobs[j].premium = quotes[q].terms.premium
      BY <1>2, <2>1 DEF QuoteInv, JobsInv
  <2>3. PICK old : old = quotes[q]
      OBVIOUS
  <2>4. PICK r : r = [old EXCEPT !.number = executor.number, !.status = "Sent"]
      OBVIOUS
  <2>5. quotes' = [quotes EXCEPT ![q] = r]
      BY <2>1, <2>2, <2>3, <2>4
  <2>6. DOMAIN old = {"terms", "status", "number", "document", "upload"}
      BY <2>2, <2>3 DEF QuoteInv, QuoteRowsInv
  <2>7. DOMAIN r = DOMAIN old /\ r.terms = old.terms /\ r.number = executor.number
      BY <2>4, <2>6
  <2>8. executor.number \in DOMAIN amsQuotes /\ amsQuotes[executor.number] = [of |-> q, premium |-> quoteJobs[j].premium]
      BY <1>1, <1>2 DEF StampQuote, QuoteInv, WorkersInv
  <2>9. r.number \in DOMAIN amsQuotes /\ amsQuotes[r.number] = [of |-> q, premium |-> r.terms.premium]
      BY <2>2, <2>3, <2>7, <2>8
  <2>10. DOMAIN request' = DOMAIN request /\ DOMAIN executor' = DOMAIN executor
      BY <1>4, <1>5 DEF QuoteInv, QuoteRowsInv
  <2>11. QuoteRowsInv' /\ JobsInv' /\ ProposalInv' /\ SentMeansQuoted' /\ DOMAIN quotes' = DOMAIN quotes
      BY <1>5, <2>2, <2>3, <2>5, <2>6, <2>7, <2>9, <2>10, QuoteChanges
  <2>12. WorkersInv'
      BY <1>4, <1>5, <2>11 DEF QuoteInv, WorkersInv
  <2>13. QED
      BY <2>11, <2>12 DEF QuoteInv
<1>8. QED
    BY <1>6, <1>7

LEMMA CloseQuoteJobStep ==
    ASSUME QuoteInv, CloseQuoteJob
    PROVE  QuoteInv'
PROOF
<1>1. PICK j \in DOMAIN quoteJobs : j = executor.job
    BY DEF CloseQuoteJob, QuoteInv, WorkersInv
<1>2. PICK status : quoteJobs' = [quoteJobs EXCEPT ![j].status = status]
    BY <1>1 DEF CloseQuoteJob
<1>3. executor' = NoWork /\ UNCHANGED <<quotes, amsQuotes, request, proposal>>
    BY DEF CloseQuoteJob
<1>4. /\ Listed(quoteJobs') /\ DOMAIN quoteJobs' = DOMAIN quoteJobs
      /\ \A i \in DOMAIN quoteJobs : DOMAIN quoteJobs'[i] = DOMAIN quoteJobs[i]
      /\ JobsInv'
    BY <1>2, <1>3, JobChanges
<1>5. QuoteRowsInv'
    BY <1>3, <1>4, NoWorkIsIdle DEF QuoteInv, QuoteRowsInv
<1>6. WorkersInv'
    BY <1>3, NoWorkIsIdle DEF QuoteInv, WorkersInv
<1>7. QED
    BY <1>3, <1>4, <1>5, <1>6, QuotesStay, TermsDecide DEF QuoteInv

(***************************************************************************)
(* The stars of a proposal: of the options of a line that have a premium,  *)
(* the first of the cheapest.                                              *)
(***************************************************************************)
PremiumCounted(qs, q) == IF q = Min(Cheapest(SameLine(qs, q)) \cup {Len(quotes) + 1}) THEN quotes[q].terms.premium ELSE 0

\* The star is on the option that the total counts.
LEMMA StarIsCounted ==
    ASSUME QuoteInv, NEW qs \in SUBSET DOMAIN quotes, NEW q \in qs
    PROVE  q \in Starred(qs) <=> q = Min(Cheapest(SameLine(qs, q)) \cup {Len(quotes) + 1})
PROOF
<1>1. PICK line : line = SameLine(qs, q)
    OBVIOUS
<1>2. PICK premium : premium = [r \in qs |-> quotes[r].terms.premium]
    OBVIOUS
<1>3. /\ \A r \in qs : r \in Nat /\ premium[r] \in Nat /\ premium[r] = quotes[r].terms.premium
      /\ line \subseteq qs /\ q \in line
    BY <1>1, <1>2, QuoteIds, QuoteAssumption DEF QuoteInv, QuoteRowsInv, SameLine
<1>4. PICK last \in Nat : last = Len(quotes) + 1 /\ \A r \in qs : r < last
  <2>1. PICK S : quotes \in Seq(S)
      BY DEF QuoteInv, QuoteRowsInv, Listed
  <2>2. Len(quotes) \in Nat /\ DOMAIN quotes = 1..Len(quotes)
      BY <2>1
  <2>3. QED
      BY <2>2
<1>5. PICK cheap \in SUBSET line : cheap = {r \in line : premium[r] # 0 /\ \A s \in line : premium[s] # 0 => premium[r] <= premium[s]}
    OBVIOUS
<1>6. Cheapest(line) = cheap
    BY <1>3, <1>5 DEF Cheapest, Priced
<1>7. PICK all \in SUBSET Nat : all = cheap \cup {last}
    BY <1>3, <1>4, <1>5
<1>8. PICK first \in all : \A r \in all : first <= r
  <2>1. all # {}
      BY <1>7
  <2>2. QED
      BY <2>1, LeastOf
<1>9. Min(all) = first
  <2>1. Min(all) \in all /\ \A r \in all : Min(all) <= r
      BY <1>8 DEF Min
  <2>2. Min(all) <= first /\ first <= Min(all) /\ Min(all) \in Nat /\ first \in Nat
      BY <1>7, <1>8, <2>1
  <2>3. QED
      BY <2>2
<1>10. q \in Starred(qs) <=> /\ premium[q] # 0
                             /\ \A r \in line \ {q} : premium[r] # 0 =>
                                    premium[q] < premium[r] \/ (premium[q] = premium[r] /\ q < r)
    BY <1>1, <1>3 DEF Starred
<1>11. ASSUME q \in Starred(qs) PROVE q = first
  <2>1. q \in cheap
      BY <1>3, <1>5, <1>10, <1>11
  <2>2. first \in cheap
      BY <1>3, <1>4, <1>7, <1>8, <2>1
  <2>3. premium[first] = premium[q] /\ first \in line /\ premium[first] # 0
      BY <1>3, <1>5, <2>1, <2>2
  <2>4. first <= q /\ first \in Nat /\ q \in Nat /\ premium[q] \in Nat
      BY <1>3, <1>7, <1>8, <2>1
  <2>5. QED
      BY <1>10, <1>11, <2>3, <2>4
<1>12. ASSUME q = first PROVE q \in Starred(qs)
  <2>1. q \in cheap
      BY <1>3, <1>4, <1>7, <1>12
  <2>2. ASSUME NEW r \in line \ {q}, premium[r] # 0
        PROVE  premium[q] < premium[r] \/ (premium[q] = premium[r] /\ q < r)
    <3>1. premium[q] <= premium[r] /\ premium[q] \in Nat /\ premium[r] \in Nat /\ q \in Nat /\ r \in Nat /\ q # r
        BY <1>3, <1>5, <2>1, <2>2
    <3>2. CASE premium[q] = premium[r]
      <4>1. r \in cheap
          BY <1>5, <2>1, <2>2, <3>2
      <4>2. q <= r
          BY <1>7, <1>8, <1>12, <4>1
      <4>3. QED
          BY <3>1, <3>2, <4>2
    <3>3. CASE premium[q] # premium[r]
        BY <3>1, <3>3
    <3>4. QED
        BY <3>2, <3>3
  <2>3. premium[q] # 0
      BY <1>5, <2>1
  <2>4. QED
      BY <1>10, <2>2, <2>3
<1>13. QED
    BY <1>1, <1>4, <1>6, <1>7, <1>9, <1>11, <1>12

LEMMA PackageSum ==
    ASSUME NEW qs, IsFiniteSet(qs), NEW f, \A q \in qs : f[q] = PremiumCounted(qs, q)
    PROVE  PackageTotal(qs) = SumFor(f, qs)[qs]
PROOF
<1>1. PICK e : e = [q \in qs |-> PremiumCounted(qs, q)]
    OBVIOUS
<1>2. PICK g : g = SumFor(e, qs)
    OBVIOUS
<1>3. IsSum(g, e, qs) /\ IsSum(SumFor(f, qs), f, qs)
    BY <1>2, SumExists
<1>4. g = [s \in SUBSET qs |-> IF s = {} THEN 0 ELSE PremiumCounted(qs, One(s)) + g[s \ {One(s)}]]
  <2>1. \A s \in SUBSET qs : s # {} => e[One(s)] = PremiumCounted(qs, One(s))
      BY <1>1, OneIsIn
  <2>2. \A s \in SUBSET qs : g[s] = IF s = {} THEN 0 ELSE PremiumCounted(qs, One(s)) + g[s \ {One(s)}]
      BY <1>3, <2>1 DEF IsSum
  <2>3. g = [s \in SUBSET qs |-> g[s]]
      BY <1>3 DEF IsSum
  <2>4. QED
      BY <2>2, <2>3
<1>5. PICK h : h = CHOOSE i : i = [s \in SUBSET qs |-> IF s = {} THEN 0 ELSE PremiumCounted(qs, One(s)) + i[s \ {One(s)}]]
    OBVIOUS
<1>6. h = [s \in SUBSET qs |-> IF s = {} THEN 0 ELSE PremiumCounted(qs, One(s)) + h[s \ {One(s)}]]
    BY <1>4, <1>5
<1>7. IsSum(h, e, qs)
  <2>1. \A s \in SUBSET qs : s # {} => e[One(s)] = PremiumCounted(qs, One(s))
      BY <1>1, OneIsIn
  <2>2. h = [s \in SUBSET qs |-> h[s]] /\ h[{}] = 0
      BY <1>6
  <2>3. \A s \in SUBSET qs : s # {} => h[s] = PremiumCounted(qs, One(s)) + h[s \ {One(s)}]
      BY <1>6
  <2>4. QED
      BY <2>1, <2>2, <2>3 DEF IsSum
<1>8. PackageTotal(qs) = h[qs]
    BY <1>5 DEF PackageTotal, PremiumCounted, MapThenSumSet, MapThenFoldSet, One
<1>9. \A q \in qs : f[q] = e[q]
    BY <1>1
<1>10. h[qs] = SumFor(f, qs)[qs]
    BY <1>3, <1>7, <1>9, SumsAgree
<1>11. QED
    BY <1>8, <1>10

\* The total that a proposal prints is the sum of the options with a star.
LEMMA TotalOfStars ==
    ASSUME QuoteInv, NEW qs \in SUBSET DOMAIN quotes
    PROVE  PackageTotal(qs) = SumFor(Premiums(quotes), Starred(qs))[Starred(qs)]
PROOF
<1>1. IsFiniteSet(qs)
    BY QuotesAreFinite
<1>2. PICK stars \in SUBSET qs : stars = Starred(qs)
    BY DEF Starred
<1>3. PICK f : f = [q \in qs |-> PremiumCounted(qs, q)]
    OBVIOUS
<1>4. PICK g : g = SumFor(f, qs)
    OBVIOUS
<1>5. IsSum(g, f, qs)
    BY <1>1, <1>4, SumExists
<1>6. PackageTotal(qs) = g[qs]
    BY <1>1, <1>3, <1>4, PackageSum
<1>7. \A q \in qs : quotes[q].terms.premium \in Nat
    BY QuoteAssumption DEF QuoteInv, QuoteRowsInv
<1>8. \A q \in qs : f[q] = IF q \in stars THEN quotes[q].terms.premium ELSE 0
    BY <1>2, <1>3, StarIsCounted DEF PremiumCounted
<1>9. (\A q \in qs : f[q] \in Nat) /\ \A q \in qs \ stars : f[q] = 0
    BY <1>7, <1>8
<1>10. g[qs] = g[stars]
    BY <1>1, <1>5, <1>9, SumSkipsZeros
<1>11. PICK part : part = [s \in SUBSET stars |-> g[s]]
    OBVIOUS
<1>12. IsSum(part, f, stars) /\ part[stars] = g[stars]
    BY <1>5, <1>11, SumOfPart
<1>13. IsFiniteSet(stars) /\ \A q \in stars : f[q] = Premiums(quotes)[q]
    BY <1>1, <1>8, FS_Subset DEF Premiums
<1>14. part[stars] = SumFor(Premiums(quotes), stars)[stars]
    BY <1>12, <1>13, SumExists, SumsAgree
<1>15. QED
    BY <1>2, <1>6, <1>10, <1>12, <1>14

LEMMA ProposeStep ==
    ASSUME QuoteInv, NEW qs \in SUBSET DOMAIN quotes, Propose(qs)
    PROVE  QuoteInv'
PROOF
<1>1. UNCHANGED <<quotes, quoteJobs, amsQuotes, request, executor>>
    BY DEF Propose
<1>2. QuoteRowsInv'
    BY <1>1 DEF QuoteInv, QuoteRowsInv
<1>3. Starred(qs)' = Starred(qs)
    BY <1>1 DEF Starred, SameLine
<1>4. proposal'.of = qs /\ proposal'.starred = Starred(qs) /\ proposal'.total = PackageTotal(qs)
    BY DEF Propose
<1>5. ProposalInv'
  <2>1. proposal'.total = SumFor(Premiums(quotes), proposal'.starred)[proposal'.starred]
      BY <1>4, TotalOfStars
  <2>2. QED
      BY <1>1, <1>3, <1>4, <2>1 DEF ProposalInv
<1>6. QED
    BY <1>1, <1>2, <1>5, QuotesStay, TermsDecide DEF QuoteInv

LEMMA QuoteStep == QuoteInv /\ [QuoteNext]_quoteVars => QuoteInv'
PROOF
<1>1. SUFFICES ASSUME QuoteInv, [QuoteNext]_quoteVars PROVE QuoteInv'
    OBVIOUS
<1>2. CASE EditOpportunity \/ UNCHANGED quoteVars
  <2>1. UNCHANGED <<quotes, quoteJobs, amsQuotes, request, executor, proposal>>
      BY <1>2 DEF EditOpportunity, quoteVars
  <2>2. /\ DOMAIN request' = {"at", "quote", "upload", "name"}
        /\ request'.at \in {"file", "attach", "mark"} => request'.quote \in DOMAIN quotes
      BY <1>1, <2>1 DEF QuoteInv, QuoteRowsInv, WorkersInv
  <2>3. QED
      BY <1>1, <2>1, <2>2, RequestStep
<1>3. QED
    BY <1>1, <1>2, CreateQuoteStep, AttachDocumentStep, FilePdfStep, AttachPdfStep, MarkQueuedStep, SendQuoteStep, SendOpportunityStep,
       ClaimQuoteStep, RetryQuoteStep, InsertQuoteStep, StampQuoteStep, CloseQuoteJobStep, ProposeStep DEF QuoteNext

LEMMA QuoteStart == QuoteInit => QuoteInv
PROOF
<1>1. SUFFICES ASSUME QuoteInit PROVE QuoteInv
    OBVIOUS
<1>2. Listed(<<>>) /\ DOMAIN <<>> = {}
    BY DEF Listed
<1>3. quotes = <<>> /\ quoteJobs = <<>> /\ amsQuotes = <<>> /\ request = NoRequest /\ executor = NoWork
      /\ proposal.of = {} /\ proposal.starred = {} /\ proposal.total = 0
    BY <1>1 DEF QuoteInit
<1>4. Starred({}) = {} /\ SumFor(Premiums(quotes), {})[{}] = 0
  <2>1. IsFiniteSet({})
      BY FS_EmptySet
  <2>2. QED
      BY <2>1, SumExists DEF Starred, IsSum
<1>5. QED
    BY <1>2, <1>3, <1>4, NoRequestIsEmpty, NoWorkIsIdle
       DEF QuoteInv, QuoteRowsInv, JobsInv, WorkersInv, SentMeansQuoted, ProposalInv

\* An option that is starred is the only one of its line.
LEMMA FirstOfTheCheapest ==
    ASSUME QuoteInv, NEW qs \in SUBSET DOMAIN quotes, NEW q \in qs,
           NEW p \in SameLine(qs, q), quotes[p].terms.premium # 0
    PROVE  Cardinality(Starred(qs) \cap SameLine(qs, q)) = 1
PROOF
<1>1. PICK line : line = SameLine(qs, q)
    OBVIOUS
<1>2. PICK premium : premium = [r \in qs |-> quotes[r].terms.premium]
    OBVIOUS
<1>3. /\ \A r \in qs : r \in Nat /\ premium[r] \in Nat /\ premium[r] = quotes[r].terms.premium
      /\ line \subseteq qs /\ p \in line /\ q \in line
    BY <1>1, <1>2, QuoteIds, QuoteAssumption DEF QuoteInv, QuoteRowsInv, SameLine
<1>4. PICK low \in {premium[r] : r \in {s \in line : premium[s] # 0}} :
          \A n \in {premium[r] : r \in {s \in line : premium[s] # 0}} : low <= n
  <2>1. PICK S \in SUBSET Nat : S = {premium[r] : r \in {s \in line : premium[s] # 0}}
      BY <1>3
  <2>2. premium[p] \in S
      BY <1>3, <2>1
  <2>3. QED
      BY <2>1, <2>2, LeastOf
<1>5. PICK first \in {r \in line : premium[r] = low} : \A r \in {s \in line : premium[s] = low} : first <= r
  <2>1. PICK S \in SUBSET Nat : S = {r \in line : premium[r] = low}
      BY <1>3
  <2>2. S # {}
      BY <1>4, <2>1
  <2>3. QED
      BY <2>1, <2>2, LeastOf
<1>6. low # 0 /\ low \in Nat /\ \A r \in line : premium[r] # 0 => low <= premium[r]
    BY <1>3, <1>4
<1>7. \A s \in line : SameLine(qs, s) = line
    BY <1>1 DEF SameLine
<1>8. \A s \in line : s \in Starred(qs) <=>
          /\ premium[s] # 0
          /\ \A r \in line \ {s} : premium[r] # 0 => premium[s] < premium[r] \/ (premium[s] = premium[r] /\ s < r)
    BY <1>3, <1>7 DEF Starred
<1>9. first \in Starred(qs)
  <2>1. ASSUME NEW r \in line \ {first}, premium[r] # 0
        PROVE  premium[first] < premium[r] \/ (premium[first] = premium[r] /\ first < r)
    <3>1. low <= premium[r] /\ premium[r] \in Nat /\ premium[first] = low /\ r \in Nat /\ first \in Nat
        BY <1>3, <1>5, <1>6, <2>1
    <3>2. CASE premium[r] = low
      <4>1. first <= r
          BY <1>5, <2>1, <3>2
      <4>2. QED
          BY <2>1, <3>1, <3>2, <4>1
    <3>3. CASE premium[r] # low
        BY <1>6, <3>1, <3>3
    <3>4. QED
        BY <3>2, <3>3
  <2>2. QED
      BY <1>5, <1>6, <1>8, <2>1
<1>10. ASSUME NEW s \in Starred(qs) \cap line, s # first PROVE FALSE
  <2>1. premium[s] # 0 /\ premium[first] # 0 /\ s \in line \ {first} /\ first \in line \ {s}
      BY <1>5, <1>6, <1>8, <1>10
  <2>2. premium[s] < premium[first] \/ (premium[s] = premium[first] /\ s < first)
      BY <1>8, <1>10, <2>1
  <2>3. premium[first] < premium[s] \/ (premium[first] = premium[s] /\ first < s)
      BY <1>8, <1>9, <2>1
  <2>4. s \in Nat /\ first \in Nat /\ premium[s] \in Nat /\ premium[first] \in Nat
      BY <1>3, <2>1
  <2>5. QED
      BY <2>2, <2>3, <2>4
<1>11. Starred(qs) \cap line = {first}
    BY <1>5, <1>9, <1>10
<1>12. QED
    BY <1>1, <1>11, FS_Singleton

LEMMA StarsAdd ==
    ASSUME QuoteInv
    PROVE  StarsAddUp
PROOF
<1>1. PICK qs \in SUBSET DOMAIN quotes : qs = proposal.of
    BY DEF QuoteInv, ProposalInv
<1>2. PICK stars \in SUBSET qs : stars = proposal.starred
    BY <1>1 DEF QuoteInv, ProposalInv, Starred
<1>3. IsFiniteSet(stars) /\ \A q \in stars : Premiums(quotes)[q] = quotes[q].terms.premium
    BY QuotesAreFinite DEF Premiums
<1>4. MapThenSumSet(LAMBDA q : quotes[q].terms.premium, stars) = SumFor(Premiums(quotes), stars)[stars]
    BY <1>3, PremiumsSum
<1>5. proposal.total = MapThenSumSet(LAMBDA q : quotes[q].terms.premium, proposal.starred)
    BY <1>2, <1>4 DEF QuoteInv, ProposalInv
<1>6. \A q \in qs : (\E r \in SameLine(qs, q) : quotes[r].terms.premium # 0) => Cardinality(Starred(qs) \cap SameLine(qs, q)) = 1
    BY FirstOfTheCheapest
<1>7. QED
    BY <1>1, <1>5, <1>6 DEF StarsAddUp, QuoteInv, ProposalInv

\* What the quote desk says of a quote is so: one that reads Sent is in NowCerts with its
\* own terms, and the options that a proposal marks, one for each line that has a premium,
\* add up to what it says they cost (package_total() and render_html()).
THEOREM QuotesAreSafe == QuoteSpec => []QuoteSafe
PROOF
<1>1. QuoteSpec => []QuoteInv
    BY QuoteStart, QuoteStep, PTL DEF QuoteSpec
<1>2. QuoteInv => QuoteSafe
    BY StarsAdd DEF QuoteInv, QuoteSafe
<1>3. QED
    BY <1>1, <1>2, PTL

=============================================================================
