---------------------- MODULE RenewalCorrections_proofs ----------------------
(***************************************************************************)
(* No correction is lost on the way to the next one, for every number of   *)
(* people at the desk and every bound.                                     *)
(*                                                                         *)
(* The unique index gives the table an order: an active row is the last of *)
(* its slot.  A person who finds, retires and inserts in separate requests *)
(* may meet a row of somebody else at the insert; that row is younger than *)
(* the one that was superseded, so the superseded row has a successor      *)
(* although this insert is refused.                                        *)
(*                                                                         *)
(* A removal and its undoing, which are several requests each, end with    *)
(* both halves done when one request is made after the other and nothing   *)
(* fails.                                                                  *)
(***************************************************************************)
EXTENDS RenewalCorrections, SequenceTheorems, TLAPS

\* What the rows and the requests of a slot may hold.
Fits == [slot \in Slot |->
    IF slot = "premium" THEN Value \cup {NoValue}
    ELSE IF slot = "event" THEN State ELSE {"true", NoValue}]

ActiveIsLast(t) ==
    \A i, j \in DOMAIN t : i < j /\ t[i].slot = t[j].slot => t[i].status # "active"

SupersededIsRetired(t) ==
    \A i \in DOMAIN t : t[i].reason = "superseded" => t[i].status = "retired"

RowsFit(t) ==
    \A i \in DOMAIN t : t[i].value \in Fits[t[i].slot] /\ t[i].original \in Fits[t[i].slot]

TableOK(t) ==
    /\ t \in Seq(OverrideRow(Slot, AnyValue)) /\ Len(t) <= MaxOverrides
    /\ RowsFit(t) /\ ActiveIsLast(t) /\ SupersededIsRetired(t)

Request == [at : Places, slot : Slot, value : AnyValue,
            original : AnyValue, id : 0..MaxOverrides, row : BOOLEAN]

\* A request carries what fits its slot, and an id that it found in its slot.
RequestOK(r, t) ==
    /\ r \in Request
    /\ r.at \in {"find", "retire", "insert", "through"} =>
          /\ r.value \in Fits[r.slot] /\ r.original \in Fits[r.slot]
          /\ NoValue \notin Submitted => r.value # NoValue
    /\ r.at = "through" => r.slot # "dismissed"
    /\ r.at = "undo" => r.slot = "premium" /\ r.original \in Fits["premium"]
    /\ r.at = "retire" => r.id \in DOMAIN t /\ t[r.id].slot = r.slot
    /\ r.at = "unexclude" => r.id \in DOMAIN t /\ t[r.id].slot = "event"
    /\ r.at = "putback" => r.original \in State

Requests(a, t) ==
    /\ a \in [Person -> Request]
    /\ \A p \in Person : RequestOK(a[p], t)

RefreshOK == refresh.at \in {"overlay", "upsert", "project"} => refresh.premium \in Value

RecordsOK ==
    /\ book \in [premium : Value, state : State]
    /\ event \in [premium : Value, state : State]
    /\ desk \in [exists : BOOLEAN, premium : Value \cup {NoValue}, worked : BOOLEAN]
    /\ refresh \in [at : {"rest", "overlay", "upsert", "project", "store", "protect", "prune"},
                    premium : Value \cup {NoValue}, state : State,
                    shown : BOOLEAN, protected : BOOLEAN]
    /\ moves \in 0..MaxMoves /\ patches \in 0..MaxPatches /\ faults \in 0..MaxFaults
    /\ RefreshOK

TypeInv == RecordsOK /\ TableOK(overrides) /\ Requests(asked, overrides)

\* No write moves a row to another slot or takes it away.
SameSlots(t, u) ==
    DOMAIN t \subseteq DOMAIN u /\ \A i \in DOMAIN t : u[i].slot = t[i].slot

-----------------------------------------------------------------------------
(* The operations of the table                                             *)

\* Types of rows, spelled out.
LEMMA Rows ==
    ASSUME NEW t, TableOK(t), NEW i \in DOMAIN t
    PROVE  /\ t[i] \in OverrideRow(Slot, AnyValue)
           /\ t[i].slot \in Slot /\ t[i].status \in Statuses /\ t[i].reason \in Reasons
           /\ t[i].original \in AnyValue /\ t[i].value \in AnyValue
           /\ i \in 1..MaxOverrides
<1>1. t \in Seq(OverrideRow(Slot, AnyValue)) /\ Len(t) <= MaxOverrides
  BY DEF TableOK
<1>2. DOMAIN t = 1..Len(t) /\ Len(t) \in Nat
  BY <1>1
<1>3. t[i] \in OverrideRow(Slot, AnyValue)
  BY <1>1, <1>2
<1> QED  BY <1>1, <1>2, <1>3, CorrectionsAssumption DEF OverrideRow

\* Retiring a row, whatever it is by then, changes its status and its reason.
LEMMA RetireKeeps ==
    ASSUME NEW t, TableOK(t), NEW i \in DOMAIN t, NEW reason \in {"superseded", "withdrawn"}
    PROVE  /\ TableOK(Retired(t, i, reason)) /\ SameSlots(t, Retired(t, i, reason))
           /\ DOMAIN Retired(t, i, reason) = DOMAIN t
           /\ \A j \in DOMAIN t : j # i => Retired(t, i, reason)[j] = t[j]
           /\ Retired(t, i, reason)[i].reason = reason
<1> DEFINE u == Retired(t, i, reason)
           S == OverrideRow(Slot, AnyValue)
<1>1. t \in Seq(S) /\ Len(t) <= MaxOverrides /\ DOMAIN t = 1..Len(t) /\ Len(t) \in Nat
  BY DEF TableOK
<1>2. /\ DOMAIN u = DOMAIN t
      /\ \A j \in DOMAIN t : j # i => u[j] = t[j]
      /\ u[i] = [t[i] EXCEPT !.status = "retired", !.reason = reason]
  BY DEF Retired
<1>3. t[i] \in S
  BY Rows
<1>4. /\ u[i] \in S /\ u[i].slot = t[i].slot /\ u[i].value = t[i].value
      /\ u[i].original = t[i].original /\ u[i].status = "retired" /\ u[i].reason = reason
  BY <1>2, <1>3 DEF OverrideRow, Statuses, Reasons
<1>5. u \in Seq(S) /\ Len(u) = Len(t)
  <2> DEFINE e == [t[i] EXCEPT !.status = "retired", !.reason = reason]
  <2>1. e \in S
    BY <1>2, <1>4
  <2>2. u = [t EXCEPT ![i] = e]
    BY DEF Retired
  <2> HIDE DEF e, u
  <2> QED  BY <1>1, <2>1, <2>2, ExceptSeq
<1>6. \A j \in DOMAIN t : u[j].slot = t[j].slot /\ u[j].value = t[j].value
                          /\ u[j].original = t[j].original
  BY <1>2, <1>4
<1>7. RowsFit(u)
  BY <1>2, <1>6 DEF TableOK, RowsFit
<1>8. ActiveIsLast(u)
  <2> SUFFICES ASSUME NEW j \in DOMAIN t, NEW k \in DOMAIN t, j < k, u[j].slot = u[k].slot
               PROVE  u[j].status # "active"
    BY <1>2 DEF ActiveIsLast
  <2>1. CASE j = i  BY <2>1, <1>4
  <2>2. CASE j # i
    <3>1. t[j].status # "active"
      BY <1>6 DEF TableOK, ActiveIsLast
    <3> QED  BY <2>2, <3>1, <1>2
  <2> QED  BY <2>1, <2>2
<1>9. SupersededIsRetired(u)
  BY <1>2, <1>4 DEF TableOK, SupersededIsRetired
<1> HIDE DEF u
<1>10. TableOK(u)
  BY <1>1, <1>5, <1>7, <1>8, <1>9 DEF TableOK
<1> QED  BY <1>2, <1>4, <1>6, <1>10 DEF SameSlots, u

\* The insert that the unique index lets through goes behind every row of its
\* slot, and no row of the slot is active but the new one.
LEMMA InsertKeeps ==
    ASSUME NEW t, TableOK(t), Len(t) < MaxOverrides, NEW slot \in Slot,
           NEW original \in Fits[slot], NEW value \in Fits[slot],
           original \in AnyValue, value \in AnyValue, Insertable(t, slot, value)
    PROVE  LET u == Inserted(t, slot, original, value)
           IN  TableOK(u) /\ SameSlots(t, u)
<1> DEFINE S == OverrideRow(Slot, AnyValue)
           r == [slot |-> slot, original |-> original, value |-> value,
                 status |-> "active", reason |-> "none"]
           u == Append(t, r)
           n == Len(t) + 1
<1>1. t \in Seq(S) /\ DOMAIN t = 1..Len(t) /\ Len(t) \in Nat /\ MaxOverrides \in Nat
  BY CorrectionsAssumption DEF TableOK
<1>2. r \in S
  BY DEF OverrideRow, Statuses, Reasons
<1> HIDE DEF r
<1>3. /\ u \in Seq(S) /\ Len(u) = n /\ DOMAIN u = 1..n
      /\ \A j \in DOMAIN t : u[j] = t[j]
      /\ u[n] = r
  BY <1>1, <1>2
<1>4. DOMAIN u = DOMAIN t \cup {n} /\ \A j \in DOMAIN t : j < n
  BY <1>1, <1>3
<1>5. r.slot = slot /\ r.original = original /\ r.value = value /\ r.status = "active" /\ r.reason = "none"
  BY DEF r
<1> HIDE DEF u
<1>6. RowsFit(u)
  BY <1>3, <1>4, <1>5 DEF TableOK, RowsFit
<1>7. ActiveIsLast(u)
  <2> SUFFICES ASSUME NEW j \in DOMAIN u, NEW k \in DOMAIN u, j < k, u[j].slot = u[k].slot
               PROVE  u[j].status # "active"
    BY DEF ActiveIsLast
  <2>1. j \in DOMAIN t /\ u[j] = t[j]
    BY <1>1, <1>3, <1>4
  <2>2. CASE k \in DOMAIN t
    BY <2>1, <2>2, <1>3 DEF TableOK, ActiveIsLast
  <2>3. CASE k = n
    BY <2>1, <2>3, <1>3, <1>5 DEF Insertable, Exists, ActiveRows
  <2> QED  BY <2>2, <2>3, <1>4
<1>8. SupersededIsRetired(u)
  BY <1>3, <1>4, <1>5 DEF TableOK, SupersededIsRetired
<1>9. TableOK(u)
  BY <1>1, <1>3, <1>6, <1>7, <1>8 DEF TableOK
<1>10. SameSlots(t, u)
  BY <1>3, <1>4 DEF SameSlots
<1>11. Inserted(t, slot, original, value) = u
  BY DEF Inserted, u, r
<1> QED  BY <1>9, <1>10, <1>11

\* The table after an insert: every row as it was, and one more.
LEMMA InsertShape ==
    ASSUME NEW t, TableOK(t), NEW slot \in Slot, NEW original \in AnyValue, NEW value \in AnyValue
    PROVE  LET u == Inserted(t, slot, original, value)
               n == Len(t) + 1
           IN  /\ SameSlots(t, u) /\ DOMAIN u = DOMAIN t \cup {n}
               /\ \A j \in DOMAIN t : u[j] = t[j] /\ j < n
               /\ u[n].slot = slot /\ u[n].reason = "none"
<1> DEFINE r == [slot |-> slot, original |-> original, value |-> value,
                 status |-> "active", reason |-> "none"]
           u == Append(t, r)
           n == Len(t) + 1
<1>1. t \in Seq(OverrideRow(Slot, AnyValue)) /\ DOMAIN t = 1..Len(t) /\ Len(t) \in Nat
  BY DEF TableOK
<1>2. r.slot = slot /\ r.reason = "none" /\ r \in OverrideRow(Slot, AnyValue)
  BY DEF OverrideRow, Statuses, Reasons
<1> HIDE DEF r
<1>3. DOMAIN u = 1..n /\ (\A j \in DOMAIN t : u[j] = t[j]) /\ u[n] = r
  BY <1>1, <1>2
<1> HIDE DEF u
<1>4. DOMAIN u = DOMAIN t \cup {n} /\ \A j \in DOMAIN t : j < n
  BY <1>1, <1>3
<1>5. SameSlots(t, u)
  BY <1>3, <1>4 DEF SameSlots
<1>6. Inserted(t, slot, original, value) = u
  BY DEF Inserted, u, r
<1> QED  BY <1>2, <1>3, <1>4, <1>5, <1>6

\* What resolve() returns: a value that fits the slot, or the source's.
LEMMA OverlayFits ==
    ASSUME NEW t, TableOK(t), NEW slot \in Slot, NEW source, source \in Fits[slot]
    PROVE  Overlay(t, slot, source) \in Fits[slot]
<1>1. CASE Exists(t, slot)
  <2> DEFINE i == CHOOSE i \in ActiveRows(t, slot) : TRUE
  <2>1. i \in ActiveRows(t, slot)
    BY <1>1 DEF Exists
  <2> HIDE DEF i
  <2>2. i \in DOMAIN t /\ t[i].slot = slot
    BY <2>1 DEF ActiveRows
  <2>3. t[i].value \in Fits[slot]
    BY <2>2 DEF TableOK, RowsFit
  <2> QED  BY <1>1, <2>3 DEF Overlay, i
<1>2. CASE ~Exists(t, slot)
  BY <1>2 DEF Overlay
<1> QED  BY <1>1, <1>2

LEMMA RequestKept ==
    ASSUME NEW t, NEW u, SameSlots(t, u), NEW r, RequestOK(r, t)
    PROVE  RequestOK(r, u)
BY DEF SameSlots, RequestOK

\* Whoever goes on with a request that is in order leaves all of them in order.
LEMMA AskKeeps ==
    ASSUME Requests(asked, overrides), SameSlots(overrides, overrides'),
           NEW p \in Person, NEW r, RequestOK(r, overrides'), Ask(p, r)
    PROVE  Requests(asked, overrides)'
<1>1. r \in Request  BY DEF RequestOK
<1>2. asked \in [Person -> Request]  BY DEF Requests
<1>3. asked' \in [Person -> Request] /\ asked'[p] = r
      /\ \A q \in Person : q # p => asked'[q] = asked[q]
  BY <1>1, <1>2 DEF Ask
<1>4. \A q \in Person : RequestOK(asked'[q], overrides')
  BY <1>3, RequestKept DEF Requests
<1> QED  BY <1>3, <1>4 DEF Requests

LEMMA RestingOK == \A t : RequestOK(Resting, t)
BY CorrectionsAssumption DEF RequestOK, Request, Resting, Begun, Places, Slot, AnyValue

LEMMA Unmoved == \A t : SameSlots(t, t)
BY DEF SameSlots

LEMMA FitsSlots ==
    /\ Fits["premium"] = Value \cup {NoValue} /\ Fits["event"] = State
    /\ Fits["dismissed"] = {"true", NoValue}
    /\ \A s \in Slot : Fits[s] \subseteq AnyValue
    /\ Slot = {"premium", "dismissed", "event"}
BY DEF Fits, Slot, AnyValue

-----------------------------------------------------------------------------
(* Every step keeps the types and the order of the table                   *)

LEMMA InitTyped == Init => TypeInv
<1> SUFFICES ASSUME Init PROVE TypeInv
  OBVIOUS
<1>1. PICK premium \in Value :
        /\ book = [premium |-> premium, state |-> "eligible"]
        /\ event = [premium |-> premium, state |-> "eligible"]
        /\ desk = [exists |-> TRUE, premium |-> premium, worked |-> FALSE]
  BY DEF Init
<1>2. RecordsOK
  BY <1>1, CorrectionsAssumption DEF Init, RecordsOK, RefreshOK, Asleep, State
<1>3. TableOK(overrides)
  <2>1. overrides = <<>> /\ DOMAIN overrides = {} /\ MaxOverrides \in Nat
    BY CorrectionsAssumption DEF Init
  <2>2. overrides \in Seq(OverrideRow(Slot, AnyValue)) /\ Len(overrides) = 0
    BY <2>1
  <2> QED  BY <2>1, <2>2 DEF TableOK, RowsFit, ActiveIsLast, SupersededIsRetired
<1>4. Requests(asked, overrides)
  <2>1. Resting \in Request
    BY RestingOK DEF RequestOK
  <2> QED  BY <2>1, RestingOK DEF Init, Requests
<1> QED  BY <1>2, <1>3, <1>4 DEF TypeInv

\* A person's own steps leave what they only read.
LEMMA FaultsTyped ==
    ASSUME RecordsOK, Fine \/ Fault
    PROVE  faults' \in 0..MaxFaults
BY CorrectionsAssumption DEF RecordsOK, Fine, Fault

\* Requests begin in order.
LEMMA BeginTyped ==
    ASSUME TypeInv, NEW p \in Person, Correct(p) \/ Dismiss(p)
    PROVE  TypeInv'
<1>1. Desk(p) /\ Fine /\ UNCHANGED <<book, event, desk, overrides, refresh, moves, patches>>
  BY DEF Correct, Dismiss, Desk, Same, Bounds
<1>2. RecordsOK' /\ TableOK(overrides)' /\ SameSlots(overrides, overrides')
  BY <1>1, Unmoved DEF TypeInv, RecordsOK, RefreshOK, Fine
<1>3. desk.premium \in Value \cup {NoValue}
  BY DEF TypeInv, RecordsOK
<1>4. Requests(asked, overrides)'
  <2>1. CASE Correct(p)
    <3>1. PICK value \in Submitted : Ask(p, Begun("find", "premium", value, desk.premium, TRUE))
      BY <2>1 DEF Correct, Begin
    <3>2. RequestOK(Begun("find", "premium", value, desk.premium, TRUE), overrides')
      BY <1>3, CorrectionsAssumption, FitsSlots DEF RequestOK, Request, Begun, Places, AnyValue
    <3> QED  BY <3>1, <3>2, <1>2, AskKeeps DEF TypeInv
  <2>2. CASE Dismiss(p)
    <3>1. RequestOK(Begun("find", "dismissed", "true", NoValue, TRUE), overrides')
      BY CorrectionsAssumption, FitsSlots DEF RequestOK, Request, Begun, Places, AnyValue
    <3> QED  BY <3>1, <2>2, <1>2, AskKeeps DEF TypeInv, Dismiss, Begin
  <2> QED  BY <2>1, <2>2
<1> QED  BY <1>2, <1>4 DEF TypeInv

\* A withdrawal changes the status of one row, whatever the row is by then.
LEMMA WithdrawTyped ==
    ASSUME TypeInv, NEW p \in Person, Withdraw(p)
    PROVE  TypeInv'
<1>1. RecordsOK'
  BY FaultsTyped DEF TypeInv, RecordsOK, RefreshOK, Withdraw, Same, Bounds
<1>2. PICK i \in DOMAIN overrides :
        /\ overrides[i].slot # "event"
        /\ \/ /\ overrides' = Retired(overrides, i, "withdrawn")
              /\ Ask(p, Begun(NextAfter(overrides[i].slot), overrides[i].slot,
                              NoValue, overrides[i].original, FALSE))
           \/ overrides' \in {overrides, Retired(overrides, i, "withdrawn")} /\ Done(p)
  BY DEF Withdraw, Begin
<1>3. TableOK(overrides)' /\ SameSlots(overrides, overrides')
  <2>1. TableOK(overrides)
    BY DEF TypeInv
  <2>2. /\ TableOK(Retired(overrides, i, "withdrawn"))
        /\ SameSlots(overrides, Retired(overrides, i, "withdrawn"))
    BY <2>1, RetireKeeps
  <2>3. overrides' \in {overrides, Retired(overrides, i, "withdrawn")}
    BY <1>2
  <2> QED  BY <2>1, <2>2, <2>3, Unmoved
<1>4. Requests(asked, overrides)'
  <2>1. CASE Done(p)
    BY <2>1, <1>3, AskKeeps, RestingOK DEF Done, TypeInv
  <2>2. CASE Ask(p, Begun(NextAfter(overrides[i].slot), overrides[i].slot,
                          NoValue, overrides[i].original, FALSE))
    <3> DEFINE r == Begun(NextAfter(overrides[i].slot), overrides[i].slot,
                          NoValue, overrides[i].original, FALSE)
    <3>1. overrides[i].slot \in {"premium", "dismissed"} /\ overrides[i].original \in AnyValue
      BY <1>2, Rows, FitsSlots DEF TypeInv
    <3>2. overrides[i].original \in Fits[overrides[i].slot]
      BY DEF TypeInv, TableOK, RowsFit
    <3>3. /\ r.at = NextAfter(r.slot) /\ r.slot = overrides[i].slot
          /\ r.original = overrides[i].original /\ r \in Request
      BY <3>1, CorrectionsAssumption, FitsSlots
      DEF Request, Begun, Places, AnyValue, NextAfter
    <3>4. RequestOK(r, overrides')
      BY <3>1, <3>2, <3>3, FitsSlots DEF RequestOK, NextAfter
    <3> QED  BY <2>2, <3>4, <1>3, AskKeeps DEF TypeInv
  <2> QED  BY <1>2, <2>1, <2>2
<1> QED  BY <1>1, <1>3, <1>4 DEF TypeInv

\* find, retire, insert.
LEMMA SetOverrideTyped ==
    ASSUME TypeInv, NEW p \in Person, Find(p) \/ Supersede(p) \/ Insert(p)
    PROVE  TypeInv'
<1> DEFINE r == asked[p]
<1>1. RecordsOK'
  BY FaultsTyped DEF TypeInv, RecordsOK, RefreshOK, Find, Supersede, Insert, Same, Bounds
<1>2. RequestOK(r, overrides) /\ r \in Request
  BY DEF TypeInv, Requests, RequestOK
<1>3. CASE Find(p)
  <2>1. overrides' = overrides /\ SameSlots(overrides, overrides') /\ r.at = "find"
    BY <1>3, Unmoved DEF Find
  <2>2. ASSUME Goto(p, "insert")  PROVE Requests(asked, overrides)'
    <3>1. RequestOK([r EXCEPT !.at = "insert"], overrides')
      BY <1>2, <2>1 DEF RequestOK, Request, Places
    <3> QED  BY <2>1, <2>2, <3>1, AskKeeps DEF Goto, TypeInv
  <2>3. ASSUME NEW i \in ActiveRows(overrides, r.slot),
               Ask(p, [r EXCEPT !.at = "retire", !.id = i])
        PROVE  Requests(asked, overrides)'
    <3>1. i \in DOMAIN overrides /\ overrides[i].slot = r.slot
      BY DEF ActiveRows
    <3>2. i \in 0..MaxOverrides
      BY <3>1, Rows, CorrectionsAssumption DEF TypeInv
    <3>3. RequestOK([r EXCEPT !.at = "retire", !.id = i], overrides')
      BY <1>2, <2>1, <3>1, <3>2 DEF RequestOK, Request, Places
    <3> QED  BY <2>1, <2>3, <3>3, AskKeeps DEF TypeInv
  <2>4. ASSUME Refused(p)  PROVE Requests(asked, overrides)'
    BY <2>1, <2>4, RestingOK, AskKeeps DEF Refused, Done, TypeInv
  <2> QED  BY <1>1, <1>3, <2>1, <2>2, <2>3, <2>4 DEF Find, TypeInv
<1>4. CASE Supersede(p)
  <2>1. r.at = "retire" /\ r.id \in DOMAIN overrides
    BY <1>2, <1>4 DEF Supersede, RequestOK
  <2>2. overrides' \in {overrides, Retired(overrides, r.id, "superseded")}
    BY <1>4 DEF Supersede
  <2>3. TableOK(overrides)' /\ SameSlots(overrides, overrides')
    BY <2>1, <2>2, RetireKeeps, Unmoved DEF TypeInv
  <2>4. RequestOK([r EXCEPT !.at = "insert"], overrides')
    BY <1>2, <2>1 DEF RequestOK, Request, Places
  <2>5. Goto(p, "insert") \/ Refused(p)
    BY <1>4 DEF Supersede
  <2>6. Requests(asked, overrides)'
    BY <2>3, <2>4, <2>5, RestingOK, AskKeeps DEF Goto, Refused, Done, TypeInv
  <2> QED  BY <1>1, <2>3, <2>6 DEF TypeInv
<1>5. CASE Insert(p)
  <2>1. r.at = "insert" /\ Len(overrides) < MaxOverrides
    BY <1>5 DEF Insert
  <2>2. /\ r.slot \in Slot /\ r.value \in Fits[r.slot] /\ r.original \in Fits[r.slot]
        /\ r.value \in AnyValue /\ r.original \in AnyValue
    BY <1>2, <2>1 DEF RequestOK, Request
  <2>3. \/ overrides' = overrides
        \/ /\ Insertable(overrides, r.slot, r.value)
           /\ overrides' = Inserted(overrides, r.slot, r.original, r.value)
    BY <1>5 DEF Insert
  <2>4. TableOK(overrides)' /\ SameSlots(overrides, overrides')
    <3>1. TableOK(overrides)
      BY DEF TypeInv
    <3>2. CASE overrides' = overrides
      BY <3>1, <3>2, Unmoved
    <3>3. CASE /\ Insertable(overrides, r.slot, r.value)
               /\ overrides' = Inserted(overrides, r.slot, r.original, r.value)
      <4> DEFINE u == Inserted(overrides, r.slot, r.original, r.value)
      <4>1. TableOK(u) /\ SameSlots(overrides, u)
        BY <2>1, <2>2, <3>1, <3>3, InsertKeeps
      <4> QED  BY <4>1, <3>3
    <3> QED  BY <2>3, <3>2, <3>3
  <2>5. RequestOK([r EXCEPT !.at = Inserting(r.slot)], overrides')
    BY <1>2, <2>1 DEF RequestOK, Request, Places, Inserting
  <2>6. Goto(p, Inserting(r.slot)) \/ Refused(p)
    BY <1>5 DEF Insert
  <2>7. Requests(asked, overrides)'
    BY <2>4, <2>5, <2>6, RestingOK, AskKeeps DEF Goto, Refused, Done, TypeInv
  <2> QED  BY <1>1, <2>4, <2>7 DEF TypeInv
<1> QED  BY <1>3, <1>4, <1>5

\* What follows the insert and the withdrawal.
LEMMA FollowTyped ==
    ASSUME TypeInv, NEW p \in Person,
           Events(p) \/ WriteThrough(p) \/ Undo(p) \/ Restore(p) \/ Unexclude(p) \/ PutBack(p)
    PROVE  TypeInv'
<1> DEFINE r == asked[p]
<1>1. RequestOK(r, overrides) /\ r \in Request /\ TableOK(overrides) /\ event.state \in State
  BY DEF TypeInv, Requests, RequestOK, RecordsOK
<1>2. /\ UNCHANGED <<book, refresh, moves, patches>> /\ faults' \in 0..MaxFaults /\ RefreshOK'
  BY FaultsTyped
  DEF TypeInv, RecordsOK, RefreshOK, Events, WriteThrough, Undo, Restore, Unexclude, PutBack, Same, Bounds
<1>3. ASSUME SameSlots(overrides, overrides'), Done(p)
      PROVE  Requests(asked, overrides)'
  BY <1>3, RestingOK, AskKeeps DEF Done, TypeInv
<1>4. CASE Events(p)
  <2>1. RequestOK(Begun("find", "event", "excluded", event.state, FALSE), overrides')
    BY <1>1, CorrectionsAssumption, FitsSlots DEF RequestOK, Request, Begun, Places, AnyValue, State
  <2>2. UNCHANGED <<event, desk, overrides>> /\ SameSlots(overrides, overrides')
    BY <1>4, Unmoved DEF Events
  <2>3. Done(p) \/ Ask(p, Begun("find", "event", "excluded", event.state, FALSE))
    BY <1>4 DEF Events
  <2>4. Requests(asked, overrides)'
    BY <1>3, <2>1, <2>2, <2>3, AskKeeps DEF TypeInv
  <2> QED  BY <1>2, <2>2, <2>4 DEF TypeInv, RecordsOK
<1>5. CASE WriteThrough(p)
  <2>1. r.at = "through" /\ overrides' = overrides /\ Done(p) /\ SameSlots(overrides, overrides')
    BY <1>5, Unmoved DEF WriteThrough
  <2>2. /\ r.slot = "event" => r.value \in State
        /\ r.slot # "event" => r.value \in Value \cup {NoValue}
    BY <1>1, <2>1, FitsSlots DEF RequestOK, Request
  <2>3. \/ UNCHANGED <<event, desk>>
        \/ r.slot = "event" /\ event' = [event EXCEPT !.state = r.value] /\ UNCHANGED desk
        \/ r.slot # "event" /\ desk' = [desk EXCEPT !.premium = r.value] /\ UNCHANGED event
    BY <1>5 DEF WriteThrough
  <2>4. /\ event' \in [premium : Value, state : State]
        /\ desk' \in [exists : BOOLEAN, premium : Value \cup {NoValue}, worked : BOOLEAN]
    BY <2>2, <2>3 DEF TypeInv, RecordsOK
  <2> QED  BY <1>1, <1>2, <1>3, <2>1, <2>4 DEF TypeInv, RecordsOK
<1>6. CASE Undo(p)
  <2>1. /\ r.at = "undo" /\ overrides' = overrides /\ Done(p) /\ event' = event
        /\ SameSlots(overrides, overrides')
    BY <1>6, Unmoved DEF Undo
  <2>2. r.original \in Value \cup {NoValue}
    BY <1>1, <2>1, FitsSlots DEF RequestOK
  <2>3. desk' \in [exists : BOOLEAN, premium : Value \cup {NoValue}, worked : BOOLEAN]
    BY <1>6, <2>2 DEF TypeInv, RecordsOK, Undo
  <2> QED  BY <1>1, <1>2, <1>3, <2>1, <2>3 DEF TypeInv, RecordsOK
<1>7. CASE Restore(p)
  <2>1. UNCHANGED <<event, desk, overrides>> /\ SameSlots(overrides, overrides') /\ r.at = "restore"
    BY <1>7, Unmoved DEF Restore
  <2>2. ASSUME NEW i \in ActiveRows(overrides, "event"),
               Ask(p, [r EXCEPT !.at = "unexclude", !.id = i])
        PROVE  Requests(asked, overrides)'
    <3>1. i \in DOMAIN overrides /\ overrides[i].slot = "event"
      BY DEF ActiveRows
    <3>2. i \in 0..MaxOverrides
      BY <1>1, <3>1, Rows, CorrectionsAssumption
    <3>3. RequestOK([r EXCEPT !.at = "unexclude", !.id = i], overrides')
      BY <1>1, <2>1, <3>1, <3>2 DEF RequestOK, Request, Places
    <3> QED  BY <2>1, <2>2, <3>3, AskKeeps DEF TypeInv
  <2>3. Requests(asked, overrides)'
    BY <1>3, <1>7, <2>1, <2>2 DEF Restore
  <2> QED  BY <1>1, <1>2, <2>1, <2>3 DEF TypeInv, RecordsOK
<1>8. CASE Unexclude(p)
  <2>1. r.at = "unexclude" /\ r.id \in DOMAIN overrides /\ overrides[r.id].slot = "event"
    BY <1>1, <1>8 DEF Unexclude, RequestOK
  <2>2. /\ overrides' \in {overrides, Retired(overrides, r.id, "withdrawn")}
        /\ UNCHANGED <<event, desk>>
    BY <1>8 DEF Unexclude
  <2>3. TableOK(overrides)' /\ SameSlots(overrides, overrides')
    <3>1. /\ TableOK(Retired(overrides, r.id, "withdrawn"))
          /\ SameSlots(overrides, Retired(overrides, r.id, "withdrawn"))
      BY <1>1, <2>1, RetireKeeps
    <3> QED  BY <1>1, <2>2, <3>1, Unmoved
  <2>4. overrides[r.id].original \in State
    BY <1>1, <2>1, FitsSlots DEF TableOK, RowsFit
  <2>5. RequestOK([r EXCEPT !.at = "putback", !.original = overrides[r.id].original], overrides')
    BY <1>1, <2>1, <2>4 DEF RequestOK, Request, Places, AnyValue
  <2>6. \/ Done(p)
        \/ Ask(p, [r EXCEPT !.at = "putback", !.original = overrides[r.id].original])
    BY <1>8 DEF Unexclude
  <2>7. Requests(asked, overrides)'
    BY <1>3, <2>3, <2>5, <2>6, AskKeeps DEF TypeInv
  <2> QED  BY <1>2, <2>2, <2>3, <2>7 DEF TypeInv, RecordsOK
<1>9. CASE PutBack(p)
  <2>1. /\ r.at = "putback" /\ overrides' = overrides /\ Done(p) /\ desk' = desk
        /\ SameSlots(overrides, overrides')
    BY <1>9, Unmoved DEF PutBack
  <2>2. event' \in [premium : Value, state : State]
    BY <1>1, <1>9, <2>1 DEF TypeInv, RecordsOK, PutBack, RequestOK
  <2> QED  BY <1>1, <1>2, <1>3, <2>1, <2>2 DEF TypeInv, RecordsOK
<1> QED  BY <1>4, <1>5, <1>6, <1>7, <1>8, <1>9

\* Edits of the row, work on it, moves of the book, and a request that dies.
LEMMA AroundTyped ==
    ASSUME TypeInv,
           Move \/ Work \/ (\E p \in Person : Patch(p) \/ Die(p))
    PROVE  TypeInv'
<1>1. overrides' = overrides /\ SameSlots(overrides, overrides') /\ TableOK(overrides)'
  BY Unmoved DEF Move, Work, Patch, Die, TypeInv
<1>2. RecordsOK'
  <2>1. CASE Move
    BY <2>1, CorrectionsAssumption DEF Move, TypeInv, RecordsOK, RefreshOK, Fine
  <2>2. CASE Work
    BY <2>2 DEF Work, TypeInv, RecordsOK, RefreshOK, Fine, Same, Bounds
  <2>3. ASSUME NEW p \in Person, Patch(p)  PROVE RecordsOK'
    BY <2>3, CorrectionsAssumption DEF Patch, TypeInv, RecordsOK, RefreshOK, Fine
  <2>4. ASSUME NEW p \in Person, Die(p)  PROVE RecordsOK'
    BY <2>4, FaultsTyped DEF Die, TypeInv, RecordsOK, RefreshOK, Same, Bounds
  <2> QED  BY <2>1, <2>2, <2>3, <2>4
<1>3. Requests(asked, overrides)'
  <2>1. CASE asked' = asked
    BY <1>1, <2>1 DEF TypeInv
  <2>2. ASSUME NEW p \in Person, Die(p)  PROVE Requests(asked, overrides)'
    BY <1>1, <2>2, RestingOK, AskKeeps DEF Die, Done, TypeInv
  <2> QED  BY <2>1, <2>2 DEF Move, Work, Patch
<1> QED  BY <1>1, <1>2, <1>3 DEF TypeInv

\* The rebuild carries premiums and states that fit, with or without overlay.
LEMMA RebuildTyped ==
    ASSUME TypeInv, Rebuild \/ Break
    PROVE  TypeInv'
<1>1. /\ TableOK(overrides) /\ UNCHANGED <<book, overrides, moves, patches>>
      /\ faults' \in 0..MaxFaults /\ SameSlots(overrides, overrides')
  BY FaultsTyped, Unmoved
  DEF TypeInv, Rebuild, Break, Build, OverlayEvents, UpsertEvent, Project, StoreRow, Protect,
      Prune, People, Same, Bounds, RecordsOK
<1>2. Asleep \in [at : {"rest", "overlay", "upsert", "project", "store", "protect", "prune"},
                   premium : Value \cup {NoValue}, state : State,
                   shown : BOOLEAN, protected : BOOLEAN] /\ Asleep.at = "rest"
  BY DEF Asleep, State
<1>3. RecordsOK' /\ Requests(asked, overrides)'
  <2>1. CASE Build
    BY <1>1, <1>2, <2>1 DEF Build, Refresh, People, TypeInv, RecordsOK, RefreshOK
  <2>2. CASE OverlayEvents
    <3>1. Overlay(overrides, "event", refresh.state) \in State
      <4>1. refresh.state \in Fits["event"]
        BY FitsSlots DEF TypeInv, RecordsOK
      <4> QED  BY <1>1, <4>1, OverlayFits, FitsSlots
    <3>2. /\ refresh.at = "overlay" /\ UNCHANGED <<event, desk, asked>>
          /\ \/ refresh' = [refresh EXCEPT !.at = "upsert",
                                           !.state = Overlay(overrides, "event", refresh.state)]
             \/ refresh' = [refresh EXCEPT !.at = "upsert"]
      BY <2>2 DEF OverlayEvents, Refresh, People
    <3> QED  BY <1>1, <3>1, <3>2 DEF TypeInv, RecordsOK, RefreshOK
  <2>3. CASE UpsertEvent
    BY <1>1, <2>3 DEF UpsertEvent, Refresh, People, TypeInv, RecordsOK, RefreshOK
  <2>4. CASE Project
    <3>1. PICK premium \in {Overlay(overrides, "premium", refresh.premium), refresh.premium},
               at \in {"store", "protect"}, shown \in BOOLEAN :
               refresh' = [refresh EXCEPT !.at = at, !.premium = premium, !.shown = shown]
      BY <2>4 DEF Project, Refresh
    <3>2. premium \in Value \cup {NoValue}
      <4>1. refresh.premium \in Fits["premium"]
        BY FitsSlots DEF TypeInv, RecordsOK
      <4> QED  BY <1>1, <3>1, <4>1, OverlayFits, FitsSlots
    <3>3. UNCHANGED <<event, desk, asked>>
      BY <2>4 DEF Project, People
    <3> QED  BY <1>1, <3>1, <3>2, <3>3 DEF TypeInv, RecordsOK, RefreshOK
  <2>5. CASE StoreRow
    BY <1>1, <2>5 DEF StoreRow, Refresh, People, TypeInv, RecordsOK, RefreshOK
  <2>6. CASE Protect
    BY <1>1, <1>2, <2>6 DEF Protect, Refresh, Sleep, People, TypeInv, RecordsOK, RefreshOK
  <2>7. CASE Prune
    <3>1. refresh' = Asleep /\ event' = event
      BY <2>7 DEF Prune, Sleep
    <3>2. desk' \in [exists : BOOLEAN, premium : Value \cup {NoValue}, worked : BOOLEAN]
      BY <2>7 DEF Prune, Gone, TypeInv, RecordsOK
    <3>3. CASE asked' = asked
      BY <1>1, <1>2, <3>1, <3>2, <3>3 DEF TypeInv, RecordsOK, RefreshOK
    <3>4. CASE asked' = [p \in Person |-> [asked[p] EXCEPT !.row = FALSE]]
      <4>1. \A p \in Person : RequestOK([asked[p] EXCEPT !.row = FALSE], overrides)
        BY DEF TypeInv, Requests, RequestOK, Request
      <4>2. Requests(asked, overrides)'
        BY <1>1, <3>4, <4>1 DEF Requests, RequestOK
      <4> QED  BY <1>1, <1>2, <3>1, <3>2, <4>2 DEF TypeInv, RecordsOK, RefreshOK
    <3> QED  BY <2>7, <3>3, <3>4 DEF Prune, Gone
  <2>8. CASE Break
    BY <1>1, <1>2, <2>8 DEF Break, Sleep, People, TypeInv, RecordsOK, RefreshOK
  <2> QED  BY <2>1, <2>2, <2>3, <2>4, <2>5, <2>6, <2>7, <2>8 DEF Rebuild
<1> QED  BY <1>1, <1>3 DEF TypeInv

LEMMA NextTyped == TypeInv /\ [Next]_vars => TypeInv'
<1> SUFFICES ASSUME TypeInv, [Next]_vars PROVE TypeInv'
  OBVIOUS
<1>1. ASSUME NEW p \in Person, Handle(p)  PROVE TypeInv'
  BY <1>1, SetOverrideTyped, FollowTyped DEF Handle
<1>2. CASE UNCHANGED vars
  BY <1>2 DEF vars, Same, Bounds, TypeInv, RecordsOK, RefreshOK
<1> QED  BY <1>1, <1>2, BeginTyped, WithdrawTyped, AroundTyped, RebuildTyped DEF Next

\* TypeInv says more than TypeOK: what a row and a request hold fits their slot.
LEMMA CrowdedTyped ==
    /\ Init => crowded \in BOOLEAN
    /\ crowded \in BOOLEAN /\ [Next]_vars => crowded' \in BOOLEAN
<1>1. Init => crowded \in BOOLEAN
  BY DEF Init
<1>2. ASSUME crowded \in BOOLEAN, [Next]_vars PROVE crowded' \in BOOLEAN
  <2>1. crowded' = crowded \/ crowded' \in BOOLEAN
    BY <1>2 DEF Next, Handle, Rebuild, Correct, Dismiss, Begin, Withdraw, Patch, Find, Supersede, Insert, Events,
       WriteThrough, Undo, Restore, Unexclude, PutBack, Die, Build, OverlayEvents, UpsertEvent, Project, StoreRow,
       Protect, Prune, Break, Move, Work, People, Same, vars
  <2> QED  BY <1>2, <2>1
<1> QED  BY <1>1, <1>2

LEMMA TypedIsTypeOK == TypeInv /\ crowded \in BOOLEAN => TypeOK
BY DEF TypeInv, RecordsOK, TableOK, Requests, Request, TypeOK

\* Type correctness: the book, the event, the row, the overrides, the requests
\* and the refresh keep their types, whoever works and whatever fails.
THEOREM CorrectionsTypeCorrect == Spec => []TypeOK
<1> DEFINE Typed == TypeInv /\ crowded \in BOOLEAN
<1>1. Init => Typed
  BY InitTyped, CrowdedTyped
<1>2. Typed /\ [Next]_vars => Typed'
  BY NextTyped, CrowdedTyped
<1>3. Typed => TypeOK
  BY TypedIsTypeOK
<1> QED  BY <1>1, <1>2, <1>3, PTL DEF Spec

-----------------------------------------------------------------------------
(* No correction is lost                                                   *)

\* What a step may do without touching the promise: change the status of a row
\* to anything but superseded, and leave whoever is about to insert alone.
LEMMA HarmlessStep ==
    ASSUME SupersededReplaced, faults' = 0 => faults = 0,
           SameSlots(overrides, overrides'), DOMAIN overrides' = DOMAIN overrides,
           faults' = 0 => \A p \in Person : asked[p].at = "insert" =>
               asked'[p].at = "insert" /\ asked'[p].slot = asked[p].slot,
           \A i \in DOMAIN overrides :
               overrides'[i].reason = "superseded" => overrides[i].reason = "superseded"
    PROVE  SupersededReplaced'
BY DEF SupersededReplaced, SameSlots

\* A failure ends the promise, and no step takes a failure back.
LEMMA Faultless ==
    ASSUME RecordsOK, Fine \/ Fault
    PROVE  /\ faults' = 0 => faults = 0
           /\ Fault => faults' # 0
BY CorrectionsAssumption DEF RecordsOK, Fine, Fault

LEMMA AskedElsewhere ==
    ASSUME Requests(asked, overrides), NEW p \in Person, NEW r, Ask(p, r)
    PROVE  asked'[p] = r /\ \A q \in Person : q # p => asked'[q] = asked[q]
BY DEF Requests, Ask

\* The row that a request retires is the one it found; the request goes on to
\* insert the next, or it failed.
LEMMA SupersedeReplaced ==
    ASSUME TypeInv, SupersededReplaced, NEW p \in Person, Supersede(p)
    PROVE  SupersededReplaced'
<1> DEFINE r == asked[p]
<1>1. Requests(asked, overrides) /\ TableOK(overrides) /\ RecordsOK
  BY DEF TypeInv
<1>2. r.at = "retire" /\ r.id \in DOMAIN overrides /\ overrides[r.id].slot = r.slot
  BY <1>1 DEF Supersede, Requests, RequestOK
<1>3. CASE faults' # 0
  BY <1>3 DEF SupersededReplaced
<1>4. CASE faults' = 0
  <2>1. Fine /\ overrides' = Retired(overrides, r.id, "superseded") /\ Goto(p, "insert")
    BY <1>1, <1>4, Faultless DEF Supersede
  <2>2. asked'[p] = [r EXCEPT !.at = "insert"] /\ \A q \in Person : q # p => asked'[q] = asked[q]
    BY <1>1, <2>1, AskedElsewhere DEF Goto
  <2>3. asked'[p].at = "insert" /\ asked'[p].slot = r.slot
    BY <1>1, <2>2 DEF Requests, Request
  <2>4. /\ SameSlots(overrides, overrides') /\ DOMAIN overrides' = DOMAIN overrides
        /\ \A j \in DOMAIN overrides : j # r.id => overrides'[j] = overrides[j]
    BY <1>1, <1>2, <2>1, RetireKeeps
  <2> SUFFICES ASSUME NoValue \notin Submitted, NEW i \in DOMAIN overrides,
                      overrides'[i].reason = "superseded"
               PROVE  \/ \E j \in DOMAIN overrides' : j > i /\ overrides'[j].slot = overrides'[i].slot
                      \/ \E q \in Person : asked'[q].at = "insert" /\ asked'[q].slot = overrides'[i].slot
    BY <2>4 DEF SupersededReplaced
  <2>5. CASE i = r.id
    BY <1>2, <2>3, <2>4, <2>5 DEF SameSlots
  <2>6. CASE i # r.id
    <3>1. \/ \E j \in DOMAIN overrides : j > i /\ overrides[j].slot = overrides[i].slot
          \/ \E q \in Person : asked[q].at = "insert" /\ asked[q].slot = overrides[i].slot
      BY <1>4, <2>1, <2>4, <2>6 DEF SupersededReplaced, Fine
    <3> QED  BY <1>2, <2>2, <2>4, <3>1 DEF SameSlots
  <2> QED  BY <2>5, <2>6
<1> QED  BY <1>3, <1>4

\* The insert gives the superseded rows of its slot a successor; when the unique
\* index refuses it, the row it met is active, hence the last of the slot and
\* younger than every row that was superseded.
LEMMA InsertReplaced ==
    ASSUME TypeInv, SupersededReplaced, NEW p \in Person, Insert(p)
    PROVE  SupersededReplaced'
<1> DEFINE r == asked[p]
           n == Len(overrides) + 1
<1>1. /\ Requests(asked, overrides) /\ TableOK(overrides) /\ RecordsOK
      /\ RequestOK(r, overrides) /\ r.at = "insert" /\ Len(overrides) < MaxOverrides
  BY DEF TypeInv, Requests, Insert
<1>2. CASE faults' # 0
  BY <1>2 DEF SupersededReplaced
<1>3. CASE faults' = 0
  <2>1. /\ faults = 0
        /\ \/ /\ Insertable(overrides, r.slot, r.value)
              /\ overrides' = Inserted(overrides, r.slot, r.original, r.value)
           \/ /\ ~Insertable(overrides, r.slot, r.value)
              /\ overrides' = overrides
    BY <1>1, <1>3, Faultless DEF Insert
  <2>2. \A q \in Person : q # p => asked'[q] = asked[q]
    BY <1>1, AskedElsewhere DEF Insert, Goto, Refused, Done
  <2> SUFFICES ASSUME NoValue \notin Submitted, NEW i \in DOMAIN overrides',
                      overrides'[i].reason = "superseded"
               PROVE  \/ \E j \in DOMAIN overrides' : j > i /\ overrides'[j].slot = overrides'[i].slot
                      \/ \E q \in Person : asked'[q].at = "insert" /\ asked'[q].slot = overrides'[i].slot
    BY DEF SupersededReplaced
  <2>3. CASE /\ Insertable(overrides, r.slot, r.value)
             /\ overrides' = Inserted(overrides, r.slot, r.original, r.value)
    <3>1. /\ r.slot \in Slot /\ r.value \in Fits[r.slot] /\ r.original \in Fits[r.slot]
          /\ r.value \in AnyValue /\ r.original \in AnyValue
      BY <1>1 DEF RequestOK, Request
    <3>2. /\ SameSlots(overrides, overrides') /\ DOMAIN overrides' = DOMAIN overrides \cup {n}
          /\ \A j \in DOMAIN overrides : overrides'[j] = overrides[j] /\ j < n
          /\ overrides'[n].slot = r.slot /\ overrides'[n].reason = "none"
      <4> DEFINE u == Inserted(overrides, r.slot, r.original, r.value)
      <4>1. /\ TableOK(overrides) /\ Len(overrides) < MaxOverrides
            /\ Insertable(overrides, r.slot, r.value)
        BY <1>1, <2>3
      <4>2. /\ SameSlots(overrides, u) /\ DOMAIN u = DOMAIN overrides \cup {n}
            /\ \A j \in DOMAIN overrides : u[j] = overrides[j] /\ j < n
            /\ u[n].slot = r.slot /\ u[n].reason = "none"
        <5>1. \A slot \in Slot, original, value \in AnyValue :
                LET v == Inserted(overrides, slot, original, value)
                IN  /\ SameSlots(overrides, v) /\ DOMAIN v = DOMAIN overrides \cup {n}
                    /\ \A j \in DOMAIN overrides : v[j] = overrides[j] /\ j < n
                    /\ v[n].slot = slot /\ v[n].reason = "none"
          BY <4>1, InsertShape
        <5> HIDE DEF n, r
        <5> QED  BY ONLY <3>1, <5>1
      <4> QED  BY <2>3, <4>2
    <3>3. i \in DOMAIN overrides /\ overrides'[i] = overrides[i] /\ n > i /\ i \in Nat /\ n \in Nat
      <4>1. i \in DOMAIN overrides /\ overrides'[i] = overrides[i] /\ i < n
        BY <3>2
      <4>2. DOMAIN overrides = 1..Len(overrides) /\ Len(overrides) \in Nat
        BY <1>1 DEF TableOK
      <4> QED  BY <4>1, <4>2
    <3>4. \/ \E j \in DOMAIN overrides : j > i /\ overrides[j].slot = overrides[i].slot
          \/ \E q \in Person : asked[q].at = "insert" /\ asked[q].slot = overrides[i].slot
      BY <2>1, <3>3 DEF SupersededReplaced
    <3>5. CASE \E j \in DOMAIN overrides : j > i /\ overrides[j].slot = overrides[i].slot
      BY <3>2, <3>3, <3>5
    <3>6. ASSUME NEW q \in Person, asked[q].at = "insert", asked[q].slot = overrides[i].slot
          PROVE  \/ \E j \in DOMAIN overrides' : j > i /\ overrides'[j].slot = overrides'[i].slot
                 \/ \E s \in Person : asked'[s].at = "insert" /\ asked'[s].slot = overrides'[i].slot
      <4>1. CASE q = p
        <5>1. n \in DOMAIN overrides' /\ n > i /\ overrides'[n].slot = overrides'[i].slot
          BY <3>2, <3>3, <3>6, <4>1
        <5> QED  BY <5>1
      <4>2. CASE q # p
        BY <2>2, <3>3, <3>6, <4>2
      <4> QED  BY <4>1, <4>2
    <3> QED  BY <3>4, <3>5, <3>6
  <2>4. CASE ~Insertable(overrides, r.slot, r.value) /\ overrides' = overrides
    <3>1. r.value # NoValue
      BY <1>1 DEF RequestOK
    <3>2. PICK k \in DOMAIN overrides : overrides[k].slot = r.slot /\ overrides[k].status = "active"
      BY <2>4, <3>1 DEF Insertable, Exists, ActiveRows
    <3>3. \/ \E j \in DOMAIN overrides : j > i /\ overrides[j].slot = overrides[i].slot
          \/ \E q \in Person : asked[q].at = "insert" /\ asked[q].slot = overrides[i].slot
      BY <2>1, <2>4 DEF SupersededReplaced
    <3>4. ASSUME NEW q \in Person, asked[q].at = "insert", asked[q].slot = overrides[i].slot, q = p
          PROVE  \E j \in DOMAIN overrides : j > i /\ overrides[j].slot = overrides[i].slot
      <4>1. overrides[i].status = "retired"
        BY <1>1, <2>4 DEF TableOK, SupersededIsRetired
      <4>2. k # i /\ ~(k < i)
        BY <1>1, <2>4, <3>2, <3>4, <4>1 DEF TableOK, ActiveIsLast
      <4>3. k \in Nat /\ i \in Nat
        BY <1>1, <2>4 DEF TableOK
      <4> QED  BY <3>2, <3>4, <4>2, <4>3
    <3> QED  BY <2>2, <2>4, <3>3, <3>4
  <2> QED  BY <2>1, <2>3, <2>4
<1> QED  BY <1>2, <1>3

\* Every other step is harmless.
LEMMA OtherReplaced ==
    ASSUME TypeInv, SupersededReplaced, [Next]_vars,
           ~\E p \in Person : Supersede(p) \/ Insert(p)
    PROVE  SupersededReplaced'
<1>1. Requests(asked, overrides) /\ TableOK(overrides) /\ RecordsOK
  BY DEF TypeInv
<1>2. ASSUME NEW p \in Person, asked[p].at # "insert", Fine \/ Fault,
             NEW r, Ask(p, r),
             \/ overrides' = overrides
             \/ \E i \in DOMAIN overrides : overrides' = Retired(overrides, i, "withdrawn")
      PROVE  SupersededReplaced'
  <2>1. /\ SameSlots(overrides, overrides') /\ DOMAIN overrides' = DOMAIN overrides
        /\ \A i \in DOMAIN overrides :
              overrides'[i].reason = "superseded" => overrides[i].reason = "superseded"
    <3>1. CASE overrides' = overrides
      BY <3>1, Unmoved
    <3>2. ASSUME NEW k \in DOMAIN overrides, overrides' = Retired(overrides, k, "withdrawn")
          PROVE  /\ SameSlots(overrides, overrides') /\ DOMAIN overrides' = DOMAIN overrides
                 /\ \A i \in DOMAIN overrides :
                       overrides'[i].reason = "superseded" => overrides[i].reason = "superseded"
      <4>1. /\ SameSlots(overrides, overrides') /\ DOMAIN overrides' = DOMAIN overrides
            /\ \A i \in DOMAIN overrides : i # k => overrides'[i] = overrides[i]
            /\ overrides'[k].reason = "withdrawn"
        BY <1>1, <3>2, RetireKeeps
      <4> QED  BY <4>1
    <3> QED  BY <1>2, <3>1, <3>2
  <2>2. \A q \in Person : asked[q].at = "insert" => asked'[q] = asked[q]
    BY <1>1, <1>2, AskedElsewhere
  <2>3. faults' = 0 => faults = 0
    BY <1>1, <1>2, Faultless
  <2> QED  BY <2>1, <2>2, <2>3, HarmlessStep
<1>3. ASSUME overrides' = overrides, Fine \/ Fault,
             \A p \in Person : asked'[p].at = asked[p].at /\ asked'[p].slot = asked[p].slot
      PROVE  SupersededReplaced'
  BY <1>1, <1>3, Unmoved, Faultless, HarmlessStep
<1>4. ASSUME NEW p \in Person,
             Correct(p) \/ Dismiss(p) \/ Find(p) \/ Events(p) \/ WriteThrough(p) \/ Undo(p)
                \/ Restore(p) \/ PutBack(p)
      PROVE  SupersededReplaced'
  <2>1. asked[p].at # "insert" /\ overrides' = overrides /\ (Fine \/ Fault) /\ \E r : Ask(p, r)
    BY <1>4 DEF Correct, Dismiss, Desk, Begin, Find, Events, WriteThrough, Undo, Restore, PutBack,
                Goto, Refused, Done
  <2> QED  BY <1>2, <2>1
<1>5. ASSUME NEW p \in Person, Withdraw(p)  PROVE SupersededReplaced'
  <2>1. asked[p].at # "insert" /\ (Fine \/ Fault) /\ \E r : Ask(p, r)
    BY <1>5 DEF Withdraw, Begin, Done
  <2>2. \/ overrides' = overrides
        \/ \E i \in DOMAIN overrides : overrides' = Retired(overrides, i, "withdrawn")
    BY <1>5 DEF Withdraw
  <2> QED  BY <1>2, <2>1, <2>2
<1>6. ASSUME NEW p \in Person, Unexclude(p)  PROVE SupersededReplaced'
  <2>1. asked[p].at = "unexclude" /\ (Fine \/ Fault) /\ \E r : Ask(p, r)
    BY <1>6 DEF Unexclude, Done
  <2>2. asked[p].id \in DOMAIN overrides
    BY <1>1, <2>1 DEF Requests, RequestOK
  <2>3. overrides' \in {overrides, Retired(overrides, asked[p].id, "withdrawn")}
    BY <1>6 DEF Unexclude
  <2> QED  BY <1>2, <2>1, <2>2, <2>3
<1>7. ASSUME NEW p \in Person, Die(p)  PROVE SupersededReplaced'
  BY <1>1, <1>7, Faultless DEF Die, SupersededReplaced
<1>8. ASSUME NEW p \in Person, Patch(p)  PROVE SupersededReplaced'
  BY <1>3, <1>8 DEF Patch
<1>9. CASE Prune
  <2>1. overrides' = overrides /\ (Fine \/ Fault)
    BY <1>9 DEF Prune
  <2>2. \/ asked' = asked
        \/ asked' = [p \in Person |-> [asked[p] EXCEPT !.row = FALSE]]
    BY <1>9 DEF Prune, Gone
  <2>3. \A p \in Person : asked'[p].at = asked[p].at /\ asked'[p].slot = asked[p].slot
    BY <1>1, <2>2 DEF Requests, Request
  <2> QED  BY <1>3, <2>1, <2>3
<1>10. CASE Build \/ OverlayEvents \/ UpsertEvent \/ Project \/ StoreRow \/ Protect \/ Break \/ Move \/ Work
  <2>1. overrides' = overrides /\ (Fine \/ Fault) /\ asked' = asked
    BY <1>10 DEF Build, OverlayEvents, UpsertEvent, Project, StoreRow, Protect, Break, Move, Work, People
  <2> QED  BY <1>3, <2>1
<1>11. CASE UNCHANGED vars
  BY <1>3, <1>11 DEF vars, Fine
<1> QED
  BY <1>4, <1>5, <1>6, <1>7, <1>8, <1>9, <1>10, <1>11 DEF Next, Handle, Rebuild

\* SupersededReplaced: without failures, and as long as nobody clears a field,
\* no correction is lost on the way to the next one - for any number of people
\* who correct, remove and undo at the same time.
THEOREM NoCorrectionLost == Spec => []SupersededReplaced
<1>1. Init => TypeInv /\ SupersededReplaced
  <2>1. Init => DOMAIN overrides = {}
    BY DEF Init
  <2> QED  BY <2>1, InitTyped DEF SupersededReplaced
<1>2. TypeInv /\ SupersededReplaced /\ [Next]_vars => (TypeInv /\ SupersededReplaced)'
  BY NextTyped, SupersedeReplaced, InsertReplaced, OtherReplaced
<1> QED  BY <1>1, <1>2, PTL DEF Spec
-----------------------------------------------------------------------------
(* An undone removal leaves nothing behind                                  *)

\* No event stays excluded without a removal that says so.
BehindRemoval(t) == Exists(t, "event") => Exists(t, "dismissed")

\* Where a person who works alone stands: the ids of the request are active, an
\* insert finds its slot free, an exclusion is only made under a removal, and only
\* between the two halves of a removal or of its undoing may an event be excluded
\* without one.
InOrder(r, t) ==
    /\ r.at = "retire" => r.id \in ActiveRows(t, r.slot)
    /\ r.at = "unexclude" => r.id \in ActiveRows(t, "event")
    /\ r.at = "insert" => ~Exists(t, r.slot)
    /\ r.at \in {"find", "retire", "insert"} /\ r.slot = "dismissed" => r.value = "true"
    /\ r.at \in {"find", "retire", "insert"} /\ r.slot = "event" => Exists(t, "dismissed")
    /\ r.at = "events" => Exists(t, "dismissed")
    /\ \/ r.at \in {"restore", "unexclude"}
       \/ r.at = "insert" /\ r.slot = "dismissed"
       \/ BehindRemoval(t)

Alone(p) == faults = 0 /\ ~crowded /\ \A q \in Person \ {p} : asked[q].at = "rest"

\* Until requests overlap, one at most is under way.
OneByOne == ~crowded => \A p, q \in Person : p = q \/ asked[p].at = "rest" \/ asked[q].at = "rest"

RestoreInv == OneByOne /\ \A p \in Person : Alone(p) => InOrder(asked[p], overrides)

\* Retiring a row says nothing of other slots; retiring the active row of a slot
\* leaves the slot free.
LEMMA RetireFrees ==
    ASSUME NEW t, TableOK(t), NEW i \in DOMAIN t, NEW reason \in {"superseded", "withdrawn"}
    PROVE  /\ \A s \in Slot : s # t[i].slot => (Exists(Retired(t, i, reason), s) <=> Exists(t, s))
           /\ t[i].status = "active" => ~Exists(Retired(t, i, reason), t[i].slot)
<1> DEFINE u == Retired(t, i, reason)
<1>1. /\ DOMAIN u = DOMAIN t /\ SameSlots(t, u)
      /\ \A j \in DOMAIN t : j # i => u[j] = t[j]
  BY RetireKeeps
<1>2. u[i].status = "retired"
  <2>1. t[i] \in OverrideRow(Slot, AnyValue)
    BY Rows
  <2> QED  BY <2>1 DEF Retired, OverrideRow
<1>3. \A j \in DOMAIN t : u[j].slot = t[j].slot
  BY <1>1 DEF SameSlots
<1> HIDE DEF u
<1>4. ASSUME NEW s \in Slot, s # t[i].slot PROVE ActiveRows(u, s) = ActiveRows(t, s)
  BY <1>1, <1>3, <1>4 DEF ActiveRows
<1>5. ASSUME t[i].status = "active" PROVE ActiveRows(u, t[i].slot) = {}
  <2> SUFFICES ASSUME NEW j \in DOMAIN u, u[j].slot = t[i].slot, u[j].status = "active" PROVE FALSE
    BY DEF ActiveRows
  <2>1. j # i /\ j \in DOMAIN t /\ t[j].status = "active" /\ t[j].slot = t[i].slot
    BY <1>1, <1>2
  <2>2. i \in Nat /\ j \in Nat
    BY <2>1, Rows
  <2>3. i < j \/ j < i
    BY <2>1, <2>2
  <2> QED  BY <1>5, <2>1, <2>3 DEF TableOK, ActiveIsLast
<1> QED  BY <1>4, <1>5 DEF Exists, u

\* An inserted row is active in its slot and in no other.
LEMMA InsertFills ==
    ASSUME NEW t, TableOK(t), NEW slot \in Slot, NEW original \in AnyValue, NEW value \in AnyValue
    PROVE  LET u == Inserted(t, slot, original, value)
           IN  Exists(u, slot) /\ \A s \in Slot : s # slot => (Exists(u, s) <=> Exists(t, s))
<1> DEFINE r == [slot |-> slot, original |-> original, value |-> value,
                 status |-> "active", reason |-> "none"]
           u == Append(t, r)
           n == Len(t) + 1
<1>1. t \in Seq(OverrideRow(Slot, AnyValue)) /\ DOMAIN t = 1..Len(t) /\ Len(t) \in Nat
  BY DEF TableOK
<1>2. r.slot = slot /\ r.status = "active" /\ r \in OverrideRow(Slot, AnyValue)
  BY DEF OverrideRow, Statuses, Reasons
<1> HIDE DEF r
<1>3. DOMAIN u = 1..n /\ (\A j \in DOMAIN t : u[j] = t[j]) /\ u[n] = r
  BY <1>1, <1>2
<1>4. DOMAIN u = DOMAIN t \cup {n} /\ n \notin DOMAIN t
  BY <1>1, <1>3
<1> HIDE DEF u, n
<1>5. n \in ActiveRows(u, slot)
  BY <1>2, <1>3, <1>4 DEF ActiveRows
<1>6. \A s \in Slot : s # slot => ActiveRows(u, s) = ActiveRows(t, s)
  BY <1>2, <1>3, <1>4 DEF ActiveRows
<1>7. Inserted(t, slot, original, value) = u
  BY DEF Inserted, u, r
<1> QED  BY <1>5, <1>6, <1>7 DEF Exists

\* The order of a request that touches no row.
LEMMA ReadsInOrder ==
    ASSUME TypeInv, NEW p \in Person, overrides' = overrides, NEW r, Ask(p, r), InOrder(r, overrides)
    PROVE  InOrder(asked[p], overrides)'
<1>1. asked'[p] = r
  BY AskedElsewhere DEF TypeInv
<1> QED  BY <1>1

LEMMA ReadersInOrder ==
    ASSUME TypeInv, NEW p \in Person, InOrder(asked[p], overrides), faults' = 0, faults = 0,
           \/ Correct(p) \/ Dismiss(p) \/ Find(p) \/ Events(p) \/ WriteThrough(p)
           \/ Undo(p) \/ Restore(p) \/ PutBack(p)
    PROVE  InOrder(asked[p], overrides)'
<1> DEFINE r == asked[p]
<1>1. Requests(asked, overrides) /\ RecordsOK /\ r \in Request /\ InOrder(r, overrides)
  BY DEF TypeInv, Requests
<1>2. ~Fault
  BY <1>1, Faultless
<1>3. r.at = "rest" => BehindRemoval(overrides)
  BY <1>1 DEF InOrder
<1>4. overrides' = overrides
  BY DEF Correct, Dismiss, Desk, Find, Events, WriteThrough, Undo, Restore, PutBack
<1>5. ASSUME BehindRemoval(overrides) PROVE InOrder(Resting, overrides)
  BY <1>5 DEF InOrder, Resting, Begun
<1>6. CASE Correct(p)
  <2>1. PICK value \in Submitted : Ask(p, Begun("find", "premium", value, desk.premium, TRUE))
    BY <1>6 DEF Correct, Begin
  <2>2. InOrder(Begun("find", "premium", value, desk.premium, TRUE), overrides)
    BY <1>3, <1>6 DEF Correct, Desk, InOrder, Begun
  <2> QED  BY <1>4, <2>1, <2>2, ReadsInOrder
<1>7. CASE Dismiss(p)
  <2>1. Ask(p, Begun("find", "dismissed", "true", NoValue, TRUE))
    BY <1>7 DEF Dismiss, Begin
  <2>2. InOrder(Begun("find", "dismissed", "true", NoValue, TRUE), overrides)
    BY <1>3, <1>7 DEF Dismiss, Desk, InOrder, Begun
  <2> QED  BY <1>4, <2>1, <2>2, ReadsInOrder
<1>8. CASE Find(p)
  <2>1. r.at = "find" /\ BehindRemoval(overrides)
    BY <1>1, <1>8 DEF Find, InOrder
  <2>2. CASE ~Exists(overrides, r.slot) /\ Goto(p, "insert")
    <3>1. PICK q : q = [r EXCEPT !.at = "insert"]
      OBVIOUS
    <3>2. q.at = "insert" /\ q.slot = r.slot /\ q.value = r.value
      BY <1>1, <3>1 DEF Request
    <3>3. InOrder(q, overrides)
      BY <1>1, <2>1, <2>2, <3>2 DEF InOrder
    <3> QED  BY <1>4, <2>2, <3>1, <3>3, ReadsInOrder DEF Goto
  <2>3. ASSUME NEW i \in ActiveRows(overrides, r.slot), Ask(p, [r EXCEPT !.at = "retire", !.id = i])
        PROVE  InOrder(asked[p], overrides)'
    <3>1. PICK q : q = [r EXCEPT !.at = "retire", !.id = i]
      OBVIOUS
    <3>2. q.at = "retire" /\ q.slot = r.slot /\ q.value = r.value /\ q.id = i
      BY <1>1, <3>1 DEF Request
    <3>3. InOrder(q, overrides)
      BY <1>1, <2>1, <2>3, <3>2 DEF InOrder
    <3> QED  BY <1>4, <2>3, <3>1, <3>3, ReadsInOrder
  <2> QED  BY <1>2, <1>8, <2>2, <2>3 DEF Find
<1>9. CASE Events(p)
  <2>1. BehindRemoval(overrides) /\ Exists(overrides, "dismissed")
    BY <1>1, <1>9 DEF Events, InOrder
  <2>2. Ask(p, Resting) \/ Ask(p, Begun("find", "event", "excluded", event.state, FALSE))
    BY <1>9 DEF Events, Done
  <2>3. InOrder(Begun("find", "event", "excluded", event.state, FALSE), overrides)
    BY <2>1 DEF InOrder, Begun
  <2> QED  BY <1>4, <1>5, <2>1, <2>2, <2>3, ReadsInOrder
<1>10. CASE WriteThrough(p) \/ Undo(p) \/ PutBack(p)
  <2>1. BehindRemoval(overrides) /\ Ask(p, Resting)
    BY <1>1, <1>10 DEF WriteThrough, Undo, PutBack, InOrder, Done
  <2> QED  BY <1>4, <1>5, <2>1, ReadsInOrder
<1>11. CASE Restore(p)
  <2>1. CASE ~Exists(overrides, "event") /\ Ask(p, Resting)
    BY <1>4, <1>5, <2>1, ReadsInOrder DEF BehindRemoval
  <2>2. ASSUME NEW i \in ActiveRows(overrides, "event"), Ask(p, [r EXCEPT !.at = "unexclude", !.id = i])
        PROVE  InOrder(asked[p], overrides)'
    <3>1. PICK q : q = [r EXCEPT !.at = "unexclude", !.id = i]
      OBVIOUS
    <3>2. q.at = "unexclude" /\ q.id = i
      BY <1>1, <3>1 DEF Request
    <3>3. InOrder(q, overrides)
      BY <2>2, <3>2 DEF InOrder
    <3> QED  BY <1>4, <2>2, <3>1, <3>3, ReadsInOrder
  <2> QED  BY <1>2, <1>11, <2>1, <2>2 DEF Restore, Done
<1> QED  BY <1>6, <1>7, <1>8, <1>9, <1>10, <1>11

LEMMA WithdrawInOrder ==
    ASSUME TypeInv, NEW p \in Person, InOrder(asked[p], overrides), faults' = 0, faults = 0, Withdraw(p)
    PROVE  InOrder(asked[p], overrides)'
<1>1. Requests(asked, overrides) /\ RecordsOK /\ TableOK(overrides) /\ InOrder(asked[p], overrides)
  BY DEF TypeInv
<1>2. ~Fault
  BY <1>1, Faultless
<1>3. BehindRemoval(overrides)
  BY <1>1 DEF InOrder, Withdraw
<1>4. PICK i \in DOMAIN overrides :
        /\ overrides[i].slot # "event" /\ overrides' = Retired(overrides, i, "withdrawn")
        /\ Ask(p, Begun(NextAfter(overrides[i].slot), overrides[i].slot, NoValue, overrides[i].original, FALSE))
  BY <1>2 DEF Withdraw, Begin
<1>5. PICK r : r = Begun(NextAfter(overrides[i].slot), overrides[i].slot, NoValue, overrides[i].original, FALSE)
  OBVIOUS
<1>6. r.at = IF overrides[i].slot = "dismissed" THEN "restore" ELSE "undo"
  BY <1>5 DEF Begun, NextAfter
<1>7. asked'[p] = r
  BY <1>1, <1>4, <1>5, AskedElsewhere
<1>8. overrides[i].slot \in Slot /\ "event" \in Slot /\ "dismissed" \in Slot
  BY <1>1, Rows DEF Slot
<1>9. \A s \in Slot : s # overrides[i].slot => (Exists(overrides', s) <=> Exists(overrides, s))
  BY <1>1, <1>4, RetireFrees
<1>10. InOrder(r, overrides')
  <2>1. CASE overrides[i].slot = "dismissed"
    BY <1>6, <2>1 DEF InOrder
  <2>2. CASE overrides[i].slot # "dismissed"
    <3>1. BehindRemoval(overrides')
      BY <1>3, <1>4, <1>8, <1>9, <2>2 DEF BehindRemoval
    <3> QED  BY <1>6, <2>2, <3>1 DEF InOrder
  <2> QED  BY <2>1, <2>2
<1> QED  BY <1>7, <1>10

LEMMA SupersedeInOrder ==
    ASSUME TypeInv, NEW p \in Person, InOrder(asked[p], overrides), faults' = 0, faults = 0, Supersede(p)
    PROVE  InOrder(asked[p], overrides)'
<1> DEFINE r == asked[p]
<1>1. Requests(asked, overrides) /\ RecordsOK /\ TableOK(overrides) /\ r \in Request /\ InOrder(r, overrides)
  BY DEF TypeInv, Requests
<1>2. ~Fault
  BY <1>1, Faultless
<1>3. /\ r.at = "retire" /\ r.id \in DOMAIN overrides /\ overrides[r.id].slot = r.slot /\ overrides[r.id].status = "active"
      /\ overrides' = Retired(overrides, r.id, "superseded") /\ Goto(p, "insert")
  BY <1>1, <1>2 DEF Supersede, InOrder, ActiveRows
<1>4. BehindRemoval(overrides)
  BY <1>1, <1>3 DEF InOrder
<1>5. PICK q : q = [r EXCEPT !.at = "insert"]
  OBVIOUS
<1>6. asked'[p] = q
  BY <1>1, <1>3, <1>5, AskedElsewhere DEF Goto
<1>7. q.at = "insert" /\ q.slot = r.slot /\ q.value = r.value /\ r.slot \in Slot
  BY <1>1, <1>5 DEF Request
<1>8. /\ ~Exists(overrides', r.slot)
      /\ \A s \in Slot : s # r.slot => (Exists(overrides', s) <=> Exists(overrides, s))
  BY <1>1, <1>3, RetireFrees
<1>9. Slot = {"premium", "dismissed", "event"}
  BY DEF Slot
<1>10. InOrder(q, overrides')
  <2>1. CASE r.slot = "dismissed"
    BY <1>1, <1>3, <1>7, <1>8, <2>1 DEF InOrder
  <2>2. CASE r.slot = "event"
    BY <1>1, <1>3, <1>7, <1>8, <1>9, <2>2 DEF InOrder, BehindRemoval
  <2>3. CASE r.slot = "premium"
    BY <1>4, <1>7, <1>8, <1>9, <2>3 DEF InOrder, BehindRemoval
  <2> QED  BY <1>7, <1>9, <2>1, <2>2, <2>3
<1> QED  BY <1>6, <1>10

LEMMA InsertInOrder ==
    ASSUME TypeInv, NEW p \in Person, InOrder(asked[p], overrides), faults' = 0, faults = 0, Insert(p)
    PROVE  InOrder(asked[p], overrides)'
<1> DEFINE r == asked[p]
<1>1. /\ Requests(asked, overrides) /\ RecordsOK /\ TableOK(overrides) /\ r \in Request
      /\ InOrder(r, overrides) /\ RequestOK(r, overrides)
  BY DEF TypeInv, Requests
<1>2. ~Fault
  BY <1>1, Faultless
<1>3. r.at = "insert" /\ ~Exists(overrides, r.slot) /\ r.slot \in Slot /\ r.value \in AnyValue /\ r.original \in AnyValue
  BY <1>1 DEF Insert, InOrder, Request
<1>4. CASE Insertable(overrides, r.slot, r.value)
  <2>1. overrides' = Inserted(overrides, r.slot, r.original, r.value) /\ Goto(p, Inserting(r.slot))
    BY <1>2, <1>4 DEF Insert
  <2>2. PICK q : q = [r EXCEPT !.at = Inserting(r.slot)]
    OBVIOUS
  <2>3. asked'[p] = q
    BY <1>1, <2>1, <2>2, AskedElsewhere DEF Goto
  <2>4. q.at = IF r.slot = "dismissed" THEN "events" ELSE "through"
    BY <1>1, <2>2 DEF Request, Inserting
  <2>5. Exists(overrides', r.slot) /\ \A s \in Slot : s # r.slot => (Exists(overrides', s) <=> Exists(overrides, s))
    <3> DEFINE t == overrides
    <3>1. \A slot \in Slot, original, value \in AnyValue :
            LET u == Inserted(t, slot, original, value)
            IN  Exists(u, slot) /\ \A s \in Slot : s # slot => (Exists(u, s) <=> Exists(t, s))
      BY <1>1, InsertFills
    <3> HIDE DEF r
    <3> QED  BY <1>3, <2>1, <3>1
  <2>6. Slot = {"premium", "dismissed", "event"}
    BY DEF Slot
  <2>7. BehindRemoval(overrides') /\ (r.slot = "dismissed" => Exists(overrides', "dismissed"))
    <3>1. CASE r.slot = "dismissed"
      BY <2>5, <3>1 DEF BehindRemoval
    <3>2. CASE r.slot = "event"
      BY <1>1, <1>3, <2>5, <2>6, <3>2 DEF InOrder, BehindRemoval
    <3>3. CASE r.slot = "premium"
      BY <1>1, <1>3, <2>5, <2>6, <3>3 DEF InOrder, BehindRemoval
    <3> QED  BY <1>3, <2>6, <3>1, <3>2, <3>3
  <2>8. InOrder(q, overrides')
    BY <2>4, <2>7 DEF InOrder
  <2> QED  BY <2>3, <2>8
<1>5. CASE ~Insertable(overrides, r.slot, r.value)
  <2>1. overrides' = overrides /\ Ask(p, Resting)
    BY <1>2, <1>5 DEF Insert, Refused, Done
  <2>2. r.value = NoValue
    BY <1>3, <1>5 DEF Insertable
  <2>3. r.slot # "dismissed"
    BY <1>1, <1>3, <2>2, CorrectionsAssumption DEF InOrder
  <2>4. BehindRemoval(overrides)
    BY <1>1, <1>3, <2>3 DEF InOrder
  <2>5. InOrder(Resting, overrides)
    BY <2>4 DEF InOrder, Resting, Begun
  <2> QED  BY <2>1, <2>5, ReadsInOrder
<1> QED  BY <1>4, <1>5

LEMMA UnexcludeInOrder ==
    ASSUME TypeInv, NEW p \in Person, InOrder(asked[p], overrides), faults' = 0, faults = 0, Unexclude(p)
    PROVE  InOrder(asked[p], overrides)'
<1> DEFINE r == asked[p]
<1>1. Requests(asked, overrides) /\ RecordsOK /\ TableOK(overrides) /\ r \in Request /\ InOrder(r, overrides)
  BY DEF TypeInv, Requests
<1>2. ~Fault
  BY <1>1, Faultless
<1>3. /\ r.id \in DOMAIN overrides /\ overrides[r.id].slot = "event" /\ overrides[r.id].status = "active"
      /\ overrides' = Retired(overrides, r.id, "withdrawn")
      /\ Ask(p, [r EXCEPT !.at = "putback", !.original = overrides[r.id].original])
  BY <1>1, <1>2 DEF Unexclude, InOrder, ActiveRows
<1>4. PICK q : q = [r EXCEPT !.at = "putback", !.original = overrides[r.id].original]
  OBVIOUS
<1>5. asked'[p] = q
  BY <1>1, <1>3, <1>4, AskedElsewhere
<1>6. q.at = "putback"
  BY <1>1, <1>4 DEF Request
<1>7. ~Exists(overrides', "event")
  BY <1>1, <1>3, RetireFrees
<1>8. InOrder(q, overrides')
  BY <1>6, <1>7 DEF InOrder, BehindRemoval
<1> QED  BY <1>5, <1>8

\* Whoever works alone after a step worked alone before it, or the one who stepped
\* did and rests by now.
LEMMA NextInOrder == TypeInv /\ RestoreInv /\ [Next]_vars => RestoreInv'
<1> SUFFICES ASSUME TypeInv, RestoreInv, [Next]_vars PROVE RestoreInv'
  OBVIOUS
<1>1. Requests(asked, overrides) /\ RecordsOK
  BY DEF TypeInv
<1>2. faults' = 0 => faults = 0 /\ ~Fault
  <2>1. Next => Fine \/ Fault
    BY DEF Next, Handle, Rebuild, Correct, Dismiss, Desk, Withdraw, Patch, Find, Supersede, Insert, Events,
           WriteThrough, Undo, Restore, Unexclude, PutBack, Die, Build, OverlayEvents, UpsertEvent, Project, StoreRow,
           Protect, Prune, Break, Move, Work
  <2>2. UNCHANGED vars => Fine
    BY DEF vars, Fine
  <2> QED  BY <1>1, <2>1, <2>2, Faultless
<1>3. ASSUME overrides' = overrides, crowded' = crowded,
             \/ asked' = asked \/ asked' = [q \in Person |-> [asked[q] EXCEPT !.row = FALSE]]
      PROVE  RestoreInv'
  <2>1. ASSUME NEW p \in Person
        PROVE  /\ asked'[p].at = asked[p].at /\ asked'[p].slot = asked[p].slot
               /\ asked'[p].value = asked[p].value /\ asked'[p].id = asked[p].id
    <3>1. asked[p] \in Request
      BY <1>1 DEF Requests
    <3> QED  BY <1>3, <3>1 DEF Request
  <2>2. OneByOne'
    BY <1>3, <2>1 DEF RestoreInv, OneByOne
  <2>3. ASSUME NEW p \in Person, Alone(p)' PROVE InOrder(asked[p], overrides)'
    <3>1. Alone(p)
      BY <1>2, <1>3, <2>1, <2>3 DEF Alone
    <3>2. InOrder(asked[p], overrides)
      BY <3>1 DEF RestoreInv
    <3> QED  BY <1>3, <2>1, <3>2 DEF InOrder
  <2> QED  BY <2>2, <2>3 DEF RestoreInv
<1>4. CASE (\E p \in Person : Patch(p)) \/ Rebuild \/ Break \/ Move \/ Work \/ UNCHANGED vars
  BY <1>3, <1>4 DEF Patch, Rebuild, Build, OverlayEvents, UpsertEvent, Project, StoreRow, Protect, Prune, Gone,
     Break, Move, Work, People, Same, Bounds, vars
<1>5. ASSUME NEW p \in Person, Correct(p) \/ Dismiss(p) \/ Withdraw(p) \/ Handle(p) \/ Die(p)
      PROVE  RestoreInv'
  <2>1. \A q \in Person : q # p => asked'[q] = asked[q]
    <3>1. \E r : Ask(p, r)
      <4>1. CASE Correct(p) \/ Dismiss(p)
        BY <4>1 DEF Correct, Dismiss, Begin
      <4>2. CASE Withdraw(p)
        BY <4>2 DEF Withdraw, Begin, Done
      <4>3. CASE Handle(p) \/ Die(p)
        BY <4>3 DEF Handle, Die, Find, Supersede, Insert, Events, WriteThrough, Undo, Restore, Unexclude, PutBack,
           Goto, Refused, Done
      <4> QED  BY <1>5, <4>1, <4>2, <4>3
    <3>2. PICK r : Ask(p, r)
      BY <3>1
    <3> QED  BY <1>1, <3>2, AskedElsewhere
  <2>2. \/ asked[p].at = "rest" /\ crowded' = (crowded \/ \E q \in Person \ {p} : asked[q].at # "rest")
        \/ asked[p].at # "rest" /\ crowded' = crowded
        \/ asked'[p].at = "rest" /\ crowded' = crowded /\ Fault
    <3>1. CASE Correct(p) \/ Dismiss(p)
      BY <3>1 DEF Correct, Dismiss, Desk, Begin
    <3>2. CASE Withdraw(p)
      <4>1. CASE crowded' = (crowded \/ \E q \in Person \ {p} : asked[q].at # "rest")
        BY <3>2, <4>1 DEF Withdraw
      <4>2. CASE Done(p) /\ Fault /\ UNCHANGED crowded
        <5>1. asked'[p] = Resting
          BY <1>1, <4>2, AskedElsewhere DEF Done
        <5> QED  BY <4>2, <5>1 DEF Resting, Begun
      <4> QED  BY <3>2, <4>1, <4>2 DEF Withdraw, Begin
    <3>3. CASE Handle(p) \/ Die(p)
      BY <3>3 DEF Handle, Die, Find, Supersede, Insert, Events, WriteThrough, Undo, Restore, Unexclude, PutBack, Same
    <3> QED  BY <1>5, <3>1, <3>2, <3>3
  <2>3. OneByOne'
    <3> SUFFICES ASSUME ~crowded', NEW q \in Person, NEW r \in Person, q # r,
                        asked'[q].at # "rest", asked'[r].at # "rest"
                 PROVE  FALSE
      BY DEF OneByOne
    <3>1. ~crowded /\ (asked[p].at = "rest" => asked'[p].at = "rest" \/ \A o \in Person \ {p} : asked[o].at = "rest")
      <4>1. CASE asked[p].at = "rest" /\ crowded' = (crowded \/ \E o \in Person \ {p} : asked[o].at # "rest")
        BY <4>1, Zenon
      <4>2. CASE crowded' = crowded /\ (asked[p].at # "rest" \/ asked'[p].at = "rest")
        BY <4>2, Zenon
      <4> QED  BY <2>2, <4>1, <4>2
    <3>2. \A o, n \in Person : o = n \/ asked[o].at = "rest" \/ asked[n].at = "rest"
      BY <3>1 DEF RestoreInv, OneByOne
    <3>3. CASE q # p /\ r # p
      BY <2>1, <3>2, <3>3
    <3>4. CASE q = p
      BY <2>1, <3>1, <3>2, <3>4
    <3>5. CASE r = p
      BY <2>1, <3>1, <3>2, <3>5
    <3> QED  BY <3>3, <3>4, <3>5
  <2>4. ASSUME NEW q \in Person, Alone(q)' PROVE InOrder(asked[q], overrides)'
    <3>1. faults' = 0 /\ faults = 0 /\ ~Fault /\ ~crowded'
      BY <1>2, <2>4 DEF Alone
    <3>7. ~crowded
      BY <2>2, <3>1, Zenon
    <3>2. Alone(p)
      <4>1. CASE asked[p].at = "rest"
        <5>1. crowded' = (crowded \/ \E o \in Person \ {p} : asked[o].at # "rest")
          BY <2>2, <3>1, <4>1
        <5>2. \A o \in Person \ {p} : asked[o].at = "rest"
          BY <3>1, <5>1, Zenon
        <5> QED  BY <3>1, <3>7, <5>2 DEF Alone
      <4>2. CASE asked[p].at # "rest"
        BY <3>1, <3>7, <4>2 DEF RestoreInv, OneByOne, Alone
      <4> QED  BY <4>1, <4>2
    <3>3. InOrder(asked[p], overrides)
      BY <3>2 DEF RestoreInv
    <3>4. InOrder(asked[p], overrides)'
      BY <1>5, <3>1, <3>3, ReadersInOrder, WithdrawInOrder, SupersedeInOrder, InsertInOrder, UnexcludeInOrder
         DEF Handle, Die
    <3>5. CASE q = p
      BY <3>4, <3>5
    <3>6. CASE q # p
      <4>1. asked'[p].at = "rest" /\ asked'[q] = asked[q] /\ asked[q].at = "rest"
        BY <2>1, <2>4, <3>2, <3>6 DEF Alone
      <4> QED  BY <3>4, <4>1 DEF InOrder
    <3> QED  BY <3>5, <3>6
  <2> QED  BY <2>3, <2>4 DEF RestoreInv
<1> QED  BY <1>4, <1>5 DEF Next

\* Undoing a removal puts the event back too (_restore_candidates() in renewals.py):
\* when requests are made one after the other, by any number of people, and nothing
\* fails, no event stays excluded behind a removal that was undone - with any number of
\* corrections, removals and undone ones before it, and the rebuild at work all the while.
THEOREM RemovalsAreUndone == Spec => []RestoreComplete
<1>1. Init => TypeInv /\ RestoreInv
  <2> SUFFICES ASSUME Init PROVE RestoreInv
    BY InitTyped
  <2>1. \A p \in Person : asked[p] = Resting
    BY DEF Init
  <2>2. BehindRemoval(overrides)
    BY DEF Init, BehindRemoval, Exists, ActiveRows
  <2>3. InOrder(Resting, overrides)
    BY <2>2 DEF InOrder, Resting, Begun
  <2>4. Resting.at = "rest"
    BY DEF Resting, Begun
  <2> QED  BY <2>1, <2>3, <2>4 DEF RestoreInv, OneByOne
<1>2. TypeInv /\ RestoreInv /\ [Next]_vars => (TypeInv /\ RestoreInv)'
  BY NextTyped, NextInOrder
<1>3. RestoreInv => RestoreComplete
  <2> SUFFICES ASSUME RestoreInv, faults = 0, ~crowded, AtRest, Exists(overrides, "event")
               PROVE  Exists(overrides, "dismissed")
    BY DEF RestoreComplete
  <2>1. PICK p \in Person : TRUE
    BY CorrectionsAssumption
  <2>2. InOrder(asked[p], overrides) /\ asked[p].at = "rest"
    BY DEF RestoreInv, Alone, AtRest
  <2> QED  BY <2>2 DEF InOrder, BehindRemoval
<1> QED  BY <1>1, <1>2, <1>3, PTL DEF Spec
=============================================================================
