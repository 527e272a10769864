------------------------ MODULE AmsWriteback_proofs -------------------------
(***************************************************************************)
(* Proofs about AmsWriteback, for any number of pushes and of failures.    *)
(***************************************************************************)
EXTENDS AmsWriteback, FiniteSetTheorems, TLAPS

Request == [at : Places, record : Record, value : Field, row : BOOLEAN, outcome : Outcomes]

\* What holds of a push: a result before it is closed, a row only once it was
\* staged, and a history that knows what NowCerts carries while it runs.  The row
\* says what the push found, and a write goes to a record that was confirmed.
PushInv(p) ==
    /\ push[p].at = "close" => push[p].outcome # "none"
    /\ push[p].row => push[p].at \notin {"none", "stage", "confirm", "create"}
    /\ push[p].at \in {"none", "stage"} => queue[p] = "absent"
    /\ Running(p) /\ Carries(p) => p \in held
    /\ push[p].outcome = "completed" => p \in held \/ push[p].value = Cleared
    /\ queue[p] \in {"completed", "failed"} => /\ push[p].at \in {"done", "dead"}
                                              /\ queue[p] = push[p].outcome
    /\ p \notin hit /\ push[p].row /\ push[p].at = "done" => queue[p] = push[p].outcome
    /\ push[p].at \in {"write", "create"} => push[p].record \in Known

WritebackInv == TypeOK /\ UnknownStaysUnknown /\ \A p \in Push : PushInv(p)

NewerFinite == newer \in [Push -> SUBSET Push] /\ \A p \in Push : IsFiniteSet(newer[p])

-----------------------------------------------------------------------------
(* Type correctness                                                        *)

\* A request that begins is well formed.
LEMMA BegunTyped ==
    ASSUME NEW place \in Places, NEW record \in Record, NEW value \in Field
    PROVE  Begun(place, record, value) \in Request
  BY DEF Begun, Request, Outcomes

\* What a step makes of a request is well formed.
LEMMA RequestTyped ==
    ASSUME push \in [Push -> Request], NEW p \in Push
    PROVE  /\ \A place \in Places : Goto(p, place) => push' \in [Push -> Request]
           /\ \A outcome \in Outcomes : Outcome(p, outcome) => push' \in [Push -> Request]
  BY DEF Goto, Outcome, Request, Places

\* The initial states are well typed.
LEMMA InitTyped == Init => TypeOK
  <1> SUFFICES ASSUME Init PROVE TypeOK
    OBVIOUS
  <1> USE WritebackAssumption
  <1> DEFINE first == CHOOSE r \in Record : TRUE
  <1>1. first \in Record
    OBVIOUS
  <1>2. Begun("none", first, Cleared) \in Request
    BY <1>1, BegunTyped DEF Places, Idle, Field
  <1>3. push \in [Push -> Request]
    BY <1>2 DEF Init
  <1> QED
    BY <1>3 DEF Init, TypeOK, Request

\* The fields of a request.
LEMMA RequestFields ==
    ASSUME TypeOK, NEW p \in Push
    PROVE  /\ push[p].record \in Record /\ push[p].value \in Field
           /\ push[p].outcome \in Outcomes /\ push[p].at \in Places
           /\ push[p].row \in BOOLEAN
  BY DEF TypeOK

-----------------------------------------------------------------------------
(* One lemma per action: the state stays well typed and the invariant of   *)
(* the push that moves is kept; the others are left alone                  *)

\* A push that a step leaves alone keeps its invariant.
LEMMA Frame ==
    ASSUME TypeOK, NEW q \in Push, PushInv(q), push'[q] = push[q], queue'[q] = queue[q],
           hit \subseteq hit', held \subseteq held',
           Running(q) /\ Carries(q)' => q \in held'
    PROVE  PushInv(q)'
  BY DEF PushInv, Running, TypeOK

\* A step by which nobody but p moves, and that leaves NowCerts alone, keeps the
\* invariants of the others.
LEMMA OthersKept ==
    ASSUME WritebackInv, NEW p \in Push, NowCertsIdle, hit \subseteq hit',
           \A q \in Push \ {p} : push'[q] = push[q] /\ queue'[q] = queue[q]
    PROVE  \A q \in Push \ {p} : PushInv(q)'
  <1> TAKE q \in Push \ {p}
  <1>1. Carries(q)' = Carries(q)
    BY DEF Carries, NowCertsIdle
  <1>2. Running(q) /\ Carries(q)' => q \in held'
    BY <1>1 DEF WritebackInv, PushInv, NowCertsIdle
  <1> QED
    BY <1>2, Frame DEF WritebackInv, NowCertsIdle

\* Whoever is hit stays hit.
LEMMA HitGrows ==
    ASSUME TypeOK, NEW p \in Push, Fine \/ Fault(p)
    PROVE  hit \subseteq hit' /\ hit' \subseteq Push
  BY DEF Fine, Fault, TypeOK

LEMMA BeginKeeps ==
    ASSUME WritebackInv, NEW p \in Push, NEW place \in {"stage", "confirm"},
           NEW r \in Record, NEW v \in Field, Begin(p, Begun(place, r, v))
    PROVE  WritebackInv'
  <1> DEFINE b == Begun(place, r, v)
  <1>1. b \in Request
    BY BegunTyped DEF Places
  <1>2. TypeOK /\ push \in [Push -> Request]
    BY DEF WritebackInv, TypeOK, Request
  <1>3. push' \in [Push -> Request] /\ push'[p] = b
    BY <1>1, <1>2 DEF Begin
  <1>4. TypeOK'
    BY <1>2, <1>3 DEF Begin, Fine, TypeOK, Request
  <1>5. UnknownStaysUnknown'
    BY DEF Begin, WritebackInv, UnknownStaysUnknown
  <1>6. PushInv(p)'
    <2>1. b.at = place /\ b.record = r /\ b.value = v /\ b.row = FALSE /\ b.outcome = "none"
      BY DEF Begun
    <2>2. queue'[p] = "absent" /\ push[p].at = "none"
      BY DEF Begin, WritebackInv, PushInv
    <2>3. Carries(p)' => p \in held'
      BY <1>3, <2>1 DEF Begin, Carries
    <2> QED
      BY <1>3, <2>1, <2>2, <2>3 DEF PushInv
  <1>7. ASSUME NEW q \in Push \ {p} PROVE PushInv(q)'
    <2>1. push'[q] = push[q] /\ queue'[q] = queue[q] /\ ams' = ams /\ held \subseteq held' /\ hit' = hit
      BY <1>2 DEF Begin, Fine
    <2>2. Running(q) /\ Carries(q)' => q \in held'
      BY <2>1 DEF WritebackInv, PushInv, Carries
    <2> QED
      BY <1>2, <2>1, <2>2, Frame DEF WritebackInv
  <1> QED
    BY <1>4, <1>5, <1>6, <1>7 DEF WritebackInv

LEMMA StageKeeps ==
    ASSUME WritebackInv, NEW p \in Push, Stage(p)
    PROVE  WritebackInv'
  <1>1. TypeOK /\ push \in [Push -> Request]
    BY DEF WritebackInv, TypeOK, Request
  <1>2. hit \subseteq hit' /\ hit' \subseteq Push
    BY <1>1, HitGrows DEF Stage
  <1>3. /\ push' \in [Push -> Request] /\ push'[p].at = "before"
        /\ push'[p].record = push[p].record /\ push'[p].value = push[p].value
        /\ push'[p].outcome = push[p].outcome
        /\ \A q \in Push \ {p} : push'[q] = push[q]
    BY <1>1 DEF Stage, Goto, Places, Request
  <1>4. /\ queue' \in [Push -> {"absent", "queued", "completed", "failed"}]
        /\ queue'[p] \in {"absent", "queued"}
        /\ \A q \in Push \ {p} : queue'[q] = queue[q]
    BY <1>1 DEF Stage, TypeOK, WritebackInv, PushInv
  <1>5. TypeOK'
    BY <1>1, <1>2, <1>3, <1>4 DEF Stage, NowCertsIdle, TypeOK, Request
  <1>6. UnknownStaysUnknown'
    BY DEF Stage, NowCertsIdle, WritebackInv, UnknownStaysUnknown
  <1>7. PushInv(p)'
    <2>1. Carries(p)' => p \in held'
      BY <1>3 DEF Stage, NowCertsIdle, Carries, WritebackInv, PushInv, Running, Idle
    <2>2. push[p].outcome = "completed" => p \in held' \/ push[p].value = Cleared
      BY DEF Stage, NowCertsIdle, WritebackInv, PushInv
    <2> QED
      BY <1>3, <1>4, <2>1, <2>2 DEF PushInv
  <1>8. \A q \in Push \ {p} : PushInv(q)'
    BY <1>2, <1>3, <1>4, OthersKept DEF Stage
  <1> QED
    BY <1>5, <1>6, <1>7, <1>8 DEF WritebackInv

LEMMA ReadBeforeKeeps ==
    ASSUME WritebackInv, NEW p \in Push, ReadBefore(p)
    PROVE  WritebackInv'
  <1>1. TypeOK /\ push \in [Push -> Request]
    BY DEF WritebackInv, TypeOK, Request
  <1>2. hit \subseteq hit' /\ hit' \subseteq Push
    BY <1>1, HitGrows DEF ReadBefore, Answer
  <1>3. /\ push' \in [Push -> Request]
        /\ push'[p].record = push[p].record /\ push'[p].value = push[p].value
        /\ push'[p].row = push[p].row
        /\ \/ push'[p].at = "write" /\ push'[p].outcome = push[p].outcome
           \/ push'[p].at = "close" /\ push'[p].outcome = "failed"
        /\ \A q \in Push \ {p} : push'[q] = push[q]
    BY <1>1 DEF ReadBefore, Goto, Outcome, Outcomes, Places, Request
  <1>4. push'[p].at = "write" => push[p].record \in Known
    <2>1. push'[p].at = "write" => ams[push[p].record] # NoRecord
      BY <1>1 DEF ReadBefore, Answer, Confirmed, Goto, Outcome, Request
    <2> QED
      BY <1>1, <2>1, RequestFields DEF WritebackInv, UnknownStaysUnknown
  <1>5. TypeOK'
    BY <1>1, <1>2, <1>3 DEF ReadBefore, NowCertsIdle, TypeOK, Request
  <1>6. UnknownStaysUnknown'
    BY DEF ReadBefore, NowCertsIdle, WritebackInv, UnknownStaysUnknown
  <1>7. PushInv(p)'
    <2>1. Carries(p)' => p \in held'
      BY <1>3 DEF ReadBefore, NowCertsIdle, Carries, WritebackInv, PushInv, Running, Idle
    <2>2. push[p].outcome = "completed" => p \in held' \/ push[p].value = Cleared
      BY DEF ReadBefore, NowCertsIdle, WritebackInv, PushInv
    <2>3. queue'[p] \notin {"completed", "failed"}
      BY DEF ReadBefore, WritebackInv, PushInv
    <2> QED
      BY <1>3, <1>4, <2>1, <2>2, <2>3 DEF PushInv
  <1>8. \A q \in Push \ {p} : PushInv(q)'
    BY <1>2, <1>3, OthersKept DEF ReadBefore
  <1> QED
    BY <1>5, <1>6, <1>7, <1>8 DEF WritebackInv

LEMMA WriteKeeps ==
    ASSUME WritebackInv, NEW p \in Push, Write(p)
    PROVE  WritebackInv'
  <1>1. TypeOK /\ push \in [Push -> Request]
    BY DEF WritebackInv, TypeOK, Request
  <1>2. hit \subseteq hit' /\ hit' \subseteq Push
    BY <1>1, HitGrows DEF Write
  <1>3. /\ push' \in [Push -> Request]
        /\ push'[p].record = push[p].record /\ push'[p].value = push[p].value
        /\ push'[p].row = push[p].row
        /\ \/ push'[p].at = "after" /\ push'[p].outcome = push[p].outcome
           \/ push'[p].at = "close" /\ push'[p].outcome = "failed"
        /\ \A q \in Push \ {p} : push'[q] = push[q]
    BY <1>1 DEF Write, Goto, Outcome, Outcomes, Places, Request
  <1>4. ams' \in [Record -> Field \cup {NoRecord}] /\ held \subseteq held' /\ held' \subseteq Push
    BY <1>1, RequestFields DEF Write, Upsert, TypeOK
  <1>5. TypeOK'
    BY <1>1, <1>2, <1>3, <1>4 DEF Write, TypeOK, Request
  <1>6. UnknownStaysUnknown'
    <2>1. push[p].record \in Known
      BY DEF Write, WritebackInv, PushInv
    <2> QED
      BY <1>1, <2>1 DEF Write, Upsert, WritebackInv, UnknownStaysUnknown, TypeOK
  <1>7. ASSUME NEW q \in Push, Running(q), ams'[push[q].record] = push[q].value
        PROVE  q \in held'
    <2>1. CASE UNCHANGED <<ams, held>>
      BY <1>7, <2>1 DEF WritebackInv, PushInv, Carries
    <2>2. CASE Upsert(p) /\ push[q].record # push[p].record
      BY <1>1, <1>4, <1>7, <2>2, RequestFields DEF Upsert, TypeOK, WritebackInv, PushInv, Carries
    <2>3. CASE Upsert(p) /\ push[q].record = push[p].record
      <3>1. ams'[push[p].record] = push[p].value
        BY <1>1, <2>3, RequestFields DEF Upsert, TypeOK
      <3> QED
        BY <1>7, <2>3, <3>1 DEF Upsert
    <2> QED
      BY <2>1, <2>2, <2>3 DEF Write
  <1>8. PushInv(p)'
    <2>1. Carries(p)' => p \in held'
      BY <1>3, <1>7 DEF Write, Carries, Running, Idle
    <2>2. push[p].outcome = "completed" => p \in held' \/ push[p].value = Cleared
      BY <1>4 DEF WritebackInv, PushInv
    <2>3. queue'[p] \notin {"completed", "failed"}
      BY DEF Write, WritebackInv, PushInv
    <2> QED
      BY <1>3, <2>1, <2>2, <2>3 DEF PushInv, Write
  <1>9. ASSUME NEW q \in Push \ {p} PROVE PushInv(q)'
    <2>1. Running(q) /\ Carries(q)' => q \in held'
      BY <1>3, <1>7 DEF Carries
    <2> QED
      BY <1>1, <1>2, <1>3, <1>4, <2>1, Frame DEF WritebackInv, Write
  <1> QED
    BY <1>5, <1>6, <1>8, <1>9 DEF WritebackInv

LEMMA ReadAfterKeeps ==
    ASSUME WritebackInv, NEW p \in Push, ReadAfter(p)
    PROVE  WritebackInv'
  <1>1. TypeOK /\ push \in [Push -> Request]
    BY DEF WritebackInv, TypeOK, Request
  <1>2. hit \subseteq hit' /\ hit' \subseteq Push
    BY <1>1, HitGrows DEF ReadAfter, Answer
  <1>3. PICK answer \in Field \cup {NoRecord} :
            Answer(p, answer) /\ Outcome(p, Result(p, answer))
    BY DEF ReadAfter
  <1>4. /\ push' \in [Push -> Request]
        /\ push'[p].record = push[p].record /\ push'[p].value = push[p].value
        /\ push'[p].row = push[p].row
        /\ push'[p].at = "close" /\ push'[p].outcome = Result(p, answer)
        /\ \A q \in Push \ {p} : push'[q] = push[q]
    <2>1. Result(p, answer) \in {"completed", "failed"}
      BY DEF Result
    <2> QED
      BY <1>1, <1>3, <2>1 DEF Outcome, Outcomes, Places, Request
  <1>5. TypeOK'
    BY <1>1, <1>2, <1>4 DEF ReadAfter, NowCertsIdle, TypeOK, Request
  <1>6. UnknownStaysUnknown'
    BY DEF ReadAfter, NowCertsIdle, WritebackInv, UnknownStaysUnknown
  <1>7. Carries(p) => p \in held'
    BY DEF ReadAfter, NowCertsIdle, WritebackInv, PushInv, Running, Idle
  <1>8. Verified(p, answer) => p \in held' \/ push[p].value = Cleared
    BY <1>3, <1>7 DEF Verified, Confirmed, Answer, Carries
  <1>9. PushInv(p)'
    <2>1. Carries(p)' = Carries(p)
      BY <1>4 DEF ReadAfter, NowCertsIdle, Carries
    <2>2. push'[p].outcome # "none" /\ (push'[p].outcome = "completed" => Verified(p, answer))
      BY <1>4 DEF Result
    <2>3. queue'[p] \notin {"completed", "failed"}
      BY DEF ReadAfter, WritebackInv, PushInv
    <2> QED
      BY <1>4, <1>7, <1>8, <2>1, <2>2, <2>3 DEF PushInv
  <1>10. \A q \in Push \ {p} : PushInv(q)'
    BY <1>2, <1>4, OthersKept DEF ReadAfter
  <1> QED
    BY <1>5, <1>6, <1>9, <1>10 DEF WritebackInv

LEMMA CloseKeeps ==
    ASSUME WritebackInv, NEW p \in Push, Close(p)
    PROVE  WritebackInv'
  <1>1. TypeOK /\ push \in [Push -> Request]
    BY DEF WritebackInv, TypeOK, Request
  <1>2. hit \subseteq hit' /\ hit' \subseteq Push
    BY <1>1, HitGrows DEF Close
  <1>3. /\ push' \in [Push -> Request] /\ push'[p].at = "done"
        /\ push'[p].record = push[p].record /\ push'[p].value = push[p].value
        /\ push'[p].row = push[p].row /\ push'[p].outcome = push[p].outcome
        /\ \A q \in Push \ {p} : push'[q] = push[q]
    BY <1>1 DEF Close, Goto, Places, Idle, Request
  <1>4. push[p].outcome \in {"completed", "failed"}
    BY <1>1, RequestFields DEF Close, WritebackInv, PushInv, Outcomes
  <1>5. /\ queue' \in [Push -> {"absent", "queued", "completed", "failed"}]
        /\ queue'[p] \in {queue[p], push[p].outcome}
        /\ p \notin hit' /\ push[p].row => queue'[p] = push[p].outcome
        /\ \A q \in Push \ {p} : queue'[q] = queue[q]
    BY <1>1, <1>4 DEF Close, Closed, Fine, Fault, TypeOK
  <1>6. TypeOK'
    BY <1>1, <1>2, <1>3, <1>5 DEF Close, NowCertsIdle, TypeOK, Request
  <1>7. UnknownStaysUnknown'
    BY DEF Close, NowCertsIdle, WritebackInv, UnknownStaysUnknown
  <1>8. PushInv(p)'
    <2>1. push[p].outcome = "completed" => p \in held' \/ push[p].value = Cleared
      BY DEF Close, NowCertsIdle, WritebackInv, PushInv
    <2>2. queue[p] \notin {"completed", "failed"}
      BY DEF Close, WritebackInv, PushInv
    <2>3. ~Running(p)'
      BY <1>3 DEF Running, Idle
    <2> QED
      BY <1>3, <1>5, <2>1, <2>2, <2>3 DEF PushInv
  <1>9. \A q \in Push \ {p} : PushInv(q)'
    BY <1>2, <1>3, <1>5, OthersKept DEF Close
  <1> QED
    BY <1>6, <1>7, <1>8, <1>9 DEF WritebackInv

LEMMA ConfirmInsuredKeeps ==
    ASSUME WritebackInv, NEW p \in Push, ConfirmInsured(p)
    PROVE  WritebackInv'
  <1>1. TypeOK /\ push \in [Push -> Request]
    BY DEF WritebackInv, TypeOK, Request
  <1>2. hit \subseteq hit' /\ hit' \subseteq Push
    BY <1>1, HitGrows DEF ConfirmInsured, Answer
  <1>3. /\ push' \in [Push -> Request] /\ push'[p].at \in {"create", "done"}
        /\ push'[p].record = push[p].record /\ push'[p].value = push[p].value
        /\ push'[p].row = push[p].row /\ push'[p].outcome = push[p].outcome
        /\ \A q \in Push \ {p} : push'[q] = push[q]
    BY <1>1 DEF ConfirmInsured, Goto, Places, Idle, Request
  <1>4. push'[p].at = "create" => push[p].record \in Known
    <2>1. push'[p].at = "create" => ams[push[p].record] # NoRecord
      BY <1>1 DEF ConfirmInsured, Answer, Confirmed, Goto, Request
    <2> QED
      BY <1>1, <2>1, RequestFields DEF WritebackInv, UnknownStaysUnknown
  <1>5. TypeOK'
    BY <1>1, <1>2, <1>3 DEF ConfirmInsured, NowCertsIdle, TypeOK, Request
  <1>6. UnknownStaysUnknown'
    BY DEF ConfirmInsured, NowCertsIdle, WritebackInv, UnknownStaysUnknown
  <1>7. PushInv(p)'
    <2>1. Carries(p)' => p \in held'
      BY <1>3 DEF ConfirmInsured, NowCertsIdle, Carries, WritebackInv, PushInv, Running, Idle
    <2>2. push[p].outcome = "completed" => p \in held' \/ push[p].value = Cleared
      BY DEF ConfirmInsured, NowCertsIdle, WritebackInv, PushInv
    <2>3. queue'[p] \notin {"completed", "failed"} /\ push[p].row = FALSE
      BY <1>1 DEF ConfirmInsured, WritebackInv, PushInv, Request
    <2> QED
      BY <1>3, <1>4, <2>1, <2>2, <2>3 DEF PushInv
  <1>8. \A q \in Push \ {p} : PushInv(q)'
    BY <1>2, <1>3, OthersKept DEF ConfirmInsured
  <1> QED
    BY <1>5, <1>6, <1>7, <1>8 DEF WritebackInv

LEMMA CreatePolicyKeeps ==
    ASSUME WritebackInv, NEW p \in Push, CreatePolicy(p)
    PROVE  WritebackInv'
  <1>1. TypeOK /\ push \in [Push -> Request]
    BY DEF WritebackInv, TypeOK, Request
  <1>2. hit \subseteq hit' /\ hit' \subseteq Push
    BY <1>1, HitGrows DEF CreatePolicy
  <1>3. /\ push' \in [Push -> Request] /\ push'[p].at = "done"
        /\ push'[p].record = push[p].record /\ push'[p].value = push[p].value
        /\ push'[p].row = push[p].row /\ push'[p].outcome = push[p].outcome
        /\ \A q \in Push \ {p} : push'[q] = push[q]
    BY <1>1 DEF CreatePolicy, Goto, Places, Idle, Request
  <1>4. push[p].record \in Known /\ insured' \subseteq insured \cup {push[p].record}
    BY DEF CreatePolicy, WritebackInv, PushInv
  <1>5. TypeOK'
    BY <1>1, <1>2, <1>3, <1>4, RequestFields DEF CreatePolicy, TypeOK, Request
  <1>6. UnknownStaysUnknown'
    BY <1>4 DEF CreatePolicy, WritebackInv, UnknownStaysUnknown
  <1>7. PushInv(p)'
    <2>1. push[p].outcome = "completed" => p \in held' \/ push[p].value = Cleared
      BY DEF CreatePolicy, WritebackInv, PushInv
    <2>2. queue'[p] \notin {"completed", "failed"} /\ push[p].row = FALSE
      BY <1>1 DEF CreatePolicy, WritebackInv, PushInv, Request
    <2>3. ~Running(p)'
      BY <1>3 DEF Running, Idle
    <2> QED
      BY <1>3, <2>1, <2>2, <2>3 DEF PushInv
  <1>8. ASSUME NEW q \in Push \ {p} PROVE PushInv(q)'
    <2>1. Running(q) /\ Carries(q)' => q \in held'
      BY <1>3 DEF CreatePolicy, Carries, WritebackInv, PushInv
    <2> QED
      BY <1>1, <1>2, <1>3, <2>1, Frame DEF CreatePolicy, WritebackInv
  <1> QED
    BY <1>5, <1>6, <1>7, <1>8 DEF WritebackInv

LEMMA DieKeeps ==
    ASSUME WritebackInv, NEW p \in Push, Die(p)
    PROVE  WritebackInv'
  <1>1. TypeOK /\ push \in [Push -> Request]
    BY DEF WritebackInv, TypeOK, Request
  <1>2. hit \subseteq hit' /\ hit' \subseteq Push /\ p \in hit'
    BY <1>1, HitGrows DEF Die, Fault
  <1>3. /\ push' \in [Push -> Request] /\ push'[p].at = "dead"
        /\ push'[p].record = push[p].record /\ push'[p].value = push[p].value
        /\ push'[p].row = push[p].row /\ push'[p].outcome = push[p].outcome
        /\ \A q \in Push \ {p} : push'[q] = push[q]
    BY <1>1 DEF Die, Goto, Places, Idle, Request
  <1>4. TypeOK'
    BY <1>1, <1>2, <1>3 DEF Die, NowCertsIdle, TypeOK, Request
  <1>5. UnknownStaysUnknown'
    BY DEF Die, NowCertsIdle, WritebackInv, UnknownStaysUnknown
  <1>6. PushInv(p)'
    <2>1. push[p].outcome = "completed" => p \in held' \/ push[p].value = Cleared
      BY DEF Die, NowCertsIdle, WritebackInv, PushInv
    <2>2. queue'[p] \notin {"completed", "failed"}
      BY DEF Die, WritebackInv, PushInv, Running, Idle
    <2>3. ~Running(p)'
      BY <1>3 DEF Running, Idle
    <2> QED
      BY <1>2, <1>3, <2>1, <2>2, <2>3 DEF PushInv
  <1>7. \A q \in Push \ {p} : PushInv(q)'
    BY <1>2, <1>3, OthersKept DEF Die
  <1> QED
    BY <1>4, <1>5, <1>6, <1>7 DEF WritebackInv

LEMMA EditKeeps ==
    ASSUME WritebackInv, Edit
    PROVE  WritebackInv'
  <1> USE WritebackAssumption
  <1>1. PICK r \in Known, v \in Field \cup {NoRecord} :
            /\ ams' = [ams EXCEPT ![r] = v]
            /\ held' = held \cup {q \in Push : Running(q) /\ push[q].record = r /\ push[q].value = v}
    BY DEF Edit
  <1>2. TypeOK
    BY DEF WritebackInv
  <1>3. TypeOK'
    <2>1. ams' \in [Record -> Field \cup {NoRecord}]
      BY <1>1, <1>2 DEF TypeOK
    <2>2. held' \subseteq Push
      BY <1>1, <1>2 DEF TypeOK
    <2>3. edits' \in 0..MaxEdits
      BY <1>2 DEF Edit, TypeOK
    <2> QED
      BY <1>2, <2>1, <2>2, <2>3 DEF Edit, Fine, TypeOK
  <1>4. UnknownStaysUnknown'
    BY <1>1, <1>2 DEF Edit, WritebackInv, UnknownStaysUnknown, TypeOK
  <1>5. ASSUME NEW q \in Push PROVE PushInv(q)'
    <2>1. push'[q] = push[q] /\ queue'[q] = queue[q] /\ hit' = hit /\ held \subseteq held'
      BY <1>1 DEF Edit, Fine
    <2>2. Running(q) /\ Carries(q)' => q \in held'
      BY <1>1, <1>2, <2>1, RequestFields DEF Carries, TypeOK, WritebackInv, PushInv
    <2> QED
      BY <1>2, <2>1, <2>2, Frame DEF WritebackInv
  <1> QED
    BY <1>3, <1>4, <1>5 DEF WritebackInv

-----------------------------------------------------------------------------
(* The theorems                                                            *)

LEMMA InitKeeps == Init => WritebackInv
  <1> SUFFICES ASSUME Init PROVE WritebackInv
    OBVIOUS
  <1>1. TypeOK
    BY InitTyped
  <1>2. UnknownStaysUnknown
    BY DEF Init, UnknownStaysUnknown
  <1>3. ASSUME NEW p \in Push PROVE PushInv(p)
    BY DEF Init, PushInv, Begun, Running, Idle
  <1> QED
    BY <1>1, <1>2, <1>3 DEF WritebackInv

LEMMA StepKeeps ==
    ASSUME WritebackInv, [Next]_vars
    PROVE  WritebackInv'
  <1>1. ASSUME NEW p \in Push, Ask(p) PROVE WritebackInv'
    BY <1>1, BeginKeeps DEF Ask
  <1>2. ASSUME NEW p \in Push, Retry(p) PROVE WritebackInv'
    <2>1. \A q \in Push : push[q].record \in Record /\ push[q].value \in Field
      BY RequestFields DEF WritebackInv
    <2> QED
      BY <1>2, <2>1, BeginKeeps DEF Retry
  <1>3. ASSUME NEW p \in Push, AskPolicy(p) PROVE WritebackInv'
    BY <1>3, BeginKeeps DEF AskPolicy, Field
  <1>4. ASSUME NEW p \in Push, Step(p) PROVE WritebackInv'
    BY <1>4, StageKeeps, ReadBeforeKeeps, WriteKeeps, ReadAfterKeeps, CloseKeeps,
       ConfirmInsuredKeeps, CreatePolicyKeeps DEF Step
  <1>5. ASSUME NEW p \in Push, Die(p) PROVE WritebackInv'
    BY <1>5, DieKeeps
  <1>6. CASE Edit
    BY <1>6, EditKeeps
  <1>7. CASE UNCHANGED vars
    <2>1. TypeOK'
      BY <1>7 DEF vars, WritebackInv, TypeOK
    <2>2. UnknownStaysUnknown'
      BY <1>7 DEF vars, WritebackInv, UnknownStaysUnknown
    <2>3. ASSUME NEW q \in Push PROVE PushInv(q)'
      BY <1>7, Frame DEF vars, WritebackInv, PushInv, Carries
    <2> QED
      BY <2>1, <2>2, <2>3 DEF WritebackInv
  <1> QED
    BY <1>1, <1>2, <1>3, <1>4, <1>5, <1>6, <1>7 DEF Next

LEMMA AlwaysInv == Spec => []WritebackInv
  <1>1. WritebackInv /\ [Next]_vars => WritebackInv'
    BY StepKeeps
  <1> QED
    BY <1>1, InitKeeps, PTL DEF Spec

\* The records at NowCerts, the rows and the requests keep their types: the
\* status a row is closed with is one of outbound_sync_queue.
THEOREM WritebackTypeCorrect == Spec => []TypeOK
  BY AlwaysInv, PTL DEF WritebackInv

\* A completed row stands for a value NowCerts carried during the push, with any
\* number of pushes, retries and edits beside it, and any number of failures.
THEOREM CompletedWasTaken == Spec => []CompletedMeansTaken
  <1>1. WritebackInv => CompletedMeansTaken
    BY DEF WritebackInv, PushInv, CompletedMeansTaken
  <1> QED
    BY <1>1, AlwaysInv, PTL

\* No push and no new policy creates anything for a GUID NowCerts never knew.
THEOREM NothingIsMinted == Spec => []UnknownStaysUnknown
  BY AlwaysInv, PTL DEF WritebackInv

\* Only finitely many rows have been updated since.
LEMMA NewerStaysFinite ==
    ASSUME NewerFinite, [Next]_vars
    PROVE  NewerFinite'
  <1>1. CASE newer' = newer
    BY <1>1 DEF NewerFinite
  <1>2. ASSUME NEW p \in Push, newer' = [q \in Push |-> IF q = p THEN {} ELSE newer[q] \cup {p}]
        PROVE  NewerFinite'
    <2>1. newer' \in [Push -> SUBSET Push]
      BY <1>2 DEF NewerFinite
    <2>2. ASSUME NEW q \in Push PROVE IsFiniteSet(newer'[q])
      <3>1. CASE q = p
        BY <1>2, <3>1, FS_EmptySet
      <3>2. CASE q # p
        BY <1>2, <3>2, FS_AddElement DEF NewerFinite
      <3> QED
        BY <3>1, <3>2
    <2> QED
      BY <2>1, <2>2 DEF NewerFinite
  <1>3. CASE Next
    <2>1. ASSUME NEW p \in Push, Ask(p) \/ Retry(p) \/ AskPolicy(p) PROVE newer' = newer
      BY <2>1 DEF Ask, Retry, AskPolicy, Begin
    <2>2. ASSUME NEW p \in Push, Step(p) \/ Die(p), ~Close(p) PROVE newer' = newer
      BY <2>2 DEF Step, Die, Stage, ReadBefore, Write, ReadAfter, ConfirmInsured, CreatePolicy
    <2>3. ASSUME NEW p \in Push, Close(p) PROVE NewerFinite'
      BY <1>1, <1>2, <2>3 DEF Close
    <2>4. CASE Edit
      BY <1>1, <2>4 DEF Edit
    <2> QED
      BY <1>1, <1>3, <2>1, <2>2, <2>3, <2>4 DEF Next
  <1> QED
    BY <1>1, <1>3 DEF vars

\* A push that staged a row, was hit by no failure and ended in failure is listed, until
\* ListLimit later ones have failed: its row is failed, and so is the push of every failed
\* row that was updated since.
THEOREM FailuresAreListed == Spec => []FailureListed
  <1>1. ASSUME WritebackInv, NewerFinite, NEW p \in Push \ hit,
               push[p].at = "done", push[p].row, push[p].outcome = "failed"
        PROVE  Listed(p) \/ Cardinality({q \in newer[p] : push[q].outcome = "failed"}) >= ListLimit
    <2>1. Failed(p)
      BY <1>1 DEF WritebackInv, PushInv, Failed
    <2> DEFINE rows == {q \in newer[p] : Failed(q)}
               pushes == {q \in newer[p] : push[q].outcome = "failed"}
    <2>2. rows \subseteq pushes
      BY <1>1 DEF WritebackInv, PushInv, Failed, NewerFinite
    <2>3. IsFiniteSet(pushes)
      BY <1>1, FS_Subset DEF NewerFinite
    <2>4. /\ Cardinality(rows) <= Cardinality(pushes)
          /\ Cardinality(rows) \in Nat /\ Cardinality(pushes) \in Nat
      BY <2>2, <2>3, FS_Subset, FS_CardinalityType
    <2>5. Cardinality(rows) < ListLimit => Listed(p)
      BY <2>1 DEF Listed
    <2> HIDE DEF rows, pushes
    <2>6. ListLimit \in Nat
      BY WritebackAssumption
    <2>7. Listed(p) \/ Cardinality(pushes) >= ListLimit
      BY <2>4, <2>5, <2>6
    <2> QED
      BY <2>7 DEF pushes
  <1>2. WritebackInv /\ NewerFinite => FailureListed
    BY <1>1 DEF FailureListed
  <1>3. Init => NewerFinite
    BY FS_EmptySet DEF Init, NewerFinite
  <1>4. NewerFinite /\ [Next]_vars => NewerFinite'
    BY NewerStaysFinite
  <1> QED
    BY <1>2, <1>3, <1>4, AlwaysInv, PTL DEF Spec

\* Types, what was taken and what was not minted together (WritebackSafe).
THEOREM WritebackIsSafe == Spec => []WritebackSafe
  BY WritebackTypeCorrect, CompletedWasTaken, NothingIsMinted, PTL DEF WritebackSafe
=============================================================================
