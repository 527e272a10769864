-------------------------- MODULE BackOffice_proofs --------------------------
(***************************************************************************)
(* Theorems of the tasks of the office, of the cached book and of the      *)
(* commission ledger, each for every value of its constants.               *)
(***************************************************************************)
EXTENDS MCBackOffice, SequenceTheorems, FiniteSetTheorems, TLAPS

-----------------------------------------------------------------------------
(* CaseTasks: what the rows say of the work that was done.                 *)

TaskRow == [scope: Scopes, title: Title, required: BOOLEAN, status: TaskStatus \cup {"deleted"},
            stamp: 0..LastTaskDay, done: 0..LastTaskDay, cancelled: BOOLEAN, since: BOOLEAN, known: Nat]

Looking == [at: {"look"}, scope: Scopes, asked: SUBSET Title]
Inserting == [at: {"insert"}, scope: Scopes, asked: SUBSET Title, left: SUBSET Title, made: SUBSET Title, there: SUBSET Title,
              known: Nat]
Listing == [at: {"list"}, listed: SUBSET Nat]
Sweeping == [at: {"sweep"}, next: 1..5]
HandState == [at: {"rest"}] \cup Looking \cup Inserting \cup Listing \cup Sweeping

TasksTypes ==
    /\ taskDay \in 1..LastTaskDay /\ theCase \in {"open", "closed", "gone"} /\ filed \subseteq {"links", "events", "details"}
    /\ tasks \in Seq(TaskRow) /\ hands \in [Hand -> HandState]
    /\ late \in BOOLEAN

\* Nothing was done later than today, and a task that is cancelled was.
DoneByNow ==
    \A i \in Rows : /\ tasks[i].done <= taskDay /\ tasks[i].stamp <= taskDay
                    /\ tasks[i].status = "cancelled" => tasks[i].cancelled

\* What a deletion under way has cleared stays clear, unless something was filed meanwhile.
ClearBehind == ~late => \A p \in Hand : \A k \in 1..3 : hands[p].at = "sweep" /\ hands[p].next > k => ChildTables[k] \notin filed

TasksInv ==
    /\ TasksTypes /\ DoneByNow /\ ClearBehind
    /\ ChoreNotSwallowed /\ StampsAgree /\ ClosedOverChecklist /\ NothingOrphaned

(***************************************************************************)
(* Where the request of a hand is says which fields it has.                *)
(***************************************************************************)
LEMMA HandShapes ==
    ASSUME NEW h \in HandState
    PROVE  /\ h.at \in {"rest", "look", "insert", "list", "sweep"}
           /\ h.at = "look" => h \in Looking
           /\ h.at = "insert" => h \in Inserting
           /\ h.at = "list" => h \in Listing
           /\ h.at = "sweep" => h \in Sweeping
    BY DEF HandState, Looking, Inserting, Listing, Sweeping

(***************************************************************************)
(* One row of the tasks changes, or one is added; the others stay.         *)
(***************************************************************************)
LEMMA TaskRowTyped ==
    ASSUME tasks \in Seq(TaskRow), NEW i \in DOMAIN tasks
    PROVE  /\ tasks[i] \in TaskRow /\ i \in Nat
           /\ tasks[i].scope \in Scopes /\ tasks[i].title \in Title /\ tasks[i].required \in BOOLEAN
           /\ tasks[i].status \in TaskStatus \cup {"deleted"} /\ tasks[i].stamp \in 0..LastTaskDay
           /\ tasks[i].done \in 0..LastTaskDay /\ tasks[i].cancelled \in BOOLEAN /\ tasks[i].since \in BOOLEAN /\ tasks[i].known \in Nat
    <1>1. tasks[i] \in TaskRow /\ i \in Nat
      OBVIOUS
    <1> QED
      BY <1>1 DEF TaskRow

LEMMA MovedRow ==
    ASSUME TasksInv, NEW i \in Rows, NEW status \in TaskStatus, NEW stamp \in 0..LastTaskDay, stamp <= taskDay,
           Moved(i, status, stamp),
           status \notin Closing => stamp = 0,
           status = "cancelled" => stamp = taskDay,
           status = "completed" => stamp \in {taskDay, tasks[i].stamp}
    PROVE  /\ tasks' \in Seq(TaskRow) /\ DOMAIN tasks' = DOMAIN tasks
           /\ \A j \in DOMAIN tasks : j # i => tasks'[j] = tasks[j]
           /\ tasks'[i].scope = tasks[i].scope /\ tasks'[i].title = tasks[i].title /\ tasks'[i].required = tasks[i].required
           /\ tasks'[i].status = status
           /\ tasks'[i].done <= taskDay /\ tasks'[i].stamp <= taskDay
           /\ status = "cancelled" => tasks'[i].cancelled
           /\ status \notin Closing => tasks'[i].stamp = 0
           /\ status = "completed" => /\ tasks'[i].stamp # 0
                                      /\ tasks'[i].cancelled \/ tasks'[i].stamp >= tasks'[i].done
           /\ theCase = "closed" /\ status \notin Closing => tasks'[i].since
           /\ tasks[i].since => tasks'[i].since

    <1> DEFINE t == tasks[i]
               new == Stamped(t.status, status, stamp)
               row == [t EXCEPT !.status = status, !.stamp = new,
                          !.done = IF status = "completed" /\ t.status # "completed" THEN taskDay ELSE @,
                          !.cancelled = @ \/ status = "cancelled", !.since = @ \/ (theCase = "closed" /\ status \notin Closing)]
    <1>1. /\ i \in DOMAIN tasks /\ tasks \in Seq(TaskRow) /\ tasks' = [tasks EXCEPT ![i] = row]
          /\ taskDay \in 1..LastTaskDay
      BY DEF TasksInv, TasksTypes, Rows, Moved
    <1>2. /\ t \in TaskRow /\ i \in Nat
          /\ t.scope \in Scopes /\ t.title \in Title /\ t.required \in BOOLEAN
          /\ t.status \in TaskStatus \cup {"deleted"} /\ t.stamp \in 0..LastTaskDay
          /\ t.done \in 0..LastTaskDay /\ t.cancelled \in BOOLEAN /\ t.since \in BOOLEAN
      BY <1>1, TaskRowTyped
    <1>3. /\ t.done <= taskDay /\ t.stamp <= taskDay
          /\ t.status = "cancelled" => t.cancelled
          /\ t.status \notin Closing => t.stamp = 0
          /\ t.status = "completed" => (t.stamp # 0 /\ (t.cancelled \/ t.stamp >= t.done))
      BY DEF TasksInv, DoneByNow, StampsAgree
    <1>4. LastTaskDay \in Nat
      BY TasksAssumption
    <1>5. new \in 0..LastTaskDay /\ new <= taskDay
      BY <1>1, <1>2, <1>4 DEF Stamped
    <1>6. /\ status \notin Closing => new = 0
          /\ status = "completed" => new # 0
          /\ status = "completed" /\ t.status = "completed" /\ ~t.cancelled => new >= t.done
          /\ status = "completed" /\ t.status \notin Closing => new = taskDay
      BY <1>1, <1>2, <1>3, <1>4 DEF Stamped, Closing
    <1>7. t.status \in TaskStatus
      BY <1>2 DEF Rows
    <1> HIDE DEF new
    <1>8. row \in TaskRow
      <2>1. ASSUME NEW done \in 0..LastTaskDay, NEW cancelled \in BOOLEAN, NEW since \in BOOLEAN
            PROVE  [t EXCEPT !.status = status, !.stamp = new, !.done = done, !.cancelled = cancelled, !.since = since] \in TaskRow
        BY <1>2, <1>5 DEF TaskRow
      <2>2. (IF status = "completed" /\ t.status # "completed" THEN taskDay ELSE t.done) \in 0..LastTaskDay
        BY <1>1, <1>2, <1>4
      <2>3. (t.cancelled \/ status = "cancelled") \in BOOLEAN /\ (t.since \/ (theCase = "closed" /\ status \notin Closing)) \in BOOLEAN
        OBVIOUS
      <2> QED
        BY <2>1, <2>2, <2>3
    <1>9. /\ row.scope = t.scope /\ row.title = t.title /\ row.required = t.required /\ row.status = status /\ row.stamp = new
          /\ row.done = IF status = "completed" /\ t.status # "completed" THEN taskDay ELSE t.done
          /\ row.cancelled = (t.cancelled \/ status = "cancelled")
          /\ row.since = (t.since \/ (theCase = "closed" /\ status \notin Closing))
      BY <1>2 DEF TaskRow
    <1> HIDE DEF row
    <1>10. /\ tasks' \in Seq(TaskRow) /\ DOMAIN tasks' = DOMAIN tasks
           /\ \A j \in DOMAIN tasks : j # i => tasks'[j] = tasks[j]
           /\ tasks'[i] = row
      BY <1>1, <1>8
    <1>11. row.done <= taskDay /\ row.stamp <= taskDay
      BY <1>1, <1>2, <1>3, <1>5, <1>9
    <1>12. status = "completed" => row.cancelled \/ row.stamp >= row.done
      <2> SUFFICES ASSUME status = "completed" PROVE row.cancelled \/ row.stamp >= row.done
        OBVIOUS
      <2>1. CASE t.status = "completed"
        BY <2>1, <1>3, <1>6, <1>9
      <2>2. CASE t.status = "cancelled"
        BY <2>2, <1>3, <1>9
      <2>3. CASE t.status \notin Closing
        BY <2>3, <1>1, <1>6, <1>9 DEF Closing
      <2> QED
        BY <2>1, <2>2, <2>3 DEF Closing
    <1> QED
      BY <1>6, <1>9, <1>10, <1>11, <1>12

(***************************************************************************)
(* A row that moves keeps what the rows say.                               *)
(***************************************************************************)
LEMMA MovedKeeps ==
    ASSUME TasksInv, NEW i \in Rows, NEW status \in TaskStatus, NEW stamp \in 0..LastTaskDay, stamp <= taskDay,
           Moved(i, status, stamp),
           status \notin Closing => stamp = 0,
           status = "cancelled" => stamp = taskDay,
           status = "completed" => stamp \in {taskDay, tasks[i].stamp},
           UNCHANGED <<taskDay, theCase, filed, late>>
    PROVE  /\ tasks' \in Seq(TaskRow)
           /\ DoneByNow' /\ StampsAgree' /\ ClosedOverChecklist' /\ NothingOrphaned'
    <1>1. /\ tasks' \in Seq(TaskRow) /\ DOMAIN tasks' = DOMAIN tasks
          /\ \A j \in DOMAIN tasks : j # i => tasks'[j] = tasks[j]
          /\ tasks'[i].scope = tasks[i].scope /\ tasks'[i].title = tasks[i].title /\ tasks'[i].required = tasks[i].required
          /\ tasks'[i].status = status
          /\ tasks'[i].done <= taskDay /\ tasks'[i].stamp <= taskDay
          /\ status = "cancelled" => tasks'[i].cancelled
          /\ status \notin Closing => tasks'[i].stamp = 0
          /\ status = "completed" => /\ tasks'[i].stamp # 0
                                     /\ tasks'[i].cancelled \/ tasks'[i].stamp >= tasks'[i].done
          /\ theCase = "closed" /\ status \notin Closing => tasks'[i].since
          /\ tasks[i].since => tasks'[i].since
      BY MovedRow
    <1>2. i \in DOMAIN tasks /\ tasks[i].status # "deleted" /\ status # "deleted"
      BY DEF Rows, TaskStatus, Closing
    <1>3. Rows' = Rows
      BY <1>1, <1>2 DEF Rows
    <1>4. DoneByNow'
      BY <1>1, <1>3 DEF TasksInv, DoneByNow, Rows
    <1>6. StampsAgree'
      BY <1>1, <1>3 DEF TasksInv, StampsAgree, Rows
    <1>7. ClosedOverChecklist'
      <2> SUFFICES ASSUME theCase = "closed", NEW j \in OpenRows', tasks'[j].scope = "case", tasks'[j].required
                   PROVE  tasks'[j].since
        BY DEF ClosedOverChecklist
      <2>1. j \in Rows /\ tasks'[j].status \notin Closing
        BY <1>3 DEF OpenRows
      <2>2. CASE j = i
        BY <2>1, <2>2, <1>1
      <2>3. CASE j # i
        <3>1. tasks'[j] = tasks[j]
          BY <2>1, <2>3, <1>1 DEF Rows
        <3>2. j \in OpenRows
          BY <2>1, <3>1 DEF OpenRows
        <3> QED
          BY <3>1, <3>2 DEF TasksInv, ClosedOverChecklist
      <2> QED
        BY <2>2, <2>3
    <1>8. NothingOrphaned'
      BY <1>1, <1>3 DEF TasksInv, NothingOrphaned, Rows
    <1> QED
      BY <1>1, <1>4, <1>6, <1>7, <1>8


(***************************************************************************)
(* The requests of the hands: one of them goes on, or none.                *)
(***************************************************************************)
LEMMA HandGoesOn ==
    ASSUME TasksInv, NEW p \in Hand, NEW c \in HandState, HandGoes(p, c), filed' \subseteq filed, UNCHANGED late,
           c.at = "insert" /\ c.scope # "case" => c.asked \subseteq c.left \cup c.made \cup c.there,
           c.at = "sweep" => \A k \in 1..3 : ~late /\ c.next > k => ChildTables[k] \notin filed'
    PROVE  hands' \in [Hand -> HandState] /\ ChoreNotSwallowed' /\ ClearBehind'
    <1>1. hands \in [Hand -> HandState] /\ hands' = [hands EXCEPT ![p] = c]
      BY DEF TasksInv, TasksTypes, HandGoes
    <1>2. hands' \in [Hand -> HandState] /\ hands'[p] = c /\ \A q \in Hand : q # p => hands'[q] = hands[q]
      BY <1>1
    <1>3. ChoreNotSwallowed'
      BY <1>2 DEF TasksInv, ChoreNotSwallowed
    <1>4. ClearBehind'
      BY <1>2 DEF TasksInv, ClearBehind
    <1> QED
      BY <1>2, <1>3, <1>4

LEMMA HandsAsTheyWere ==
    ASSUME TasksInv, UNCHANGED hands, filed' \subseteq filed, UNCHANGED late
    PROVE  hands' \in [Hand -> HandState] /\ ChoreNotSwallowed' /\ ClearBehind'
    BY DEF TasksInv, TasksTypes, ChoreNotSwallowed, ClearBehind

(***************************************************************************)
(* A step that touches a hand alone, or the day.                           *)
(***************************************************************************)
LEMMA RowsAsTheyWere ==
    ASSUME TasksInv, UNCHANGED <<theCase, filed, tasks, late>>, taskDay' \in {taskDay, taskDay + 1},
           taskDay' \in 1..LastTaskDay, hands' \in [Hand -> HandState] /\ ChoreNotSwallowed' /\ ClearBehind'
    PROVE  TasksInv'
    <1>1. Rows' = Rows /\ OpenRows' = OpenRows
      BY DEF Rows, OpenRows
    <1>2. TasksTypes'
      BY DEF TasksInv, TasksTypes
    <1>3. DoneByNow'
      <2> SUFFICES ASSUME NEW i \in Rows
                   PROVE  /\ tasks[i].done <= taskDay' /\ tasks[i].stamp <= taskDay'
                          /\ tasks[i].status = "cancelled" => tasks[i].cancelled
        BY <1>1 DEF DoneByNow
      <2>1. tasks[i].done \in 0..LastTaskDay /\ tasks[i].stamp \in 0..LastTaskDay /\ taskDay \in 1..LastTaskDay
        BY TaskRowTyped DEF TasksInv, TasksTypes, Rows
      <2>2. tasks[i].done <= taskDay /\ tasks[i].stamp <= taskDay
        BY DEF TasksInv, DoneByNow
      <2>3. tasks[i].done <= taskDay' /\ tasks[i].stamp <= taskDay'
        BY <2>1, <2>2, TasksAssumption
      <2> QED
        BY <2>3 DEF TasksInv, DoneByNow
    <1>4. StampsAgree'
      BY <1>1 DEF TasksInv, StampsAgree
    <1>5. ClosedOverChecklist' /\ NothingOrphaned'
      BY <1>1 DEF TasksInv, ClosedOverChecklist, NothingOrphaned
    <1> QED
      BY <1>2, <1>3, <1>4, <1>5 DEF TasksInv

LEMMA HandMoves ==
    ASSUME TasksInv, NEW p \in Hand, NEW c \in HandState, HandGoes(p, c),
           UNCHANGED <<taskDay, theCase, filed, tasks, late>>,
           c.at = "insert" /\ c.scope # "case" => c.asked \subseteq c.left \cup c.made \cup c.there,
           c.at = "sweep" => c.next = 1
    PROVE  TasksInv'
    <1>1. hands' \in [Hand -> HandState] /\ ChoreNotSwallowed' /\ ClearBehind'
      BY HandGoesOn
    <1> QED
      BY <1>1, RowsAsTheyWere DEF TasksInv, TasksTypes

LEMMA RestIsAHand == HandRests \in HandState /\ HandRests.at = "rest"
    BY DEF HandRests, HandState

(***************************************************************************)
(* Creating tasks.                                                         *)
(***************************************************************************)
LEMMA StartTasksKeeps ==
    ASSUME TasksInv, NEW p \in Hand, NEW scope \in Scopes, NEW titles \in SUBSET Title, StartTasks(p, scope, titles)
    PROVE  TasksInv'
    <1> DEFINE c == [at |-> "look", scope |-> scope, asked |-> titles]
    <1>1. c \in HandState /\ c.at = "look"
      BY DEF HandState, Looking
    <1>2. HandGoes(p, c) /\ UNCHANGED <<taskDay, theCase, filed, tasks, late>>
      BY DEF StartTasks
    <1> HIDE DEF c
    <1> QED
      BY <1>1, <1>2, HandMoves

LEMMA OpenTitles == ASSUME TasksInv, NEW scope PROVE TitlesOf(OpenRows, scope) \subseteq Title
    <1>1. \A i \in DOMAIN tasks : tasks[i].title \in Title
      BY TaskRowTyped DEF TasksInv, TasksTypes
    <1> QED
      BY <1>1 DEF TitlesOf, OpenRows, Rows

LEMMA LookedKeeps ==
    ASSUME TasksInv, NEW p \in Hand, hands[p].at = "look", NEW taken, Looked(p, taken),
           hands[p].scope # "case" => taken \subseteq TitlesOf(OpenRows, hands[p].scope),
           UNCHANGED <<taskDay, theCase, filed, tasks, late>>
    PROVE  TasksInv'
    <1>1. hands[p] \in Looking
      BY HandShapes DEF TasksInv, TasksTypes
    <1>2. hands[p].scope \in Scopes /\ hands[p].asked \in SUBSET Title
      BY <1>1 DEF Looking
    <1> DEFINE there == TitlesOf(OpenRows, hands[p].scope)
               c == [at |-> "insert", scope |-> hands[p].scope, asked |-> hands[p].asked, left |-> hands[p].asked \ taken,
                     made |-> {}, there |-> there, known |-> Len(tasks)]
    <1>3. there \in SUBSET Title
      BY OpenTitles
    <1>4. HandGoes(p, c)
      BY DEF Looked
    <1>5. hands[p].scope # "case" => taken \subseteq there
      OBVIOUS
    <1> HIDE DEF there
    <1>6. c \in Inserting
      <2>1. Len(tasks) \in Nat
        BY DEF TasksInv, TasksTypes
      <2> QED
        BY <1>2, <1>3, <2>1 DEF Inserting
    <1>7. c \in HandState /\ c.at = "insert"
      BY <1>6 DEF HandState
    <1>8. c.scope # "case" => c.asked \subseteq c.left \cup c.made \cup c.there
      BY <1>5
    <1> HIDE DEF c
    <1> QED
      BY <1>4, <1>7, <1>8, HandMoves

LEMMA LookTitlesKeeps == ASSUME TasksInv, NEW p \in Hand, LookTitles(p) PROVE TasksInv'
    <1>1. Looked(p, Taken(hands[p].scope)) /\ hands[p].at = "look" /\ UNCHANGED <<taskDay, theCase, filed, tasks, late>>
      BY DEF LookTitles
    <1>2. hands[p].scope # "case" => Taken(hands[p].scope) \subseteq TitlesOf(OpenRows, hands[p].scope)
      BY DEF Taken
    <1> QED
      BY <1>1, <1>2, LookedKeeps

LEMMA LookFailsKeeps == ASSUME TasksInv, NEW p \in Hand, LookFails(p) PROVE TasksInv'
    <1>1. hands[p].at = "look" /\ UNCHANGED <<taskDay, theCase, filed, tasks, late>>
      BY DEF LookFails
    <1>2. CASE HandGoes(p, HandRests)
      BY <1>1, <1>2, RestIsAHand, HandMoves
    <1>3. CASE Looked(p, {})
      BY <1>1, <1>3, LookedKeeps
    <1> QED
      BY <1>2, <1>3 DEF LookFails


LEMMA TasksMadeKeeps == ASSUME TasksInv, NEW p \in Hand, TasksMade(p) PROVE TasksInv'
    <1>1. HandGoes(p, HandRests) /\ UNCHANGED <<taskDay, theCase, filed, tasks, late>>
      BY DEF TasksMade
    <1> QED
      BY <1>1, RestIsAHand, HandMoves

LEMMA InsertingGoesOn ==
    ASSUME TasksInv, NEW p \in Hand, hands[p].at = "insert", NEW t \in hands[p].left
    PROVE  LET c == [hands[p] EXCEPT !.left = @ \ {t}, !.made = @ \cup {t}]
           IN  /\ c \in HandState /\ c.at = "insert"
               /\ c.scope # "case" => c.asked \subseteq c.left \cup c.made \cup c.there
               /\ t \in Title /\ hands[p].scope \in Scopes /\ hands[p].known \in Nat
    <1> DEFINE h == hands[p]
               c == [h EXCEPT !.left = @ \ {t}, !.made = @ \cup {t}]
    <1>1. h \in Inserting
      BY HandShapes DEF TasksInv, TasksTypes
    <1>2. /\ h.scope \in Scopes /\ h.asked \in SUBSET Title /\ h.left \in SUBSET Title /\ h.made \in SUBSET Title
          /\ h.there \in SUBSET Title /\ h.known \in Nat
      BY <1>1 DEF Inserting
    <1>3. h.scope # "case" => h.asked \subseteq h.left \cup h.made \cup h.there
      BY DEF TasksInv, ChoreNotSwallowed
    <1> HIDE DEF h
    <1>4. h.left \ {t} \in SUBSET Title /\ h.made \cup {t} \in SUBSET Title /\ t \in h.left
      BY <1>2 DEF h
    <1>5. c \in Inserting
      BY <1>1, <1>4 DEF Inserting
    <1>6. c.scope = h.scope /\ c.asked = h.asked /\ c.there = h.there /\ c.left = h.left \ {t} /\ c.made = h.made \cup {t}
      BY <1>1 DEF Inserting
    <1>7. c \in HandState /\ c.at = "insert"
      BY <1>5 DEF HandState, Inserting
    <1>8. c.scope # "case" => c.asked \subseteq c.left \cup c.made \cup c.there
      BY <1>3, <1>6
    <1> QED
      BY <1>2, <1>4, <1>7, <1>8 DEF h

(***************************************************************************)
(* A row is added at the end.                                              *)
(***************************************************************************)
LEMMA EnteredKeeps ==
    ASSUME TasksInv, NEW p \in Hand, hands[p].at = "insert", NEW t \in hands[p].left,
           ~(hands[p].scope = "case" /\ theCase = "gone"), Entered(hands[p], t),
           HandGoes(p, [hands[p] EXCEPT !.left = @ \ {t}, !.made = @ \cup {t}]),
           UNCHANGED <<taskDay, theCase, filed, late>>
    PROVE  TasksInv'
    <1> DEFINE c == [hands[p] EXCEPT !.left = @ \ {t}, !.made = @ \cup {t}]
               scope == hands[p].scope
               row == [scope |-> scope, title |-> t, required |-> scope = "case" /\ t \in Checklist,
                       status |-> "not_started", stamp |-> 0, done |-> 0, cancelled |-> FALSE, since |-> theCase = "closed",
                       known |-> hands[p].known]
               n == Len(tasks) + 1
    <1>1. /\ c \in HandState /\ c.at = "insert" /\ HandGoes(p, c)
          /\ c.scope # "case" => c.asked \subseteq c.left \cup c.made \cup c.there
          /\ t \in Title /\ scope \in Scopes /\ hands[p].known \in Nat
      BY InsertingGoesOn
    <1>2. hands' \in [Hand -> HandState] /\ ChoreNotSwallowed' /\ ClearBehind'
      <2> HIDE DEF c
      <2> QED
        BY <1>1, HandGoesOn
    <1> HIDE DEF c
    <1>3. tasks' = Append(tasks, row)
      BY DEF Entered
    <1>4. tasks \in Seq(TaskRow) /\ taskDay \in 1..LastTaskDay /\ LastTaskDay \in Nat
      BY TasksAssumption DEF TasksInv, TasksTypes
    <1>5. /\ row.scope = scope /\ row.title = t /\ row.status = "not_started" /\ row.stamp = 0 /\ row.done = 0
          /\ row.required = (scope = "case" /\ t \in Checklist) /\ row.since = (theCase = "closed") /\ row.cancelled = FALSE
      OBVIOUS
    <1>6. row \in TaskRow
      <2>1. ASSUME NEW required \in BOOLEAN, NEW since \in BOOLEAN
            PROVE  [scope |-> scope, title |-> t, required |-> required,
                       status |-> "not_started", stamp |-> 0, done |-> 0, cancelled |-> FALSE, since |-> since,
                       known |-> hands[p].known] \in TaskRow
        BY <1>1, <1>4 DEF TaskRow, TaskStatus
      <2>2. (scope = "case" /\ t \in Checklist) \in BOOLEAN /\ (theCase = "closed") \in BOOLEAN
        OBVIOUS
      <2> QED
        BY <2>1, <2>2
    <1> HIDE DEF row
    <1>7. /\ tasks' \in Seq(TaskRow) /\ DOMAIN tasks' = DOMAIN tasks \cup {n} /\ n \notin DOMAIN tasks
          /\ tasks'[n] = row /\ \A j \in DOMAIN tasks : tasks'[j] = tasks[j]
      BY <1>3, <1>4, <1>6
    <1> HIDE DEF n
    <1>8. Rows' = Rows \cup {n} /\ n \notin Rows
      BY <1>5, <1>7 DEF Rows
    <1>9. TasksTypes'
      BY <1>1, <1>2, <1>3, <1>7 DEF TasksInv, TasksTypes
    <1>10. DoneByNow'
      <2> SUFFICES ASSUME NEW i \in Rows'
                   PROVE  /\ tasks'[i].done <= taskDay /\ tasks'[i].stamp <= taskDay
                          /\ tasks'[i].status = "cancelled" => tasks'[i].cancelled
        BY DEF DoneByNow
      <2>1. CASE i = n
        BY <2>1, <1>4, <1>5, <1>7
      <2>2. CASE i \in Rows
        BY <2>2, <1>7 DEF TasksInv, DoneByNow, Rows
      <2> QED
        BY <2>1, <2>2, <1>8
    <1>12. StampsAgree'
      <2> SUFFICES ASSUME NEW i \in Rows'
                   PROVE  /\ tasks'[i].status \notin Closing => tasks'[i].stamp = 0
                          /\ tasks'[i].status = "completed" => (tasks'[i].stamp # 0 /\ (tasks'[i].cancelled \/ tasks'[i].stamp >= tasks'[i].done))
        BY DEF StampsAgree
      <2>1. CASE i = n
        BY <2>1, <1>5, <1>7
      <2>2. CASE i \in Rows
        BY <2>2, <1>7 DEF TasksInv, StampsAgree, Rows
      <2> QED
        BY <2>1, <2>2, <1>8
    <1>13. ClosedOverChecklist'
      <2> SUFFICES ASSUME theCase = "closed", NEW i \in OpenRows', tasks'[i].scope = "case", tasks'[i].required
                   PROVE  tasks'[i].since
        BY DEF ClosedOverChecklist
      <2>1. i \in Rows' /\ tasks'[i].status \notin Closing
        BY DEF OpenRows
      <2>2. CASE i = n
        BY <2>2, <1>5, <1>7
      <2>3. CASE i \in Rows
        <3>1. tasks'[i] = tasks[i]
          BY <2>3, <1>7 DEF Rows
        <3> QED
          BY <2>1, <2>3, <3>1 DEF TasksInv, ClosedOverChecklist, OpenRows
      <2> QED
        BY <2>1, <2>2, <2>3, <1>8
    <1>14. NothingOrphaned'
      <2> SUFFICES ASSUME theCase = "gone", ~late PROVE filed = {} /\ \A i \in Rows' : tasks'[i].scope # "case"
        BY DEF NothingOrphaned
      <2>1. scope # "case" /\ filed = {} /\ \A i \in Rows : tasks[i].scope # "case"
        BY DEF TasksInv, NothingOrphaned
      <2> QED
        BY <2>1, <1>5, <1>7, <1>8 DEF Rows
    <1> QED
      BY <1>2, <1>9, <1>10, <1>12, <1>13, <1>14 DEF TasksInv

LEMMA InsertTaskKeeps == ASSUME TasksInv, NEW p \in Hand, InsertTask(p) PROVE TasksInv'
    <1>1. hands[p].at = "insert" /\ UNCHANGED <<taskDay, theCase, filed, late>>
      BY DEF InsertTask
    <1>2. PICK t \in hands[p].left :
             IF hands[p].scope = "case" /\ theCase = "gone" THEN HandGoes(p, HandRests) /\ UNCHANGED tasks
             ELSE Entered(hands[p], t) /\ HandGoes(p, [hands[p] EXCEPT !.left = @ \ {t}, !.made = @ \cup {t}])
      BY DEF InsertTask
    <1>3. CASE hands[p].scope = "case" /\ theCase = "gone"
      BY <1>1, <1>2, <1>3, RestIsAHand, HandMoves
    <1>4. CASE ~(hands[p].scope = "case" /\ theCase = "gone")
      BY <1>1, <1>2, <1>4, EnteredKeeps
    <1> QED
      BY <1>3, <1>4


(***************************************************************************)
(* The life of a task.                                                     *)
(***************************************************************************)
LEMMA UpdateTaskKeeps ==
    ASSUME TasksInv, NEW i \in DOMAIN tasks, NEW status \in TaskStatus, UpdateTask(i, status)
    PROVE  TasksInv'
    <1> DEFINE stamp == IF status \in Closing THEN taskDay ELSE 0
    <1>1. i \in Rows /\ Moved(i, status, stamp) /\ UNCHANGED <<taskDay, theCase, filed, hands, late>>
      BY DEF UpdateTask
    <1>2. taskDay \in 1..LastTaskDay /\ LastTaskDay \in Nat
      BY TasksAssumption DEF TasksInv, TasksTypes
    <1>3. /\ stamp \in 0..LastTaskDay /\ stamp <= taskDay
          /\ status \notin Closing => stamp = 0
          /\ status = "cancelled" => stamp = taskDay
          /\ status = "completed" => stamp = taskDay
      BY <1>2 DEF Closing
    <1> HIDE DEF stamp
    <1>4. tasks' \in Seq(TaskRow) /\ DoneByNow' /\ StampsAgree' /\ ClosedOverChecklist' /\ NothingOrphaned'
      BY <1>1, <1>3, MovedKeeps
    <1>5. hands' \in [Hand -> HandState] /\ ChoreNotSwallowed' /\ ClearBehind'
      <2>1. UNCHANGED hands /\ filed' \subseteq filed /\ UNCHANGED late
        BY <1>1
      <2> QED
        BY <2>1, HandsAsTheyWere
    <1> QED
      BY <1>1, <1>4, <1>5 DEF TasksInv, TasksTypes

LEMMA ListTasksKeeps == ASSUME TasksInv, NEW p \in Hand, ListTasks(p) PROVE TasksInv'
    <1> DEFINE c == [at |-> "list", listed |-> OpenRows]
    <1>1. OpenRows \in SUBSET Nat
      BY DEF OpenRows, Rows, TasksInv, TasksTypes
    <1>2. c \in HandState /\ c.at = "list"
      BY <1>1 DEF HandState, Listing
    <1>3. HandGoes(p, c) /\ UNCHANGED <<taskDay, theCase, filed, tasks, late>>
      BY DEF ListTasks
    <1> HIDE DEF c
    <1> QED
      BY <1>2, <1>3, HandMoves

LEMMA CompleteTaskKeeps == ASSUME TasksInv, NEW p \in Hand, CompleteTask(p) PROVE TasksInv'
    <1>1. HandGoes(p, HandRests) /\ UNCHANGED <<taskDay, theCase, filed, late>>
      BY DEF CompleteTask
    <1>2. PICK i \in hands[p].listed : IF i \in Rows THEN Moved(i, "completed", tasks[i].stamp) ELSE UNCHANGED tasks
      BY DEF CompleteTask
    <1>3. CASE i \notin Rows
      BY <1>1, <1>2, <1>3, RestIsAHand, HandMoves
    <1>4. CASE i \in Rows
      <2>1. tasks[i].stamp \in 0..LastTaskDay /\ tasks[i].stamp <= taskDay
        BY <1>4, TaskRowTyped DEF TasksInv, TasksTypes, DoneByNow, Rows
      <2>2. "completed" \in TaskStatus /\ "completed" \in Closing
        BY DEF TaskStatus, Closing
      <2>3. tasks' \in Seq(TaskRow) /\ DoneByNow' /\ StampsAgree' /\ ClosedOverChecklist' /\ NothingOrphaned'
        BY <1>1, <1>2, <1>4, <2>1, <2>2, MovedKeeps
      <2>4. hands' \in [Hand -> HandState] /\ ChoreNotSwallowed' /\ ClearBehind'
        BY <1>1, RestIsAHand, HandGoesOn
      <2> QED
        BY <1>1, <2>3, <2>4 DEF TasksInv, TasksTypes
    <1> QED
      BY <1>3, <1>4

(***************************************************************************)
(* Rows are deleted; what is left is as it was.                            *)
(***************************************************************************)
LEMMA RowsDeleted ==
    ASSUME TasksInv, DOMAIN tasks' = DOMAIN tasks,
           \A j \in DOMAIN tasks : tasks'[j] = tasks[j] \/ tasks'[j].status = "deleted",
           UNCHANGED taskDay, theCase' \in {theCase, "gone"}
    PROVE  Rows' \subseteq Rows /\ DoneByNow' /\ StampsAgree' /\ ClosedOverChecklist'
    <1>1. Rows' \subseteq Rows /\ \A j \in Rows' : tasks'[j] = tasks[j]
      BY DEF Rows
    <1>2. DoneByNow' /\ StampsAgree'
      BY <1>1 DEF TasksInv, DoneByNow, StampsAgree
    <1>4. ClosedOverChecklist'
      BY <1>1 DEF TasksInv, ClosedOverChecklist, OpenRows
    <1> QED
      BY <1>1, <1>2, <1>4

LEMMA DeletedRow == ASSUME NEW row \in TaskRow PROVE [row EXCEPT !.status = "deleted"] \in TaskRow
    BY DEF TaskRow

LEMMA DeleteTaskKeeps == ASSUME TasksInv, NEW i \in DOMAIN tasks, DeleteTask(i) PROVE TasksInv'
    <1> DEFINE row == [tasks[i] EXCEPT !.status = "deleted"]
    <1>1. tasks' = [tasks EXCEPT ![i] = row] /\ UNCHANGED <<taskDay, theCase, filed, hands, late>>
      BY DEF DeleteTask
    <1>2. tasks \in Seq(TaskRow) /\ tasks[i] \in TaskRow
      BY TaskRowTyped DEF TasksInv, TasksTypes
    <1>3. row \in TaskRow
      BY <1>2, DeletedRow
    <1>4. row.status = "deleted"
      BY <1>2 DEF TaskRow
    <1> HIDE DEF row
    <1>5. /\ tasks' \in Seq(TaskRow) /\ DOMAIN tasks' = DOMAIN tasks
          /\ \A j \in DOMAIN tasks : tasks'[j] = tasks[j] \/ tasks'[j].status = "deleted"
      BY <1>1, <1>2, <1>3, <1>4
    <1>6. Rows' \subseteq Rows /\ DoneByNow' /\ StampsAgree' /\ ClosedOverChecklist'
      BY <1>1, <1>5, RowsDeleted
    <1>7. NothingOrphaned'
      BY <1>1, <1>5, <1>6 DEF TasksInv, NothingOrphaned, Rows
    <1>8. hands' \in [Hand -> HandState] /\ ChoreNotSwallowed' /\ ClearBehind'
      <2>1. UNCHANGED hands /\ filed' \subseteq filed /\ UNCHANGED late
        BY <1>1
      <2> QED
        BY <2>1, HandsAsTheyWere
    <1> QED
      BY <1>1, <1>5, <1>6, <1>7, <1>8 DEF TasksInv, TasksTypes

(***************************************************************************)
(* The end of the case.                                                    *)
(***************************************************************************)
LEMMA CloseCaseRowKeeps == ASSUME TasksInv, CloseCaseRow PROVE TasksInv'
    <1>1. UNCHANGED <<taskDay, filed, tasks, hands, late>> /\ theCase' = "closed"
      BY DEF CloseCaseRow
    <1>2. Rows' = Rows /\ OpenRows' = OpenRows
      BY <1>1 DEF Rows, OpenRows
    <1>3. TasksTypes' /\ DoneByNow' /\ ClearBehind' /\ ChoreNotSwallowed'
      BY <1>1, <1>2 DEF TasksInv, TasksTypes, DoneByNow, ClearBehind, ChoreNotSwallowed
    <1>4. StampsAgree'
      BY <1>1, <1>2 DEF TasksInv, StampsAgree
    <1>5. ClosedOverChecklist'
      BY <1>1, <1>2 DEF CloseCaseRow, Closable, ClosedOverChecklist
    <1>6. NothingOrphaned'
      BY <1>1 DEF NothingOrphaned
    <1> QED
      BY <1>3, <1>4, <1>5, <1>6 DEF TasksInv

LEMMA StartDeleteKeeps == ASSUME TasksInv, NEW p \in Hand, StartDelete(p) PROVE TasksInv'
    <1> DEFINE c == [at |-> "sweep", next |-> 1]
    <1>1. c \in HandState /\ c.at = "sweep" /\ c.next = 1
      BY DEF HandState, Sweeping
    <1>2. HandGoes(p, c) /\ UNCHANGED <<taskDay, theCase, filed, tasks, late>>
      BY DEF StartDelete
    <1> HIDE DEF c
    <1> QED
      BY <1>1, <1>2, HandMoves

\* The n-th request clears the n-th table, and the fifth the case itself.
LEMMA SweepTableKeeps == ASSUME TasksInv, NEW p \in Hand, SweepTable(p) PROVE TasksInv'
    <1> DEFINE c == hands[p]
               n == c.next
               d == IF n = 5 THEN HandRests ELSE [c EXCEPT !.next = @ + 1]
    <1>1. c.at = "sweep" /\ c \in Sweeping /\ n \in 1..5
      <2>1. c.at = "sweep" /\ c \in HandState
        BY DEF SweepTable, TasksInv, TasksTypes
      <2> QED
        BY <2>1, HandShapes DEF Sweeping
    <1>2. /\ HandGoes(p, d) /\ UNCHANGED <<taskDay, late>>
          /\ filed' = filed \ {IF n < 5 THEN ChildTables[n] ELSE "details"}
          /\ theCase' = IF n = 5 THEN "gone" ELSE theCase
          /\ tasks' = IF n \in {4, 5} THEN CaseRowsGone ELSE tasks
      BY DEF SweepTable, SweepNext
    <1>3. /\ n # 5 => d \in Sweeping /\ d.at = "sweep" /\ d.next = n + 1
          /\ n = 5 => d \in HandState /\ d.at = "rest"
      <2>1. ASSUME n # 5 PROVE [c EXCEPT !.next = @ + 1] \in Sweeping /\ [c EXCEPT !.next = @ + 1].next = n + 1
        <3>1. PICK k \in 1..5 : k = n + 1
          BY <1>1, <2>1
        <3> QED
          BY <1>1, <3>1 DEF Sweeping
      <2>2. \A e \in Sweeping : e.at = "sweep"
        BY DEF Sweeping
      <2> QED
        BY <2>1, <2>2, RestIsAHand
    <1>4. d \in HandState /\ d.at # "insert"
      BY <1>3 DEF HandState
    <1>5. d.at = "sweep" => \A k \in 1..3 : ~late /\ d.next > k => ChildTables[k] \notin filed'
      <2> SUFFICES ASSUME d.at = "sweep", NEW k \in 1..3, ~late, d.next > k PROVE ChildTables[k] \notin filed'
        OBVIOUS
      <2>1. n # 5 /\ n + 1 > k
        BY <1>3
      <2>2. CASE n = k
        BY <1>2, <2>1, <2>2
      <2>3. CASE n > k
        BY <1>1, <1>2, <2>3 DEF TasksInv, ClearBehind
      <2> QED
        BY <1>1, <2>1, <2>2, <2>3
    <1>6. filed' \subseteq filed
      BY <1>2
    <1>7. hands' \in [Hand -> HandState] /\ ChoreNotSwallowed' /\ ClearBehind'
      <2> HIDE DEF d
      <2> QED
        BY <1>2, <1>4, <1>5, <1>6, HandGoesOn
    <1> HIDE DEF d
    <1>8. /\ tasks' \in Seq(TaskRow) /\ DOMAIN tasks' = DOMAIN tasks
          /\ \A j \in DOMAIN tasks : tasks'[j] = tasks[j] \/ tasks'[j].status = "deleted"
          /\ n = 5 => \A j \in Rows' : tasks'[j].scope # "case"
      <2>1. tasks \in Seq(TaskRow) /\ \A j \in DOMAIN tasks : tasks[j] \in TaskRow
        BY TaskRowTyped DEF TasksInv, TasksTypes
      <2>2. CASE n \in {4, 5}
        <3>1. tasks' = CaseRowsGone
          BY <1>2, <2>2
        <3>2. \A j \in DOMAIN tasks : /\ CaseRowsGone[j] \in TaskRow
                                      /\ CaseRowsGone[j] = tasks[j] \/ CaseRowsGone[j].status = "deleted"
                                      /\ CaseRowsGone[j].status # "deleted" => CaseRowsGone[j].scope # "case"
          <4> TAKE j \in DOMAIN tasks
          <4>1. CaseRowsGone[j] = IF tasks[j].scope = "case" THEN [tasks[j] EXCEPT !.status = "deleted"] ELSE tasks[j]
            BY DEF CaseRowsGone
          <4>2. [tasks[j] EXCEPT !.status = "deleted"].status = "deleted"
            BY <2>1 DEF TaskRow
          <4> QED
            BY <2>1, <4>1, <4>2, DeletedRow
        <3>3. CaseRowsGone \in Seq(TaskRow) /\ DOMAIN CaseRowsGone = DOMAIN tasks
          <4>1. DOMAIN tasks = 1..Len(tasks) /\ Len(tasks) \in Nat /\ DOMAIN CaseRowsGone = DOMAIN tasks
            BY <2>1 DEF CaseRowsGone
          <4>2. CaseRowsGone \in [1..Len(tasks) -> TaskRow]
            BY <3>2, <4>1 DEF CaseRowsGone
          <4> QED
            BY <4>1, <4>2
        <3> QED
          BY <3>1, <3>2, <3>3 DEF Rows
      <2>3. CASE n \notin {4, 5}
        BY <2>1, <2>3, <1>2
      <2> QED
        BY <2>2, <2>3
    <1>9. Rows' \subseteq Rows /\ DoneByNow' /\ StampsAgree' /\ ClosedOverChecklist'
      BY <1>2, <1>8, RowsDeleted
    <1>10. NothingOrphaned'
      <2> SUFFICES ASSUME theCase' = "gone", ~late PROVE filed' = {} /\ \A i \in Rows' : tasks'[i].scope # "case"
        BY <1>2 DEF NothingOrphaned
      <2>1. CASE theCase = "gone"
        <3>1. filed = {} /\ \A i \in Rows : tasks[i].scope # "case"
          BY <2>1 DEF TasksInv, NothingOrphaned
        <3>2. \A i \in Rows' : i \in Rows /\ tasks'[i] = tasks[i]
          BY <1>8 DEF Rows
        <3> QED
          BY <3>1, <3>2, <1>6
      <2>2. CASE theCase # "gone"
        <3>1. n = 5
          BY <2>2, <1>2
        <3>2. ChildTables[1] \notin filed /\ ChildTables[2] \notin filed /\ ChildTables[3] \notin filed
          BY <1>1, <3>1 DEF TasksInv, ClearBehind
        <3>3. filed = {}
          BY <3>2 DEF ChildTables, TasksInv, TasksTypes
        <3> QED
          BY <3>1, <3>3, <1>6, <1>8
      <2> QED
        BY <2>1, <2>2
    <1>11. TasksTypes'
      BY <1>2, <1>6, <1>7, <1>8 DEF TasksInv, TasksTypes
    <1> QED
      BY <1>7, <1>9, <1>10, <1>11 DEF TasksInv

LEMMA FileUnderCaseKeeps == ASSUME TasksInv, NEW table \in {"links", "events"}, FileUnderCase(table) PROVE TasksInv'
    <1>1. /\ UNCHANGED <<taskDay, theCase, tasks, hands>> /\ filed' = filed \cup {table}
          /\ late' = (late \/ theCase = "gone" \/ \E p \in Hand : hands[p].at = "sweep")
      BY DEF FileUnderCase
    <1>2. Rows' = Rows /\ OpenRows' = OpenRows
      BY <1>1 DEF Rows, OpenRows
    <1>3. TasksTypes'
      BY <1>1 DEF TasksInv, TasksTypes
    <1>4. DoneByNow' /\ ChoreNotSwallowed' /\ StampsAgree' /\ ClosedOverChecklist'
      BY <1>1, <1>2 DEF TasksInv, DoneByNow, ChoreNotSwallowed, StampsAgree, ClosedOverChecklist
    <1>5. ClearBehind' /\ NothingOrphaned'
      BY <1>1 DEF ClearBehind, NothingOrphaned
    <1> QED
      BY <1>3, <1>4, <1>5 DEF TasksInv

-----------------------------------------------------------------------------

LEMMA TasksStep == ASSUME TasksInv, [TasksNext]_taskVars PROVE TasksInv'
    <1>1. CASE UNCHANGED taskVars
      <2>1. UNCHANGED <<taskDay, theCase, filed, tasks, hands, late>>
        BY <1>1 DEF taskVars
      <2>2. hands' \in [Hand -> HandState] /\ ChoreNotSwallowed' /\ ClearBehind'
        BY <2>1, HandsAsTheyWere
      <2> QED
        BY <2>1, <2>2, RowsAsTheyWere DEF TasksInv, TasksTypes
    <1>2. CASE NextTaskDay
      <2>1. /\ UNCHANGED <<theCase, filed, tasks, hands, late>> /\ taskDay' = taskDay + 1
            /\ taskDay' \in 1..LastTaskDay
        BY <1>2, TasksAssumption DEF NextTaskDay, TasksInv, TasksTypes
      <2>2. hands' \in [Hand -> HandState] /\ ChoreNotSwallowed' /\ ClearBehind'
        BY <2>1, HandsAsTheyWere
      <2> QED
        BY <2>1, <2>2, RowsAsTheyWere
    <1>3. CASE CloseCaseRow
      BY <1>3, CloseCaseRowKeeps
    <1>4. CASE \E i \in DOMAIN tasks : DeleteTask(i) \/ \E s \in TaskStatus : UpdateTask(i, s)
      BY <1>4, DeleteTaskKeeps, UpdateTaskKeeps
    <1>5. CASE \E table \in {"links", "events"} : FileUnderCase(table)
      BY <1>5, FileUnderCaseKeeps
    <1>6. ASSUME NEW p \in Hand,
                 \/ \E scope \in Scopes, titles \in (SUBSET Title) \ {{}} : StartTasks(p, scope, titles)
                 \/ LookTitles(p) \/ LookFails(p) \/ InsertTask(p) \/ TasksMade(p)
                 \/ ListTasks(p) \/ CompleteTask(p) \/ StartDelete(p) \/ SweepTable(p) \/ HandStops(p)
          PROVE  TasksInv'
      <2>1. CASE \E scope \in Scopes, titles \in (SUBSET Title) \ {{}} : StartTasks(p, scope, titles)
        BY <2>1, StartTasksKeeps
      <2>2. CASE LookTitles(p) \/ LookFails(p) \/ InsertTask(p) \/ TasksMade(p)
        BY <2>2, LookTitlesKeeps, LookFailsKeeps, InsertTaskKeeps, TasksMadeKeeps
      <2>3. CASE ListTasks(p) \/ CompleteTask(p) \/ StartDelete(p) \/ SweepTable(p)
        BY <2>3, ListTasksKeeps, CompleteTaskKeeps, StartDeleteKeeps, SweepTableKeeps
      <2>4. CASE HandStops(p)
        <3>1. HandGoes(p, HandRests) /\ UNCHANGED <<taskDay, theCase, filed, tasks, late>>
          BY <2>4 DEF HandStops
        <3> QED
          BY <3>1, RestIsAHand, HandMoves
      <2> QED
        BY <1>6, <2>1, <2>2, <2>3, <2>4
    <1> QED
      BY <1>1, <1>2, <1>3, <1>4, <1>5, <1>6 DEF TasksNext

LEMMA TasksStart == TasksInit => TasksInv
    <1> SUFFICES ASSUME TasksInit PROVE TasksInv
      OBVIOUS
    <1>1. /\ taskDay = 1 /\ theCase = "open" /\ filed = {"events", "details"} /\ tasks = <<>>
          /\ \A p \in Hand : hands[p] = HandRests
          /\ hands \in [Hand -> HandState] /\ late = FALSE
      BY RestIsAHand DEF TasksInit
    <1>2. Rows = {} /\ OpenRows = {}
      BY <1>1 DEF Rows, OpenRows
    <1>3. tasks \in Seq(TaskRow)
      BY <1>1
    <1>4. TasksTypes
      <2>1. taskDay \in 1..LastTaskDay
        BY <1>1, TasksAssumption
      <2>2. late \in BOOLEAN
        BY <1>1
      <2> QED
        BY <1>1, <1>3, <2>1, <2>2 DEF TasksTypes
    <1>5. DoneByNow /\ StampsAgree
      BY <1>2 DEF DoneByNow, StampsAgree
    <1>6. ClosedOverChecklist /\ NothingOrphaned
      BY <1>1 DEF ClosedOverChecklist, NothingOrphaned
    <1>7. ClearBehind /\ ChoreNotSwallowed
      BY <1>1, RestIsAHand DEF ClearBehind, ChoreNotSwallowed
    <1> QED
      BY <1>4, <1>5, <1>6, <1>7 DEF TasksInv

(***************************************************************************)
(* The titles of a case.  Whoever is about to insert one knows the rows    *)
(* that were there at the look: none of them has a title that is left.     *)
(***************************************************************************)
KnowsTitles(h) ==
    h.at = "insert" =>
        /\ h.known \in {0} \cup DOMAIN tasks
        /\ h.scope = "case" => \A i \in Rows : i <= h.known /\ tasks[i].scope = "case" => tasks[i].title \notin h.left

Informed == \A p \in Hand : KnowsTitles(hands[p])

TitlesInv == TitlesOnce /\ Informed

\* What rows are left keep their titles, and a hand that is about to insert is the one it was.
TitlesStay ==
    /\ DOMAIN tasks' = DOMAIN tasks /\ Rows' \subseteq Rows
    /\ \A i \in Rows' : /\ tasks'[i].scope = tasks[i].scope /\ tasks'[i].title = tasks[i].title
                        /\ tasks'[i].known = tasks[i].known

LEMMA TitlesKept ==
    ASSUME TitlesInv, TitlesStay, \A p \in Hand : hands'[p] = hands[p] \/ hands'[p].at # "insert"
    PROVE  TitlesInv'
    <1>1. TitlesOnce'
      BY DEF TitlesInv, TitlesOnce, TitlesStay
    <1>2. ASSUME NEW p \in Hand PROVE KnowsTitles(hands[p])'
      <2>1. CASE hands'[p].at # "insert"
        BY <2>1 DEF KnowsTitles
      <2>2. CASE hands'[p] = hands[p]
        BY <2>2 DEF TitlesInv, Informed, KnowsTitles, TitlesStay
      <2> QED
        BY <1>2, <2>1, <2>2
    <1> QED
      BY <1>1, <1>2 DEF TitlesInv, Informed

\* A hand goes on, away from inserting, or no hand does.
LEMMA AwayFromInsert ==
    ASSUME TasksInv, NEW p \in Hand, NEW c, HandGoes(p, c), c.at # "insert"
    PROVE  \A q \in Hand : hands'[q] = hands[q] \/ hands'[q].at # "insert"
    BY DEF HandGoes, TasksInv, TasksTypes

LEMMA MovedTitles ==
    ASSUME TasksInv, NEW i \in Rows, NEW status \in TaskStatus, NEW stamp, Moved(i, status, stamp)
    PROVE  TitlesStay
    <1> DEFINE t == tasks[i]
               row == [t EXCEPT !.status = status, !.stamp = Stamped(t.status, status, stamp),
                          !.done = IF status = "completed" /\ t.status # "completed" THEN taskDay ELSE @,
                          !.cancelled = @ \/ status = "cancelled", !.since = @ \/ (theCase = "closed" /\ status \notin Closing)]
    <1>1. tasks' = [tasks EXCEPT ![i] = row] /\ i \in DOMAIN tasks /\ t \in TaskRow
      BY TaskRowTyped DEF Moved, Rows, TasksInv, TasksTypes
    <1>2. row.scope = t.scope /\ row.title = t.title /\ row.known = t.known
      BY <1>1 DEF TaskRow
    <1> HIDE DEF row
    <1>3. DOMAIN tasks' = DOMAIN tasks /\ tasks'[i] = row /\ \A j \in DOMAIN tasks : j # i => tasks'[j] = tasks[j]
      BY <1>1
    <1>4. Rows' \subseteq Rows
      BY <1>1, <1>3 DEF Rows
    <1>5. \A j \in Rows' : /\ tasks'[j].scope = tasks[j].scope /\ tasks'[j].title = tasks[j].title
                           /\ tasks'[j].known = tasks[j].known
      BY <1>2, <1>3 DEF Rows
    <1> QED
      BY <1>3, <1>4, <1>5 DEF TitlesStay

\* Rows that are deleted take their titles with them.
LEMMA DeletedTitles ==
    ASSUME DOMAIN tasks' = DOMAIN tasks,
           \A j \in DOMAIN tasks : tasks'[j] = tasks[j] \/ tasks'[j].status = "deleted"
    PROVE  TitlesStay
    BY DEF TitlesStay, Rows

\* Who looks at a case knows every title in it.
LEMMA LookedInforms ==
    ASSUME TasksInv, TitlesInv, NEW p \in Hand, NEW taken, Looked(p, taken), UNCHANGED tasks,
           hands[p].scope = "case" => taken = TitlesOf(Rows, "case")
    PROVE  TitlesInv'
    <1> DEFINE h == hands[p]
               c == [at |-> "insert", scope |-> h.scope, asked |-> h.asked, left |-> h.asked \ taken, made |-> {},
                     there |-> TitlesOf(OpenRows, h.scope), known |-> Len(tasks)]
    <1>1. hands' = [hands EXCEPT ![p] = c] /\ hands \in [Hand -> HandState] /\ tasks \in Seq(TaskRow)
      BY DEF Looked, HandGoes, TasksInv, TasksTypes
    <1>2. c.at = "insert" /\ c.scope = h.scope /\ c.left = h.asked \ taken /\ c.known = Len(tasks)
      OBVIOUS
    <1>3. Len(tasks) \in {0} \cup DOMAIN tasks
      BY <1>1
    <1> HIDE DEF c
    <1>4. hands'[p] = c /\ \A q \in Hand : q # p => hands'[q] = hands[q]
      BY <1>1
    <1>5. Rows' = Rows
      BY DEF Rows
    <1>6. KnowsTitles(hands[p])'
      <2>1. ASSUME h.scope = "case", NEW i \in Rows, tasks[i].scope = "case" PROVE tasks[i].title \notin c.left
        BY <2>1, <1>2 DEF TitlesOf
      <2> QED
        BY <1>2, <1>3, <1>4, <1>5, <2>1 DEF KnowsTitles
    <1>7. \A q \in Hand : q # p => KnowsTitles(hands[q])'
      BY <1>4, <1>5 DEF TitlesInv, Informed, KnowsTitles
    <1>8. TitlesOnce'
      BY <1>5 DEF TitlesInv, TitlesOnce
    <1> QED
      BY <1>6, <1>7, <1>8 DEF TitlesInv, Informed

\* What is entered was not there for whoever enters it, and is one more for the others.
LEMMA EnteredOnce ==
    ASSUME TasksInv, TitlesInv, NEW p \in Hand, hands[p].at = "insert", NEW t \in hands[p].left, Entered(hands[p], t),
           HandGoes(p, [hands[p] EXCEPT !.left = @ \ {t}, !.made = @ \cup {t}])
    PROVE  TitlesInv'
    <1> DEFINE h == hands[p]
               c == [h EXCEPT !.left = @ \ {t}, !.made = @ \cup {t}]
               row == [scope |-> h.scope, title |-> t, required |-> h.scope = "case" /\ t \in Checklist,
                       status |-> "not_started", stamp |-> 0, done |-> 0, cancelled |-> FALSE, since |-> theCase = "closed",
                       known |-> h.known]
               n == Len(tasks) + 1
    <1>1. h \in Inserting /\ hands \in [Hand -> HandState] /\ tasks \in Seq(TaskRow)
      BY HandShapes DEF TasksInv, TasksTypes
    <1>2. c.at = "insert" /\ c.scope = h.scope /\ c.left = h.left \ {t} /\ c.known = h.known /\ h.known \in Nat
      BY <1>1 DEF Inserting
    <1>3. hands' = [hands EXCEPT ![p] = c] /\ tasks' = Append(tasks, row)
      BY DEF HandGoes, Entered
    <1>4. row.scope = h.scope /\ row.title = t /\ row.status = "not_started" /\ row.known = h.known
      OBVIOUS
    <1> HIDE DEF c, row
    <1>5. hands'[p] = c /\ \A q \in Hand : q # p => hands'[q] = hands[q]
      BY <1>1, <1>3
    <1>6. /\ DOMAIN tasks' = DOMAIN tasks \cup {n} /\ tasks'[n] = row /\ \A j \in DOMAIN tasks : tasks'[j] = tasks[j]
          /\ n \in Nat /\ 0 < n /\ \A j \in DOMAIN tasks : j \in Nat /\ j < n
      BY <1>1, <1>3
    <1> HIDE DEF n
    <1>7. Rows' = Rows \cup {n} /\ \A j \in Rows : j \in DOMAIN tasks /\ tasks'[j] = tasks[j]
      BY <1>4, <1>6 DEF Rows
    <1>8. KnowsTitles(h)
      BY DEF TitlesInv, Informed
    <1>9. TitlesOnce'
      <2> SUFFICES ASSUME NEW i \in Rows', NEW j \in Rows', i < j, tasks'[i].scope = "case", tasks'[j].scope = "case",
                          tasks'[i].title = tasks'[j].title
                   PROVE  tasks'[j].known < i
        BY DEF TitlesOnce
      <2>1. i \in Rows
        BY <1>6, <1>7
      <2>2. CASE j \in Rows
        BY <1>7, <2>1, <2>2 DEF TitlesInv, TitlesOnce
      <2>3. CASE j = n
        <3>1. h.scope = "case" /\ tasks[i].scope = "case" /\ tasks[i].title = t /\ tasks'[j].known = h.known
          BY <1>4, <1>6, <1>7, <2>1, <2>3
        <3>2. ~(i <= h.known)
          BY <1>8, <2>1, <3>1 DEF KnowsTitles
        <3> QED
          BY <1>2, <1>6, <1>7, <2>1, <3>1, <3>2
      <2> QED
        BY <1>7, <2>2, <2>3
    <1>10. ASSUME NEW q \in Hand PROVE KnowsTitles(hands[q])'
      <2> SUFFICES ASSUME hands'[q].at = "insert"
                   PROVE  /\ hands'[q].known \in {0} \cup DOMAIN tasks'
                          /\ hands'[q].scope = "case" => \A i \in Rows' : i <= hands'[q].known /\ tasks'[i].scope = "case"
                                                            => tasks'[i].title \notin hands'[q].left
        BY DEF KnowsTitles
      <2>1. /\ hands[q].at = "insert" /\ hands'[q].known = hands[q].known /\ hands'[q].scope = hands[q].scope
            /\ hands'[q].left \subseteq hands[q].left
        BY <1>2, <1>5
      <2>2. KnowsTitles(hands[q])
        BY DEF TitlesInv, Informed
      <2>3. hands[q].known \in {0} \cup DOMAIN tasks
        BY <2>1, <2>2 DEF KnowsTitles
      <2>4. ASSUME hands[q].scope = "case", NEW i \in Rows', i <= hands[q].known, tasks'[i].scope = "case"
            PROVE  tasks'[i].title \notin hands'[q].left
        <3>1. i # n
          <4>1. hands[q].known \in Nat /\ hands[q].known < n
            BY <1>6, <2>3
          <4> QED
            BY <1>6, <2>4, <4>1
        <3>2. i \in Rows /\ tasks'[i] = tasks[i]
          BY <1>7, <2>4, <3>1
        <3>3. tasks[i].title \notin hands[q].left
          BY <2>1, <2>2, <2>4, <3>2 DEF KnowsTitles
        <3> QED
          BY <2>1, <3>2, <3>3
      <2> QED
        BY <1>6, <2>1, <2>3, <2>4
    <1> QED
      BY <1>9, <1>10 DEF TitlesInv, Informed

LEMMA TitlesStep == ASSUME TasksInv, TitlesInv, [TasksNext]_taskVars PROVE TitlesInv'
    <1>1. HandRests.at = "rest"
      BY DEF HandRests
    <1>2. tasks' = tasks => TitlesStay
      BY DEF TitlesStay, Rows
    <1>3. CASE UNCHANGED taskVars \/ NextTaskDay \/ CloseCaseRow \/ \E table \in {"links", "events"} : FileUnderCase(table)
      <2>1. tasks' = tasks /\ hands' = hands
        BY <1>3 DEF taskVars, NextTaskDay, CloseCaseRow, FileUnderCase
      <2> QED
        BY <1>2, <2>1, TitlesKept
    <1>4. ASSUME NEW i \in DOMAIN tasks, DeleteTask(i) \/ \E s \in TaskStatus : UpdateTask(i, s) PROVE TitlesInv'
      <2>1. hands' = hands
        BY <1>4 DEF DeleteTask, UpdateTask
      <2>2. CASE DeleteTask(i)
        <3> DEFINE row == [tasks[i] EXCEPT !.status = "deleted"]
        <3>1. tasks[i] \in TaskRow /\ tasks' = [tasks EXCEPT ![i] = row]
          BY <1>4, <2>2, TaskRowTyped DEF DeleteTask, TasksInv, TasksTypes
        <3>2. row.status = "deleted"
          BY <3>1 DEF TaskRow
        <3> HIDE DEF row
        <3>3. DOMAIN tasks' = DOMAIN tasks /\ \A j \in DOMAIN tasks : tasks'[j] = tasks[j] \/ tasks'[j].status = "deleted"
          BY <3>1, <3>2
        <3> QED
          BY <2>1, <3>3, DeletedTitles, TitlesKept
      <2>3. CASE \E s \in TaskStatus : UpdateTask(i, s)
        BY <2>1, <2>3, MovedTitles, TitlesKept DEF UpdateTask
      <2> QED
        BY <1>4, <2>2, <2>3
    <1>5. ASSUME NEW p \in Hand, NEW c, HandGoes(p, c), c.at # "insert", UNCHANGED tasks PROVE TitlesInv'
      <2>1. \A q \in Hand : hands'[q] = hands[q] \/ hands'[q].at # "insert"
        BY <1>5, AwayFromInsert
      <2> QED
        BY <1>2, <1>5, <2>1, TitlesKept
    <1>6. ASSUME NEW p \in Hand, \E scope \in Scopes, titles \in (SUBSET Title) \ {{}} : StartTasks(p, scope, titles)
          PROVE  TitlesInv'
      <2>1. PICK scope \in Scopes, titles \in SUBSET Title : HandGoes(p, [at |-> "look", scope |-> scope, asked |-> titles])
        BY <1>6 DEF StartTasks
      <2>2. UNCHANGED tasks
        BY <1>6 DEF StartTasks
      <2> QED
        BY <1>5, <2>1, <2>2
    <1>7. ASSUME NEW p \in Hand, LookTitles(p) PROVE TitlesInv'
      BY <1>7, LookedInforms DEF LookTitles, Taken
    <1>8. ASSUME NEW p \in Hand, LookFails(p) PROVE TitlesInv'
      <2>1. CASE hands[p].scope = "case"
        BY <1>1, <1>5, <1>8, <2>1 DEF LookFails
      <2>2. CASE hands[p].scope # "case"
        BY <1>8, <2>2, LookedInforms DEF LookFails
      <2> QED
        BY <2>1, <2>2
    <1>9. ASSUME NEW p \in Hand, InsertTask(p) PROVE TitlesInv'
      <2>1. PICK t \in hands[p].left :
               IF hands[p].scope = "case" /\ theCase = "gone" THEN HandGoes(p, HandRests) /\ UNCHANGED tasks
               ELSE Entered(hands[p], t) /\ HandGoes(p, [hands[p] EXCEPT !.left = @ \ {t}, !.made = @ \cup {t}])
        BY <1>9 DEF InsertTask
      <2>2. hands[p].at = "insert"
        BY <1>9 DEF InsertTask
      <2>3. CASE hands[p].scope = "case" /\ theCase = "gone"
        BY <1>1, <1>5, <2>1, <2>3
      <2>4. CASE ~(hands[p].scope = "case" /\ theCase = "gone")
        BY <2>1, <2>2, <2>4, EnteredOnce
      <2> QED
        BY <2>3, <2>4
    <1>10. ASSUME NEW p \in Hand, TasksMade(p) \/ HandStops(p) PROVE TitlesInv'
      BY <1>1, <1>5, <1>10 DEF TasksMade, HandStops
    <1>11. ASSUME NEW p \in Hand, ListTasks(p) \/ StartDelete(p) PROVE TitlesInv'
      BY <1>5, <1>11 DEF ListTasks, StartDelete
    <1>12. ASSUME NEW p \in Hand, CompleteTask(p) PROVE TitlesInv'
      <2>1. HandGoes(p, HandRests)
        BY <1>12 DEF CompleteTask
      <2>2. PICK i \in hands[p].listed : IF i \in Rows THEN Moved(i, "completed", tasks[i].stamp) ELSE UNCHANGED tasks
        BY <1>12 DEF CompleteTask
      <2>3. CASE i \notin Rows
        BY <1>1, <1>5, <2>1, <2>2, <2>3
      <2>4. CASE i \in Rows
        <3>1. "completed" \in TaskStatus
          BY DEF TaskStatus, Closing
        <3>2. TitlesStay
          BY <2>2, <2>4, <3>1, MovedTitles
        <3> QED
          BY <1>1, <2>1, <3>2, AwayFromInsert, TitlesKept
      <2> QED
        BY <2>3, <2>4
    <1>13. ASSUME NEW p \in Hand, SweepTable(p) PROVE TitlesInv'
      <2> DEFINE d == IF hands[p].next = 5 THEN HandRests ELSE [hands[p] EXCEPT !.next = @ + 1]
      <2>1. HandGoes(p, d) /\ hands[p].at = "sweep" /\ (tasks' = tasks \/ tasks' = CaseRowsGone)
        BY <1>13 DEF SweepTable
      <2>2. hands[p] \in Sweeping
        BY <1>13, <2>1, HandShapes DEF TasksInv, TasksTypes
      <2>3. d.at # "insert"
        BY <1>1, <2>2 DEF Sweeping
      <2> HIDE DEF d
      <2>4. CASE tasks' = tasks
        BY <1>5, <1>13, <2>1, <2>3, <2>4
      <2>5. CASE tasks' = CaseRowsGone
        <3>1. \A j \in DOMAIN tasks : tasks[j] \in TaskRow
          BY TaskRowTyped DEF TasksInv, TasksTypes
        <3>2. \A j \in DOMAIN tasks : tasks'[j] = tasks[j] \/ tasks'[j].status = "deleted"
          BY <2>5, <3>1 DEF CaseRowsGone, TaskRow
        <3>3. DOMAIN tasks' = DOMAIN tasks
          BY <2>5 DEF CaseRowsGone
        <3> QED
          BY <1>13, <2>1, <2>3, <3>2, <3>3, DeletedTitles, AwayFromInsert, TitlesKept
      <2> QED
        BY <2>1, <2>4, <2>5
    <1> QED
      BY <1>3, <1>4, <1>6, <1>7, <1>8, <1>9, <1>10, <1>11, <1>12, <1>13 DEF TasksNext

LEMMA TitlesStart == TasksInit => TitlesInv
    <1> SUFFICES ASSUME TasksInit PROVE TitlesInv
      OBVIOUS
    <1>1. Rows = {} /\ \A p \in Hand : hands[p].at = "rest"
      BY RestIsAHand DEF TasksInit, Rows
    <1> QED
      BY <1>1 DEF TitlesInv, TitlesOnce, Informed, KnowsTitles

LEMMA TasksInvIsSafe == TasksInv /\ TitlesInv => TasksSafe
    <1> SUFFICES ASSUME TasksInv, TitlesInv PROVE TasksSafe
      OBVIOUS
    <1>1. TasksTypeOK
      BY TaskRowTyped DEF TasksInv, TasksTypes, TasksTypeOK
    <1>2. MovementSeen
      <2> SUFFICES ASSUME NEW i \in Rows, tasks[i].status = "completed", ~tasks[i].cancelled, taskDay - tasks[i].done <= MaxQuiet
                   PROVE  TaskVerdict = "ok"
        BY DEF MovementSeen
      <2>1. tasks[i].stamp # 0 /\ tasks[i].stamp >= tasks[i].done
        BY DEF TasksInv, StampsAgree
      <2>2. tasks[i].stamp \in 0..LastTaskDay /\ tasks[i].done \in 0..LastTaskDay /\ taskDay \in 1..LastTaskDay
        BY TaskRowTyped DEF TasksInv, TasksTypes, Rows
      <2>3. tasks[i].stamp \in Stamps /\ taskDay - tasks[i].stamp <= MaxQuiet
        BY <2>1, <2>2, TasksAssumption DEF Stamps
      <2> QED
        BY <2>3 DEF TaskVerdict
    <1> QED
      BY <1>1, <1>2 DEF TasksInv, TitlesInv, TasksSafe

(***************************************************************************)
(* Whichever hands create, complete, list or delete tasks and close or     *)
(* delete the case at the same time, and wherever one of them fails, the   *)
(* tasks agree with what was done (casestore.py, team_queue.py and the     *)
(* triggers of their tables).                                              *)
(***************************************************************************)
THEOREM TasksAreSafe == TasksSpec => []TasksSafe
    <1>1. TasksInit => TasksInv /\ TitlesInv
      BY TasksStart, TitlesStart
    <1>2. TasksInv /\ TitlesInv /\ [TasksNext]_taskVars => (TasksInv /\ TitlesInv)'
      BY TasksStep, TitlesStep
    <1> QED
      BY <1>1, <1>2, TasksInvIsSafe, PTL DEF TasksSpec


-----------------------------------------------------------------------------
(* LiveBook: what the cache has shown it does not take back.               *)

NowState == [kind: {"policy", "quote", "none"}, date: Nat]
CachedRow == [there: {TRUE}, date: Nat, lineage: BOOLEAN]
MirrorRow == [there: {TRUE}, date: Nat]
CacheState == [of: {"policies", "clients"}, rows: [Policy -> {NoBookRow} \cup CachedRow], warm: BOOLEAN, at: Nat, fresh: BOOLEAN,
               fullDue: BOOLEAN, backoff: BOOLEAN, refreshing: BOOLEAN]
Busy == {"begin", "page", "store", "write"}
FetchState == [at: {"rest", "off"} \cup Busy, full: BOOLEAN, since: Nat, skip: Nat, got: SUBSET BookRecord]

BookTypes ==
    /\ momentum \in [Policy -> NowState] /\ mirror \in [Policy -> {NoBookRow} \cup MirrorRow]
    /\ book \in CacheState /\ fetcher \in [Fetcher -> FetchState] /\ changes \in Nat

\* No date is later than the clock of NowCerts.
DatesPast ==
    /\ book.at <= BookClock
    /\ \A p \in Policy : /\ momentum[p].date \in 1..BookClock
                         /\ book.rows[p] # NoBookRow => book.rows[p].date \in 1..BookClock
                         /\ mirror[p] # NoBookRow => mirror[p].date \in 0..BookClock
    /\ \A f \in Fetcher : \A r \in fetcher[f].got : r.date \in 1..BookClock

\* One thread refreshes the cache at a time.
RefreshesAlone ==
    /\ \A t \in Thread : fetcher[t].at \in Busy => book.refreshing = TRUE
    /\ \A t, u \in Thread : fetcher[t].at \in Busy /\ fetcher[u].at \in Busy => t = u

\* What the cache holds and what a thread has fetched were true of NowCerts, and what a
\* thread has fetched is no older than what the cache holds.
NotAhead ==
    /\ \A p \in Policy : book.rows[p] # NoBookRow => book.rows[p].date <= momentum[p].date
    /\ \A t \in Thread : \A r \in fetcher[t].got : r.date <= momentum[r.policy].date
NotBehind ==
    \A t \in Thread : fetcher[t].at \in {"page", "store"} =>
        \A r \in fetcher[t].got : book.rows[r.policy] # NoBookRow => book.rows[r.policy].date <= r.date

BookInv == BookTypes /\ DatesPast /\ RefreshesAlone /\ NotAhead /\ NotBehind

LEMMA BookClockIsNat == changes \in Nat => FirstChanges \in Nat /\ BookClock \in Nat /\ FirstChanges <= BookClock
    BY BookAssumption, FS_CardinalityType DEF FirstChanges, BookClock

LEMMA FetchShape ==
    ASSUME NEW x \in FetchState
    PROVE  x.at \in {"rest", "off"} \cup Busy /\ x.full \in BOOLEAN /\ x.since \in Nat /\ x.skip \in Nat /\ x.got \in SUBSET BookRecord
    BY DEF FetchState

LEMMA RecordShape == ASSUME NEW r \in BookRecord PROVE r.policy \in Policy /\ r.kind \in {"policy", "quote"} /\ r.date \in Nat
    BY DEF BookRecord

LEMMA CacheShape ==
    ASSUME book \in CacheState
    PROVE  /\ book.of \in {"policies", "clients"} /\ book.rows \in [Policy -> {NoBookRow} \cup CachedRow] /\ book.at \in Nat
           /\ book.warm \in BOOLEAN /\ book.fresh \in BOOLEAN /\ book.fullDue \in BOOLEAN /\ book.backoff \in BOOLEAN
           /\ book.refreshing \in BOOLEAN
    BY DEF CacheState

LEMMA RestingFetches ==
    /\ NoFetch \in FetchState /\ NoFetch.at = "rest" /\ NoFetch.got = {}
    /\ OffDuty \in FetchState /\ OffDuty.at = "off" /\ OffDuty.got = {}
    BY DEF NoFetch, OffDuty, FetchState

(***************************************************************************)
(* Steps of a fetcher that leave the book alone: what it is doing next is  *)
(* well formed, and what it has fetched is true and new enough.            *)
(***************************************************************************)
LEMMA FetcherMoves ==
    ASSUME BookInv, NEW f \in Fetcher, NEW x \in FetchState, fetcher' = [fetcher EXCEPT ![f] = x],
           UNCHANGED <<momentum, changes, book>>, mirror' \in [Policy -> {NoBookRow} \cup MirrorRow],
           \A p \in Policy : mirror'[p] # NoBookRow => mirror'[p].date \in 0..BookClock,
           \A r \in x.got : r.date \in 1..BookClock,
           f \in Thread => \A r \in x.got : r.date <= momentum[r.policy].date,
           f \in Thread /\ x.at \in Busy => fetcher[f].at \in Busy,
           f \in Thread /\ x.at \in {"page", "store"} =>
               \A r \in x.got : book.rows[r.policy] # NoBookRow => book.rows[r.policy].date <= r.date
    PROVE  BookInv'
    <1>1. fetcher \in [Fetcher -> FetchState]
      BY DEF BookInv, BookTypes
    <1>2. fetcher' \in [Fetcher -> FetchState] /\ fetcher'[f] = x /\ \A g \in Fetcher : g # f => fetcher'[g] = fetcher[g]
      BY <1>1
    <1>3. Thread \subseteq Fetcher /\ BookClock' = BookClock
      BY DEF Fetcher, BookClock
    <1>4. BookTypes'
      BY <1>2 DEF BookInv, BookTypes
    <1>5. DatesPast'
      BY <1>2, <1>3 DEF BookInv, DatesPast
    <1>6. RefreshesAlone'
      BY <1>2, <1>3 DEF BookInv, RefreshesAlone
    <1>7. NotAhead'
      BY <1>2, <1>3 DEF BookInv, NotAhead
    <1>8. NotBehind'
      BY <1>2, <1>3 DEF BookInv, NotBehind
    <1> QED
      BY <1>4, <1>5, <1>6, <1>7, <1>8 DEF BookInv

LEMMA FetchPageKeeps ==
    ASSUME BookInv, NEW f \in Fetcher, NEW next \in {"store", "write"}, FetchPage(f, next)
    PROVE  BookInv'
    <1> DEFINE x == fetcher[f]
               page == Page(x.since, x.skip)
               got == {r \in x.got : r.policy \notin page} \cup Records(page)
               at == IF Cardinality(page) < PageSize THEN next ELSE "page"
    <1>1. /\ x \in FetchState /\ x.at = "page" /\ UNCHANGED <<momentum, book, mirror, changes>> /\ fetcher \in [Fetcher -> FetchState]
          /\ fetcher' = [fetcher EXCEPT ![f].got = got, ![f].skip = @ + PageSize, ![f].at = at]
      BY DEF FetchPage, BookInv, BookTypes
    <1>2. \A p \in page : /\ p \in Policy /\ momentum[p].kind \in {"policy", "quote"} /\ momentum[p].date \in Nat
                          /\ momentum[p].date \in 1..BookClock
      BY DEF Page, Listed, BookInv, BookTypes, NowState, DatesPast
    <1>3. at \in {"page", "store", "write"}
      OBVIOUS
    <1>4. PICK skip \in Nat : skip = x.skip + PageSize
      <2>1. PageSize \in Nat /\ x.skip \in Nat
        BY <1>1, FetchShape, BookAssumption
      <2> HIDE DEF x
      <2> QED
        BY <2>1
    <1> HIDE DEF page, at
    <1>5. \A r \in Records(page) : r \in BookRecord /\ r.policy \in page /\ r.date = momentum[r.policy].date
      BY <1>2 DEF Records, BookRecord
    <1>6. got \in SUBSET BookRecord
      BY <1>1, <1>5, FetchShape
    <1>7. \A r \in got : r \in x.got \/ (r.policy \in page /\ r.date = momentum[r.policy].date)
      BY <1>5
    <1> HIDE DEF got
    <1> DEFINE y == [x EXCEPT !.got = got, !.skip = skip, !.at = at]
    <1>8. y \in FetchState /\ y.got = got /\ y.at = at
      BY <1>1, <1>3, <1>4, <1>6 DEF FetchState, Busy
    <1>9. fetcher' = [fetcher EXCEPT ![f] = y]
      BY <1>1, <1>4
    <1> HIDE DEF y
    <1>10. \A r \in got : r.date \in 1..BookClock
      BY <1>2, <1>7 DEF BookInv, DatesPast
    <1>11. f \in Thread => \A r \in got : r.date <= momentum[r.policy].date
      BY <1>2, <1>7 DEF BookInv, NotAhead
    <1>12. f \in Thread => \A r \in got : book.rows[r.policy] # NoBookRow => book.rows[r.policy].date <= r.date
      BY <1>1, <1>2, <1>7 DEF BookInv, NotAhead, NotBehind
    <1>13. mirror' \in [Policy -> {NoBookRow} \cup MirrorRow] /\ \A p \in Policy : mirror'[p] # NoBookRow => mirror'[p].date \in 0..BookClock
      BY <1>1 DEF BookInv, BookTypes, DatesPast
    <1> QED
      BY <1>1, <1>8, <1>9, <1>10, <1>11, <1>12, <1>13, FetcherMoves DEF Busy


(***************************************************************************)
(* Steps that leave the fetchers and the rows of the cache alone.          *)
(***************************************************************************)
LEMMA CacheMoves ==
    ASSUME BookInv, book' \in CacheState, UNCHANGED <<momentum, mirror, fetcher, changes>>,
           book'.rows = book.rows, book'.at = book.at, book'.refreshing = book.refreshing
    PROVE  BookInv'
    <1>1. BookClock' = BookClock
      BY DEF BookClock
    <1>2. BookTypes'
      BY DEF BookInv, BookTypes
    <1>3. DatesPast' /\ RefreshesAlone'
      BY <1>1 DEF BookInv, DatesPast, RefreshesAlone
    <1>4. NotAhead' /\ NotBehind'
      BY DEF BookInv, NotAhead, NotBehind
    <1> QED
      BY <1>2, <1>3, <1>4 DEF BookInv

LEMMA ExpiresKeeps == ASSUME BookInv, TtlEnds \/ BackoffEnds \/ FullEnds PROVE BookInv'
    <1>1. UNCHANGED <<momentum, mirror, fetcher, changes>> /\ book \in CacheState
      BY DEF TtlEnds, BackoffEnds, FullEnds, ExpireBook, BookInv, BookTypes
    <1>2. /\ book' \in CacheState
          /\ book'.rows = book.rows /\ book'.at = book.at /\ book'.refreshing = book.refreshing
      BY <1>1 DEF TtlEnds, BackoffEnds, FullEnds, ExpireBook, CacheState
    <1> QED
      BY <1>1, <1>2, CacheMoves

LEMMA RequestBookKeeps == ASSUME BookInv, RequestBook PROVE BookInv'
    <1> DEFINE resting == {t \in Thread : fetcher[t].at = "rest"}
               t == CHOOSE t \in resting : TRUE
    <1>1. /\ t \in Thread /\ fetcher' = [fetcher EXCEPT ![t].at = "begin"] /\ ~book.refreshing
          /\ book' = [book EXCEPT !.refreshing = TRUE] /\ UNCHANGED <<momentum, mirror, changes>>
      BY DEF RequestBook, Spawns, GoTo
    <1> HIDE DEF t
    <1> DEFINE x == [fetcher[t] EXCEPT !.at = "begin"]
    <1>2. fetcher \in [Fetcher -> FetchState] /\ book \in CacheState /\ Thread \subseteq Fetcher /\ BookClock' = BookClock
      BY <1>1 DEF BookInv, BookTypes, Fetcher, BookClock
    <1>3. x \in FetchState /\ x.at = "begin" /\ x.got = fetcher[t].got
      BY <1>1, <1>2 DEF FetchState, Busy
    <1>4. /\ fetcher' \in [Fetcher -> FetchState] /\ fetcher'[t] = x
          /\ \A g \in Fetcher : g # t => fetcher'[g] = fetcher[g]
      BY <1>1, <1>2, <1>3
    <1> HIDE DEF x
    <1>5. book' \in CacheState /\ book'.rows = book.rows /\ book'.at = book.at /\ book'.refreshing = TRUE
      BY <1>1, <1>2 DEF CacheState
    <1>6. BookTypes'
      BY <1>1, <1>4, <1>5 DEF BookInv, BookTypes
    <1>7. \A g \in Fetcher : fetcher'[g].got = fetcher[g].got
      BY <1>3, <1>4
    <1>8. DatesPast'
      BY <1>1, <1>2, <1>5, <1>7 DEF BookInv, DatesPast
    <1>9. \A u \in Thread : fetcher[u].at \notin Busy
      BY <1>1 DEF BookInv, RefreshesAlone
    <1>10. RefreshesAlone'
      BY <1>2, <1>4, <1>5, <1>9 DEF RefreshesAlone
    <1>11. NotAhead'
      BY <1>1, <1>2, <1>5, <1>7 DEF BookInv, NotAhead
    <1>12. NotBehind'
      BY <1>2, <1>3, <1>4, <1>9 DEF NotBehind, Busy
    <1> QED
      BY <1>6, <1>8, <1>10, <1>11, <1>12 DEF BookInv

LEMMA BeginPullKeeps == ASSUME BookInv, NEW t \in Thread, BeginPull(t) PROVE BookInv'
    <1>1. PICK since \in Nat, full \in BOOLEAN :
             fetcher' = [fetcher EXCEPT ![t] = [NoFetch EXCEPT !.at = "page", !.full = full, !.since = since]]
      <2>1. (IF Delta THEN book.at ELSE 0) \in Nat /\ (~Delta) \in BOOLEAN
        BY CacheShape DEF BookInv, BookTypes
      <2> QED
        BY <2>1 DEF BeginPull
    <1> DEFINE x == [NoFetch EXCEPT !.at = "page", !.full = full, !.since = since]
    <1>2. x \in FetchState /\ x.at = "page" /\ x.got = {}
      BY DEF NoFetch, FetchState, Busy
    <1>3. fetcher' = [fetcher EXCEPT ![t] = x]
      BY <1>1
    <1> HIDE DEF x
    <1>4. fetcher[t].at \in Busy /\ UNCHANGED <<momentum, book, mirror, changes>> /\ t \in Fetcher
      BY DEF BeginPull, Busy, Fetcher
    <1>5. mirror' \in [Policy -> {NoBookRow} \cup MirrorRow] /\ \A p \in Policy : mirror'[p] # NoBookRow => mirror'[p].date \in 0..BookClock
      BY <1>4 DEF BookInv, BookTypes, DatesPast
    <1> QED
      BY <1>2, <1>3, <1>4, <1>5, FetcherMoves

(***************************************************************************)
(* A thread ends, and leaves the book new or as it was.                    *)
(***************************************************************************)
LEMMA ThreadEnds ==
    ASSUME BookInv, NEW t \in Thread, fetcher[t].at \in Busy, fetcher' = [fetcher EXCEPT ![t] = NoFetch],
           UNCHANGED <<momentum, mirror, changes>>, book' \in CacheState, book'.at <= BookClock,
           \A p \in Policy : book'.rows[p] # NoBookRow => book'.rows[p].date \in 1..BookClock /\ book'.rows[p].date <= momentum[p].date
    PROVE  BookInv'
    <1>1. fetcher \in [Fetcher -> FetchState] /\ t \in Fetcher /\ Thread \subseteq Fetcher /\ BookClock' = BookClock
      BY DEF BookInv, BookTypes, Fetcher, BookClock
    <1>2. /\ fetcher' \in [Fetcher -> FetchState] /\ fetcher'[t].at = "rest" /\ fetcher'[t].got = {}
          /\ \A g \in Fetcher : g # t => fetcher'[g] = fetcher[g]
      BY <1>1, RestingFetches
    <1>3. \A u \in Thread : fetcher'[u].at \notin Busy
      BY <1>1, <1>2 DEF BookInv, RefreshesAlone, Busy
    <1>4. BookTypes'
      BY <1>2 DEF BookInv, BookTypes
    <1>5. DatesPast'
      BY <1>1, <1>2 DEF BookInv, DatesPast
    <1>6. RefreshesAlone' /\ NotBehind'
      BY <1>3 DEF RefreshesAlone, NotBehind, Busy
    <1>7. NotAhead'
      BY <1>1, <1>2 DEF BookInv, NotAhead
    <1> QED
      BY <1>4, <1>5, <1>6, <1>7 DEF BookInv

LEMMA PullFailsKeeps == ASSUME BookInv, NEW t \in Thread, PullFails(t) PROVE BookInv' /\ book'.rows = book.rows
    <1>1. /\ fetcher[t].at \in Busy /\ fetcher' = [fetcher EXCEPT ![t] = NoFetch] /\ UNCHANGED <<momentum, mirror, changes>>
          /\ book' = [book EXCEPT !.backoff = TRUE, !.refreshing = FALSE]
      BY DEF PullFails, Busy
    <1>2. book \in CacheState
      BY DEF BookInv, BookTypes
    <1>3. book' \in CacheState /\ book'.rows = book.rows /\ book'.at = book.at
      BY <1>1, <1>2 DEF CacheState
    <1>4. /\ book'.at <= BookClock
          /\ \A p \in Policy : book'.rows[p] # NoBookRow => book'.rows[p].date \in 1..BookClock /\ book'.rows[p].date <= momentum[p].date
      BY <1>3 DEF BookInv, DatesPast, NotAhead
    <1> QED
      BY <1>1, <1>3, <1>4, ThreadEnds

LEMMA MergedRows ==
    ASSUME BookInv, NEW t \in Thread, fetcher[t].at = "store", NEW lineage \in BOOLEAN
    PROVE  /\ MergedBook(t, lineage) \in [Policy -> {NoBookRow} \cup CachedRow]
           /\ \A p \in Policy :
                 MergedBook(t, lineage)[p] # NoBookRow =>
                     /\ MergedBook(t, lineage)[p].date \in 1..BookClock /\ MergedBook(t, lineage)[p].date <= momentum[p].date
                     /\ book.rows[p] # NoBookRow => book.rows[p].date <= MergedBook(t, lineage)[p].date
    <1>1. /\ t \in Fetcher /\ fetcher[t].got \in SUBSET BookRecord /\ Thread \subseteq Fetcher
          /\ book.rows \in [Policy -> {NoBookRow} \cup CachedRow]
      BY FetchShape, CacheShape DEF BookInv, BookTypes, Fetcher
    <1>2. ASSUME NEW p \in Policy
          PROVE  /\ MergedBook(t, lineage)[p] \in {NoBookRow} \cup CachedRow
                 /\ MergedBook(t, lineage)[p] # NoBookRow =>
                       /\ MergedBook(t, lineage)[p].date \in 1..BookClock /\ MergedBook(t, lineage)[p].date <= momentum[p].date
                       /\ book.rows[p] # NoBookRow => book.rows[p].date <= MergedBook(t, lineage)[p].date
      <2> DEFINE r == CHOOSE r \in Pulled(t) : r.policy = p
      <2>1. CASE \E q \in Pulled(t) : q.policy = p
        <3>1. r \in Pulled(t) /\ r.policy = p
          BY <2>1
        <3>2. MergedBook(t, lineage)[p] = BookRow(r, lineage)
          BY <2>1 DEF MergedBook
        <3> HIDE DEF r
        <3>3. r \in fetcher[t].got /\ r \in BookRecord
          BY <3>1, <1>1 DEF Pulled
        <3>4. r.date \in 1..BookClock /\ r.date <= momentum[p].date /\ (book.rows[p] # NoBookRow => book.rows[p].date <= r.date)
          BY <3>1, <3>3, <1>1 DEF BookInv, DatesPast, NotAhead, NotBehind
        <3>5. BookRow(r, lineage) \in CachedRow /\ BookRow(r, lineage).date = r.date
          BY <3>3, RecordShape DEF BookRow, CachedRow
        <3> QED
          BY <3>2, <3>4, <3>5
      <2>2. CASE ~\E q \in Pulled(t) : q.policy = p
        <3>1. MergedBook(t, lineage)[p] \in {NoBookRow, book.rows[p]}
          BY <2>2 DEF MergedBook
        <3>2. book.rows[p] # NoBookRow => /\ book.rows[p].date \in 1..BookClock /\ book.rows[p].date <= momentum[p].date
                                          /\ book.rows[p].date <= book.rows[p].date
          BY DEF BookInv, DatesPast, NotAhead
        <3> QED
          BY <1>1, <3>1, <3>2
      <2> QED
        BY <2>1, <2>2
    <1>3. MergedBook(t, lineage) = [p \in Policy |-> MergedBook(t, lineage)[p]]
      BY DEF MergedBook
    <1> HIDE DEF MergedBook
    <1> QED
      BY <1>2, <1>3

LEMMA StoreBookKeeps ==
    ASSUME BookInv, NEW t \in Thread, StoreBook(t)
    PROVE  /\ BookInv'
           /\ \A p \in Policy : book.rows[p] # NoBookRow /\ book'.rows[p] # NoBookRow => book'.rows[p].date >= book.rows[p].date
    <1>1. PICK lineage \in BOOLEAN :
             book' = [book EXCEPT !.rows = MergedBook(t, lineage), !.warm = TRUE, !.at = BookClock, !.fresh = TRUE,
                                  !.fullDue = @ /\ ~fetcher[t].full, !.backoff = FALSE, !.refreshing = FALSE]
      BY DEF StoreBook
    <1>2. fetcher[t].at = "store" /\ fetcher' = [fetcher EXCEPT ![t] = NoFetch] /\ UNCHANGED <<momentum, mirror, changes>>
      BY DEF StoreBook
    <1> DEFINE rows == MergedBook(t, lineage)
    <1>3. /\ rows \in [Policy -> {NoBookRow} \cup CachedRow]
          /\ \A p \in Policy :
                rows[p] # NoBookRow =>
                    /\ rows[p].date \in 1..BookClock /\ rows[p].date <= momentum[p].date
                    /\ book.rows[p] # NoBookRow => book.rows[p].date <= rows[p].date
      BY <1>2, MergedRows
    <1>4. PICK due \in BOOLEAN :
             book' = [book EXCEPT !.rows = rows, !.warm = TRUE, !.at = BookClock, !.fresh = TRUE,
                                  !.fullDue = due, !.backoff = FALSE, !.refreshing = FALSE]
      <2>1. (book.fullDue /\ ~fetcher[t].full) \in BOOLEAN
        OBVIOUS
      <2> QED
        BY <1>1, <2>1
    <1> HIDE DEF rows
    <1>5. book \in CacheState /\ BookClock \in Nat
      BY BookClockIsNat DEF BookInv, BookTypes
    <1>6. book' \in CacheState /\ book'.rows = rows /\ book'.at = BookClock
      BY <1>3, <1>4, <1>5 DEF CacheState
    <1>7. \A p \in Policy : book'.rows[p] # NoBookRow => book'.rows[p].date \in 1..BookClock /\ book'.rows[p].date <= momentum[p].date
      BY <1>3, <1>6
    <1>8. BookInv'
      <2>1. fetcher[t].at \in Busy /\ book'.at <= BookClock
        BY <1>2, <1>5, <1>6 DEF Busy
      <2> QED
        BY <1>2, <1>6, <1>7, <2>1, ThreadEnds
    <1>9. ASSUME NEW p \in Policy, book.rows[p] # NoBookRow, rows[p] # NoBookRow PROVE rows[p].date >= book.rows[p].date
      <2>1. book.rows[p].date <= rows[p].date /\ rows[p].date \in 1..BookClock /\ book.rows[p].date \in 1..BookClock
        BY <1>3, <1>9 DEF BookInv, DatesPast
      <2> QED
        BY <2>1
    <1> QED
      BY <1>6, <1>8, <1>9


(***************************************************************************)
(* The nightly job writes the mirror alone.                                *)
(***************************************************************************)
LEMMA NightlyMoves ==
    ASSUME BookInv, NEW x \in FetchState, fetcher' = [fetcher EXCEPT !["nightly"] = x],
           UNCHANGED <<momentum, changes, book>>, mirror' \in [Policy -> {NoBookRow} \cup MirrorRow],
           \A p \in Policy : mirror'[p] # NoBookRow => mirror'[p].date \in 0..BookClock,
           x.got \subseteq fetcher["nightly"].got
    PROVE  BookInv'
    <1>1. "nightly" \in Fetcher /\ "nightly" \notin Thread
      BY BookAssumption DEF Fetcher
    <1>2. \A r \in x.got : r.date \in 1..BookClock
      BY <1>1 DEF BookInv, DatesPast
    <1> QED
      BY <1>1, <1>2, FetcherMoves

LEMMA NightlyKeeps == ASSUME BookInv, Nightly PROVE BookInv' /\ UNCHANGED book
    <1> DEFINE n == fetcher["nightly"]
    <1>1. "nightly" \in Fetcher /\ "nightly" \notin Thread /\ n \in FetchState
      BY BookAssumption DEF Fetcher, BookInv, BookTypes
    <1>2. mirror \in [Policy -> {NoBookRow} \cup MirrorRow] /\ \A p \in Policy : mirror[p] # NoBookRow => mirror[p].date \in 0..BookClock
      BY DEF BookInv, BookTypes, DatesPast
    <1>3. CASE StartNightly
      <2> DEFINE x == [n EXCEPT !.at = "page"]
      <2>1. x \in FetchState /\ x.got = n.got
        BY <1>1 DEF FetchState, Busy
      <2>2. fetcher' = [fetcher EXCEPT !["nightly"] = x] /\ UNCHANGED <<momentum, book, mirror, changes>>
        BY <1>3 DEF StartNightly, GoTo
      <2> HIDE DEF x
      <2> QED
        BY <1>2, <2>1, <2>2, NightlyMoves
    <1>4. CASE FetchPage("nightly", "write")
      BY <1>1, <1>4, FetchPageKeeps DEF FetchPage
    <1>5. CASE NightlyFails \/ WriteNothing
      <2>1. fetcher' = [fetcher EXCEPT !["nightly"] = NoFetch] /\ UNCHANGED <<momentum, book, mirror, changes>>
        BY <1>5 DEF NightlyFails, WriteNothing
      <2> QED
        BY <1>2, <2>1, RestingFetches, NightlyMoves
    <1>6. ASSUME NEW r \in n.got, WriteRecord(r) PROVE BookInv' /\ UNCHANGED book
      <2>1. UNCHANGED <<momentum, book, changes>>
        BY <1>6 DEF WriteRecord
      <2>2. PICK x \in FetchState : fetcher' = [fetcher EXCEPT !["nightly"] = x] /\ x.got \subseteq n.got
        <3>1. CASE n.got = {r}
          BY <1>6, <3>1, RestingFetches DEF WriteRecord
        <3>2. CASE n.got # {r}
          <4>1. fetcher' = [fetcher EXCEPT !["nightly"] = [n EXCEPT !.got = @ \ {r}]]
            BY <1>6, <3>2 DEF WriteRecord
          <4>2. [n EXCEPT !.got = @ \ {r}] \in FetchState /\ [n EXCEPT !.got = @ \ {r}].got = n.got \ {r}
            BY <1>1 DEF FetchState
          <4> QED
            BY <4>1, <4>2
        <3> QED
          BY <3>1, <3>2
      <2>3. r \in BookRecord /\ r.date \in 1..BookClock /\ r.policy \in Policy /\ BookClock \in Nat /\ r.date \in Nat
        BY <1>1, FetchShape, RecordShape, BookClockIsNat DEF BookInv, BookTypes, DatesPast
      <2> DEFINE row == [there |-> TRUE, date |-> r.date]
      <2>4. row \in MirrorRow /\ row.date \in 0..BookClock
        BY <2>3 DEF MirrorRow
      <2>5. mirror' = [mirror EXCEPT ![r.policy] = row] \/ mirror' = mirror
        BY <1>6 DEF WriteRecord
      <2> HIDE DEF row
      <2>6. mirror' \in [Policy -> {NoBookRow} \cup MirrorRow] /\ \A p \in Policy : mirror'[p] # NoBookRow => mirror'[p].date \in 0..BookClock
        BY <1>2, <2>3, <2>4, <2>5
      <2> QED
        BY <2>1, <2>2, <2>6, NightlyMoves
    <1> QED
      BY <1>3, <1>4, <1>5, <1>6 DEF Nightly, StartNightly, FetchPage, NightlyFails, WriteNothing

(***************************************************************************)
(* A change in NowCerts is later than all that was fetched before.         *)
(***************************************************************************)
LEMMA ChangePolicyKeeps == ASSUME BookInv, NEW q \in Policy, ChangePolicy(q) PROVE BookInv' /\ UNCHANGED book
    <1>1. PICK kind \in {"policy", "none", "quote"} :
             momentum' = [momentum EXCEPT ![q] = [kind |-> kind, date |-> BookClock + 1]]
      BY DEF ChangePolicy
    <1>2. UNCHANGED <<fetcher, book, mirror>> /\ changes' = changes + 1 /\ changes \in Nat
      BY DEF ChangePolicy, BookInv, BookTypes
    <1>3. BookClock \in Nat /\ BookClock' = BookClock + 1
      BY <1>2, BookClockIsNat DEF BookClock, FirstChanges
    <1> DEFINE now == [kind |-> kind, date |-> BookClock + 1]
    <1>4. now \in NowState /\ now.date = BookClock + 1
      BY <1>3 DEF NowState
    <1>5. momentum \in [Policy -> NowState] /\ momentum' = [momentum EXCEPT ![q] = now]
      BY <1>1 DEF BookInv, BookTypes
    <1> HIDE DEF now
    <1>6. momentum' \in [Policy -> NowState] /\ momentum'[q].date = BookClock + 1 /\ \A p \in Policy : p # q => momentum'[p] = momentum[p]
      BY <1>4, <1>5
    <1>7. \A p \in Policy : momentum[p].date \in 1..BookClock /\ momentum'[p].date \in Nat /\ momentum[p].date <= momentum'[p].date
      BY <1>3, <1>6 DEF BookInv, DatesPast
    <1>8. BookTypes'
      BY <1>2, <1>6 DEF BookInv, BookTypes
    <1>9. DatesPast'
      <2>1. book.at <= BookClock + 1 /\ book.at \in Nat
        BY <1>3, CacheShape DEF BookInv, BookTypes, DatesPast
      <2>2. \A p \in Policy : /\ momentum'[p].date \in 1..(BookClock + 1)
                              /\ book.rows[p] # NoBookRow => book.rows[p].date \in 1..(BookClock + 1)
                              /\ mirror[p] # NoBookRow => mirror[p].date \in 0..(BookClock + 1)
        BY <1>3, <1>6, <1>7 DEF BookInv, DatesPast
      <2>3. \A f \in Fetcher : \A r \in fetcher[f].got : r.date \in 1..(BookClock + 1)
        BY <1>3 DEF BookInv, DatesPast
      <2> QED
        BY <1>2, <1>3, <2>1, <2>2, <2>3 DEF DatesPast
    <1>10. NotAhead'
      <2>1. ASSUME NEW p \in Policy, book.rows[p] # NoBookRow PROVE book.rows[p].date <= momentum'[p].date
        <3>1. book.rows[p].date \in 1..BookClock /\ book.rows[p].date <= momentum[p].date
          BY <2>1 DEF BookInv, DatesPast, NotAhead
        <3> QED
          BY <1>3, <1>7, <3>1
      <2>2. ASSUME NEW t \in Thread, NEW r \in fetcher[t].got PROVE r.date <= momentum'[r.policy].date
        <3>1. t \in Fetcher /\ r.policy \in Policy /\ r.date \in 1..BookClock /\ r.date <= momentum[r.policy].date
          BY <2>2, FetchShape, RecordShape DEF BookInv, BookTypes, DatesPast, NotAhead, Fetcher
        <3> QED
          BY <1>3, <1>7, <3>1
      <2> QED
        BY <1>2, <2>1, <2>2 DEF NotAhead
    <1>11. RefreshesAlone' /\ NotBehind'
      BY <1>2 DEF BookInv, RefreshesAlone, NotBehind
    <1> QED
      BY <1>2, <1>8, <1>9, <1>10, <1>11 DEF BookInv

-----------------------------------------------------------------------------

LEMMA BookStep ==
    ASSUME BookInv, [BookNext]_bookVars
    PROVE  /\ BookInv'
           /\ \A p \in Policy : book.rows[p] # NoBookRow /\ book'.rows[p] # NoBookRow => book'.rows[p].date >= book.rows[p].date
    <1> DEFINE Kept == \A p \in Policy : book.rows[p] # NoBookRow /\ book'.rows[p] # NoBookRow => book'.rows[p].date >= book.rows[p].date
    <1>1. ASSUME book'.rows = book.rows PROVE Kept
      <2>1. \A p \in Policy : book.rows[p] # NoBookRow => book.rows[p].date >= book.rows[p].date
        BY DEF BookInv, DatesPast
      <2> QED
        BY <1>1, <2>1
    <1>2. CASE UNCHANGED bookVars
      <2>1. UNCHANGED <<momentum, book, mirror, fetcher, changes>> /\ book'.rows = book.rows
        BY <1>2 DEF bookVars
      <2>2. BookInv'
        BY <2>1, CacheMoves DEF BookInv, BookTypes
      <2> QED
        BY <1>1, <2>1, <2>2
    <1>3. CASE RequestBook
      <2>1. book'.rows = book.rows
        <3>1. book \in CacheState
          BY DEF BookInv, BookTypes
        <3> QED
          BY <1>3, <3>1 DEF RequestBook, CacheState
      <2> QED
        BY <1>1, <1>3, <2>1, RequestBookKeeps
    <1>4. CASE TtlEnds \/ BackoffEnds \/ FullEnds
      <2>1. book'.rows = book.rows
        <3>1. book \in CacheState
          BY DEF BookInv, BookTypes
        <3> QED
          BY <1>4, <3>1 DEF TtlEnds, BackoffEnds, FullEnds, ExpireBook, CacheState
      <2> QED
        BY <1>1, <1>4, <2>1, ExpiresKeeps
    <1>5. CASE Nightly
      BY <1>1, <1>5, NightlyKeeps
    <1>6. ASSUME NEW t \in Thread, RefreshBook(t) PROVE BookInv' /\ Kept
      <2>1. CASE BeginPull(t)
        BY <1>1, <2>1, BeginPullKeeps DEF BeginPull
      <2>2. CASE FetchPage(t, "store")
        BY <1>1, <2>2, FetchPageKeeps DEF FetchPage, Fetcher
      <2>3. CASE PullFails(t)
        BY <1>1, <2>3, PullFailsKeeps
      <2>4. CASE StoreBook(t)
        BY <2>4, StoreBookKeeps
      <2> QED
        BY <1>6, <2>1, <2>2, <2>3, <2>4 DEF RefreshBook
    <1>7. ASSUME NEW p \in Policy, ChangePolicy(p) PROVE BookInv' /\ Kept
      BY <1>1, <1>7, ChangePolicyKeeps
    <1> QED
      BY <1>2, <1>3, <1>4, <1>5, <1>6, <1>7 DEF BookNext

LEMMA BookStart == BookInit => BookInv
    <1> SUFFICES ASSUME BookInit PROVE BookInv
      OBVIOUS
    <1>1. changes = 0 /\ FirstChanges \in Nat /\ BookClock = FirstChanges /\ Policy = 1..FirstChanges
      BY BookAssumption, FS_CardinalityType DEF BookInit, FirstChanges, BookClock
    <1>2. momentum = [p \in Policy |-> [kind |-> "policy", date |-> p]]
      BY DEF BookInit
    <1>3. \A p \in Policy : momentum[p] \in NowState /\ momentum[p].date = p
      BY <1>1, <1>2 DEF NowState
    <1>4. PICK of \in {"policies", "clients"} : book =
              [of |-> of, rows |-> [p \in Policy |-> NoBookRow], warm |-> FALSE, at |-> 0, fresh |-> FALSE,
               fullDue |-> TRUE, backoff |-> FALSE, refreshing |-> FALSE]
      BY DEF BookInit
    <1>5. book \in CacheState /\ book.at = 0 /\ \A p \in Policy : book.rows[p] = NoBookRow
      BY <1>4 DEF CacheState
    <1>6. /\ fetcher \in [Fetcher -> FetchState]
          /\ \A f \in Fetcher : fetcher[f].at \notin Busy /\ fetcher[f].got = {}
      BY RestingFetches DEF BookInit, Busy
    <1> DEFINE old == [there |-> TRUE, date |-> 0]
    <1>7. old \in MirrorRow /\ old.date = 0
      BY DEF MirrorRow
    <1>8. mirror \in [Policy -> {NoBookRow, old}]
      BY DEF BookInit
    <1> HIDE DEF old
    <1>9. BookTypes
      <2>1. momentum \in [Policy -> NowState]
        BY <1>2, <1>3
      <2>2. changes \in Nat
        BY <1>1
      <2> QED
        BY <1>5, <1>6, <1>7, <1>8, <2>1, <2>2 DEF BookTypes
    <1>10. DatesPast
      BY <1>8, <1>1, <1>3, <1>5, <1>6, <1>7 DEF DatesPast
    <1>11. RefreshesAlone /\ NotBehind
      BY <1>6 DEF RefreshesAlone, NotBehind, Fetcher, Busy
    <1>12. NotAhead
      BY <1>5, <1>6 DEF NotAhead, Fetcher
    <1> QED
      BY <1>9, <1>10, <1>11, <1>12 DEF BookInv

LEMMA BookKept == BookSpec => []BookInv
    BY BookStart, BookStep, PTL DEF BookSpec

(***************************************************************************)
(* No refresh of the cached book puts an older state of a policy over a    *)
(* newer one, for any number of policies, threads, pages and failures      *)
(* (hermes_core/book.py: one refresh at a time, and a pull is no older     *)
(* than the store before it).                                              *)
(***************************************************************************)
THEOREM BookNeverGoesBack == BookSpec => NeverBack
    <1>1. BookInv /\ [BookNext]_bookVars =>
             [\A p \in Policy : book.rows[p] # NoBookRow /\ book'.rows[p] # NoBookRow
                 => book'.rows[p].date >= book.rows[p].date]_bookVars
      BY BookStep
    <1> QED
      BY <1>1, BookKept, PTL DEF BookSpec, NeverBack


LEMMA BookInvTypes == BookInv => BookTypeOK
    <1> SUFFICES ASSUME BookInv PROVE BookTypeOK
      OBVIOUS
    <1>1. \A p \in Policy : /\ momentum[p].kind \in {"policy", "quote", "none"}
                            /\ momentum[p].date \in 0..BookClock
      BY BookClockIsNat DEF BookInv, BookTypes, DatesPast, NowState
    <1>2. \A p \in Policy : /\ book.rows[p] # NoBookRow => book.rows[p].date \in 1..BookClock
                            /\ mirror[p] # NoBookRow => mirror[p].date \in 0..BookClock
      BY DEF BookInv, DatesPast
    <1>3. book.at \in 0..BookClock /\ {book.warm, book.fresh, book.backoff, book.refreshing} \subseteq BOOLEAN
      BY CacheShape, BookClockIsNat DEF BookInv, BookTypes, DatesPast
    <1>4. \A f \in Fetcher : fetcher[f].got \subseteq BookRecord
      BY FetchShape DEF BookInv, BookTypes
    <1> QED
      BY <1>1, <1>2, <1>3, <1>4 DEF BookTypeOK


-----------------------------------------------------------------------------
(* CommissionLedger: the money is linked to the policy it names.           *)

JobFields == {"at", "file", "statement", "todo", "index", "book", "made", "seen"}
FileRows == UNION {Statement[f].rows : f \in File}
Txn == [statement: Nat, row: FileRows, ledger: Nat]
BatchState == [status: {"none", "pending_review", "error", "rejected", "committed"}, ok: BOOLEAN,
               coming: SUBSET FileRows, staged: SUBSET FileRows]

LedgerRows ==
    /\ \E S : ledger \in Seq(S)
    /\ Len(ledger) <= MaxRows /\ \A i \in 1..Len(ledger) : "number" \in DOMAIN ledger[i]

\* What is linked already and what is to be linked comes of statements that there are.
LinesTyped ==
    /\ txns \subseteq Txn /\ statements \in Nat
    /\ \A t \in txns : t.ledger \in 0..Len(ledger) /\ t.statement \in 1..statements

\* A job knows rows that there are, and made rows under keys only.
JobKnows(c) ==
    /\ DOMAIN clerk[c] = JobFields
    /\ clerk[c].index \subseteq 1..Len(ledger)
    /\ \A m \in clerk[c].made : m \in 1..Len(ledger) /\ ledger[m].number.key # ""
    /\ clerk[c].at = "insert" => clerk[c].todo \subseteq FileRows /\ clerk[c].statement \in 1..statements
    /\ clerk[c].at = "link" => clerk[c].todo \subseteq Txn /\ \A t \in clerk[c].todo : t.statement \in 1..statements

Agree(t, number) == number.as = NumberOf(t).as \/ (number.key = NumberOf(t).key /\ number.key # "")

MoneyInv ==
    /\ today \in 1..LastDay /\ stops \in 0..MaxStops /\ batch \in [File -> BatchState]
    /\ LedgerRows /\ LinesTyped /\ LinksAgree
    /\ clerk = [c \in Clerk |-> clerk[c]] /\ \A c \in Clerk : JobKnows(c)

(***************************************************************************)
(* Rows of the ledger are added and change, but keep their number.         *)
(***************************************************************************)
LedgerKept ==
    /\ LedgerRows' /\ Len(ledger) <= Len(ledger')
    /\ \A i \in 1..Len(ledger) : ledger'[i].number = ledger[i].number

LEMMA LedgerLength == ASSUME LedgerRows PROVE Len(ledger) \in Nat /\ DOMAIN ledger = 1..Len(ledger) /\ ledger = [i \in 1..Len(ledger) |-> ledger[i]]
    <1>1. PICK S : ledger \in Seq(S)
      BY DEF LedgerRows
    <1> QED
      BY <1>1

LEMMA LedgerAsItWas == ASSUME LedgerRows, UNCHANGED ledger PROVE LedgerKept
    <1>1. Len(ledger) \in Nat
      BY LedgerLength
    <1> QED
      BY <1>1 DEF LedgerKept, LedgerRows

LEMMA LedgerGrows ==
    ASSUME LedgerRows, Len(ledger) < MaxRows, NEW row, "number" \in DOMAIN row, ledger' = Append(ledger, row)
    PROVE  LedgerKept /\ Len(ledger') = Len(ledger) + 1 /\ ledger'[Len(ledger) + 1] = row
    <1>1. PICK S : ledger \in Seq(S)
      BY DEF LedgerRows
    <1>2. ledger \in Seq(S \cup {row}) /\ Len(ledger) \in Nat /\ MaxRows \in Nat
      BY <1>1, CommissionAssumption
    <1>3. /\ ledger' \in Seq(S \cup {row}) /\ Len(ledger') = Len(ledger) + 1 /\ ledger'[Len(ledger) + 1] = row
          /\ \A i \in 1..Len(ledger) : ledger'[i] = ledger[i]
      BY <1>2
    <1>4. \A i \in 1..Len(ledger') : "number" \in DOMAIN ledger'[i]
      BY <1>2, <1>3 DEF LedgerRows
    <1>5. Len(ledger') <= MaxRows /\ Len(ledger) <= Len(ledger')
      BY <1>2, <1>3
    <1> QED
      BY <1>3, <1>4, <1>5 DEF LedgerKept, LedgerRows

LEMMA LedgerChanges ==
    ASSUME LedgerRows, NEW i, NEW row, i \in 1..Len(ledger) => "number" \in DOMAIN row /\ row.number = ledger[i].number,
           ledger' = [ledger EXCEPT ![i] = row]
    PROVE  LedgerKept
    <1>1. PICK S : ledger \in Seq(S)
      BY DEF LedgerRows
    <1>2. ledger \in Seq(S \cup {row}) /\ Len(ledger) \in Nat
      BY <1>1
    <1>3. /\ ledger' \in Seq(S \cup {row}) /\ Len(ledger') = Len(ledger)
          /\ \A j \in 1..Len(ledger) : ledger'[j] = IF j = i THEN row ELSE ledger[j]
      <2>1. CASE i \in 1..Len(ledger)
        BY <1>2, <2>1
      <2>2. CASE i \notin 1..Len(ledger)
        <3>1. ledger = [j \in 1..Len(ledger) |-> ledger[j]] /\ DOMAIN ledger = 1..Len(ledger)
          BY LedgerLength
        <3>2. ledger' = ledger
          BY <2>2, <3>1
        <3> QED
          BY <1>2, <2>2, <3>2
      <2> QED
        BY <2>1, <2>2
    <1> QED
      BY <1>2, <1>3 DEF LedgerKept, LedgerRows

LEMMA RowsStayThere ==
    ASSUME LedgerRows, LedgerKept
    PROVE  /\ Len(ledger') \in Nat
           /\ \A i \in 1..Len(ledger) : i \in 1..Len(ledger') /\ ledger'[i].number = ledger[i].number
    <1>1. LedgerRows' /\ Len(ledger) <= Len(ledger')
      BY DEF LedgerKept
    <1>2. \E S : ledger' \in Seq(S)
      BY <1>1 DEF LedgerRows
    <1>3. Len(ledger) \in Nat /\ Len(ledger') \in Nat
      BY <1>2, LedgerLength
    <1> QED
      BY <1>1, <1>3 DEF LedgerKept

(***************************************************************************)
(* One job goes on, or none.                                               *)
(***************************************************************************)
LEMMA MoneyKeeps ==
    ASSUME MoneyInv, today' \in 1..LastDay, stops' \in 0..MaxStops, batch' \in [File -> BatchState],
           LedgerKept, statements' \in Nat, statements <= statements',
           NEW c, clerk' = [d \in Clerk |-> clerk'[d]], \A d \in Clerk : d # c => clerk'[d] = clerk[d],
           c \in Clerk => JobKnows(c)',
           \A t \in txns' : \/ t \in txns
                            \/ t \in Txn /\ t.ledger = 0 /\ t.statement \in 1..statements'
                            \/ /\ t \in Txn /\ t.ledger \in 1..Len(ledger) /\ t.statement \in 1..statements
                               /\ Agree(t, ledger[t.ledger].number)
    PROVE  MoneyInv'
    <1>1. Len(ledger) \in Nat /\ Len(ledger') \in Nat /\ Len(ledger) <= Len(ledger')
      BY LedgerLength, RowsStayThere DEF MoneyInv, LedgerKept
    <1>2. \A i \in 1..Len(ledger) : i \in 1..Len(ledger') /\ ledger'[i].number = ledger[i].number
      BY RowsStayThere DEF MoneyInv
    <1>3. statements \in Nat /\ \A s \in 1..statements : s \in 1..statements'
      BY DEF MoneyInv, LinesTyped
    <1>4. ASSUME NEW t \in txns'
          PROVE  /\ t \in Txn /\ t.ledger \in 0..Len(ledger') /\ t.statement \in 1..statements'
                 /\ t.ledger # 0 => Agree(t, ledger'[t.ledger].number)
      <2>1. CASE t \in txns
        <3>1. t \in Txn /\ t.ledger \in 0..Len(ledger) /\ t.statement \in 1..statements
          BY <2>1 DEF MoneyInv, LinesTyped
        <3>2. t.ledger # 0 => Agree(t, ledger[t.ledger].number) /\ t.ledger \in 1..Len(ledger)
          <4>1. t.ledger # 0 => Agree(t, ledger[t.ledger].number)
            BY <2>1 DEF MoneyInv, LinksAgree, Agree
          <4> QED
            BY <3>1, <4>1, <1>1
        <3>3. t.ledger # 0 => Agree(t, ledger'[t.ledger].number)
          BY <3>2, <1>2
        <3> QED
          BY <3>1, <3>3, <1>1, <1>3
      <2>2. CASE t \in Txn /\ t.ledger = 0 /\ t.statement \in 1..statements'
        BY <2>2, <1>1
      <2>3. CASE /\ t \in Txn /\ t.ledger \in 1..Len(ledger) /\ t.statement \in 1..statements
                 /\ Agree(t, ledger[t.ledger].number)
        <3>1. Agree(t, ledger'[t.ledger].number)
          BY <2>3, <1>2
        <3> QED
          BY <2>3, <3>1, <1>1, <1>3
      <2> QED
        BY <2>1, <2>2, <2>3
    <1>5. LinesTyped'
      BY <1>4 DEF LinesTyped
    <1>6. LinksAgree'
      <2>1. \A t \in txns' : t.ledger # 0 => Agree(t, ledger'[t.ledger].number)
        BY <1>4
      <2> QED
        BY <2>1 DEF LinksAgree, Agree, NumberOf
    <1>7. ASSUME NEW d \in Clerk PROVE JobKnows(d)'
      <2>1. CASE d = c
        BY <2>1
      <2>2. CASE d # c
        <3>1. clerk'[d] = clerk[d] /\ JobKnows(d)
          BY <2>2 DEF MoneyInv
        <3>2. /\ clerk'[d].index \subseteq 1..Len(ledger')
              /\ \A m \in clerk'[d].made : m \in 1..Len(ledger') /\ ledger'[m].number.key # ""
          BY <3>1, <1>2 DEF JobKnows
        <3>3. /\ clerk'[d].at = "insert" => clerk'[d].todo \subseteq FileRows /\ clerk'[d].statement \in 1..statements'
              /\ clerk'[d].at = "link" => clerk'[d].todo \subseteq Txn /\ \A t \in clerk'[d].todo : t.statement \in 1..statements'
          BY <3>1, <1>3 DEF JobKnows
        <3> QED
          BY <3>1, <3>2, <3>3 DEF JobKnows
      <2> QED
        BY <2>1, <2>2
    <1> QED
      BY <1>5, <1>6, <1>7 DEF MoneyInv, LedgerKept


LEMMA StopsCounted == ASSUME MoneyInv, UNCHANGED stops \/ MoneyStop PROVE stops' \in 0..MaxStops
    <1>1. MaxStops \in Nat /\ stops \in 0..MaxStops
      BY CommissionAssumption DEF MoneyInv
    <1> QED
      BY <1>1 DEF MoneyStop

LEMMA ClerkIsFunction ==
    ASSUME MoneyInv, NEW c \in Clerk, NEW x, clerk' = [clerk EXCEPT ![c] = x]
    PROVE  clerk' = [d \in Clerk |-> clerk'[d]] /\ clerk'[c] = x /\ \A d \in Clerk : d # c => clerk'[d] = clerk[d]
    <1>1. clerk = [d \in Clerk |-> clerk[d]]
      BY DEF MoneyInv
    <1> QED
      BY <1>1

\* The usual steps of a job: the ledger, the lines and the batches rest, and the job knows no
\* row that is not there.
LEMMA JobMoves ==
    ASSUME MoneyInv, NEW c \in Clerk, NEW x, clerk' = [clerk EXCEPT ![c] = x],
           UNCHANGED <<today, batch, txns, ledger, statements>>, UNCHANGED stops \/ MoneyStop,
           DOMAIN x = JobFields, x.index \subseteq 1..Len(ledger),
           x.made \subseteq clerk[c].made,
           x.at = "insert" => x.todo \subseteq FileRows /\ x.statement \in 1..statements,
           x.at = "link" => x.todo \subseteq Txn /\ \A t \in x.todo : t.statement \in 1..statements
    PROVE  MoneyInv'
    <1>1. clerk' = [d \in Clerk |-> clerk'[d]] /\ clerk'[c] = x /\ \A d \in Clerk : d # c => clerk'[d] = clerk[d]
      BY ClerkIsFunction
    <1>2. JobKnows(c)
      BY DEF MoneyInv
    <1>3. JobKnows(c)'
      BY <1>1, <1>2 DEF JobKnows
    <1>4. LedgerKept
      BY LedgerAsItWas DEF MoneyInv
    <1>5. stops' \in 0..MaxStops
      BY StopsCounted
    <1>6. /\ today' \in 1..LastDay /\ batch' \in [File -> BatchState] /\ statements' \in Nat /\ statements <= statements'
          /\ \A t \in txns' : t \in txns
      BY DEF MoneyInv, LinesTyped
    <1> QED
      BY <1>1, <1>3, <1>4, <1>5, <1>6, MoneyKeeps

LEMMA NotBusyJob ==
    /\ DOMAIN NotBusy = JobFields /\ NotBusy.at = "idle" /\ NotBusy.index = {} /\ NotBusy.made = {}
    BY DEF NotBusy, JobFields

LEMMA JobRests ==
    ASSUME MoneyInv, NEW c \in Clerk, clerk' = [clerk EXCEPT ![c] = NotBusy],
           UNCHANGED <<today, batch, txns, ledger, statements>>, UNCHANGED stops \/ MoneyStop
    PROVE  MoneyInv'
    <1>1. NotBusy.at # "insert" /\ NotBusy.at # "link" /\ NotBusy.index \subseteq 1..Len(ledger) /\ NotBusy.made \subseteq clerk[c].made
      BY NotBusyJob
    <1> QED
      BY <1>1, NotBusyJob, JobMoves

(***************************************************************************)
(* Batches.                                                                *)
(***************************************************************************)
LEMMA BatchesMove ==
    ASSUME MoneyInv, UNCHANGED <<today, txns, ledger, clerk, statements>>, UNCHANGED stops \/ MoneyStop,
           batch' \in [File -> BatchState]
    PROVE  MoneyInv'
    <1>1. LedgerKept
      BY LedgerAsItWas DEF MoneyInv
    <1>2. stops' \in 0..MaxStops
      BY StopsCounted
    <1>3. /\ today' \in 1..LastDay /\ statements' \in Nat /\ statements <= statements'
          /\ clerk' = [d \in Clerk |-> clerk'[d]] /\ (\A d \in Clerk : clerk'[d] = clerk[d])
          /\ \A t \in txns' : t \in txns
      BY DEF MoneyInv, LinesTyped
    <1>4. PICK none : none \notin Clerk
      BY NoSetContainsEverything
    <1> QED
      BY <1>1, <1>2, <1>3, <1>4, MoneyKeeps

LEMMA LinesOfFiles == \A f \in File : StatementLines(f) \in SUBSET FileRows
    BY DEF StatementLines, FileRows

LEMMA BatchShape ==
    ASSUME NEW b \in BatchState
    PROVE  b.coming \in SUBSET FileRows /\ b.staged \in SUBSET FileRows /\ b.ok \in BOOLEAN
    BY DEF BatchState

LEMMA StageStatementKeeps == ASSUME MoneyInv, NEW f \in File, NEW typed, StageStatement(f, typed) PROVE MoneyInv'
    <1>1. PICK status \in {"error", "pending_review"}, ok \in BOOLEAN :
             batch' = [batch EXCEPT ![f] = [status |-> status, ok |-> ok, coming |-> StatementLines(f), staged |-> {}]]
      <2>1. CrosscheckOk(f, IF typed # {} THEN typed ELSE StatedInFile(f)) \in BOOLEAN
        BY DEF CrosscheckOk
      <2>2. (IF StatementLines(f) = {} THEN "error" ELSE "pending_review") \in {"error", "pending_review"}
        OBVIOUS
      <2> QED
        BY <2>1, <2>2 DEF StageStatement
    <1>2. [status |-> status, ok |-> ok, coming |-> StatementLines(f), staged |-> {}] \in BatchState
      BY LinesOfFiles DEF BatchState
    <1>3. batch' \in [File -> BatchState]
      BY <1>1, <1>2 DEF MoneyInv
    <1> QED
      BY <1>3, BatchesMove DEF StageStatement

LEMMA StageLineKeeps == ASSUME MoneyInv, NEW f \in File, StageLine(f) PROVE MoneyInv'
    <1>1. batch \in [File -> BatchState] /\ batch[f] \in BatchState
      BY DEF MoneyInv
    <1>2. PICK coming \in SUBSET FileRows, staged \in SUBSET FileRows :
             batch' = [batch EXCEPT ![f] = [@ EXCEPT !.coming = coming, !.staged = staged]]
      <2>1. CASE \E r \in batch[f].coming : batch' = [batch EXCEPT ![f].coming = @ \ {r}, ![f].staged = @ \cup {r}]
        <3>1. PICK r \in batch[f].coming : batch' = [batch EXCEPT ![f].coming = @ \ {r}, ![f].staged = @ \cup {r}]
          BY <2>1
        <3>2. batch[f].coming \ {r} \in SUBSET FileRows /\ batch[f].staged \cup {r} \in SUBSET FileRows
          BY <1>1, BatchShape
        <3> QED
          BY <3>1, <3>2
      <2>2. CASE batch' = [batch EXCEPT ![f].coming = {}]
        <3>1. batch[f] = [batch[f] EXCEPT !.staged = batch[f].staged]
          BY <1>1 DEF BatchState
        <3>2. [batch[f] EXCEPT !.coming = {}] = [batch[f] EXCEPT !.coming = {}, !.staged = batch[f].staged]
          BY <1>1 DEF BatchState
        <3>3. batch[f].staged \in SUBSET FileRows /\ {} \in SUBSET FileRows
          BY <1>1, BatchShape
        <3> QED
          BY <2>2, <3>2, <3>3
      <2> QED
        BY <2>1, <2>2 DEF StageLine
    <1>3. [batch[f] EXCEPT !.coming = coming, !.staged = staged] \in BatchState
      BY <1>1 DEF BatchState
    <1>4. batch' \in [File -> BatchState]
      BY <1>1, <1>2, <1>3
    <1>5. UNCHANGED <<today, txns, ledger, clerk, statements>> /\ (UNCHANGED stops \/ MoneyStop)
      BY DEF StageLine
    <1> QED
      BY <1>4, <1>5, BatchesMove

LEMMA RejectStatementKeeps == ASSUME MoneyInv, NEW f \in File, RejectStatement(f) PROVE MoneyInv'
    <1>1. batch \in [File -> BatchState] /\ batch' = [batch EXCEPT ![f] = [batch[f] EXCEPT !.status = "rejected"]]
      BY DEF MoneyInv, RejectStatement
    <1>2. [batch[f] EXCEPT !.status = "rejected"] \in BatchState
      BY <1>1 DEF BatchState
    <1>3. batch' \in [File -> BatchState]
      BY <1>1, <1>2
    <1> QED
      BY <1>3, BatchesMove DEF RejectStatement

(***************************************************************************)
(* An approval.                                                            *)
(***************************************************************************)
LEMMA BeginCommitKeeps ==
    ASSUME MoneyInv, NEW a \in Approver, NEW f \in File, NEW confirmed \in BOOLEAN, BeginCommit(a, f, confirmed)
    PROVE  MoneyInv'
    <1> DEFINE x == [NotBusy EXCEPT !.at = "insert", !.file = {f}, !.statement = statements + 1, !.todo = batch[f].staged]
    <1>1. /\ a \in Clerk /\ statements' = statements + 1 /\ UNCHANGED <<today, batch, txns, ledger, stops>>
          /\ clerk' = [clerk EXCEPT ![a] = x]
      BY DEF BeginCommit, Clerk
    <1>2. batch[f].staged \in SUBSET FileRows /\ statements \in Nat /\ statements' \in Nat /\ statements <= statements'
      BY <1>1, BatchShape DEF MoneyInv, LinesTyped
    <1>3. /\ DOMAIN x = JobFields /\ x.index = {} /\ x.made = {} /\ x.at = "insert" /\ x.todo = batch[f].staged
          /\ x.statement = statements + 1
      BY NotBusyJob DEF JobFields
    <1> HIDE DEF x
    <1>4. clerk' = [d \in Clerk |-> clerk'[d]] /\ clerk'[a] = x /\ \A d \in Clerk : d # a => clerk'[d] = clerk[d]
      BY <1>1, ClerkIsFunction
    <1>5. JobKnows(a)'
      <2>1. statements + 1 \in 1..statements' /\ x.todo \subseteq FileRows
        BY <1>1, <1>2, <1>3
      <2> QED
        BY <1>3, <1>4, <2>1 DEF JobKnows
    <1>6. LedgerKept
      BY <1>1, LedgerAsItWas DEF MoneyInv
    <1>7. today' \in 1..LastDay /\ stops' \in 0..MaxStops /\ batch' \in [File -> BatchState] /\ \A t \in txns' : t \in txns
      BY <1>1 DEF MoneyInv
    <1> QED
      BY <1>2, <1>4, <1>5, <1>6, <1>7, MoneyKeeps

LEMMA InsertTxnKeeps == ASSUME MoneyInv, NEW a \in Clerk, NEW r \in clerk[a].todo, InsertTxn(a, r) PROVE MoneyInv'
    <1> DEFINE at == IF clerk[a].todo = {r} THEN "relink" ELSE "insert"
               x == [clerk[a] EXCEPT !.todo = @ \ {r}, !.at = at]
               t == [statement |-> clerk[a].statement, row |-> r, ledger |-> 0]
    <1>1. /\ clerk[a].at = "insert" /\ UNCHANGED <<today, batch, ledger, statements>> /\ (UNCHANGED stops \/ MoneyStop)
          /\ clerk' = [clerk EXCEPT ![a].todo = @ \ {r}, ![a].at = at]
          /\ txns' \subseteq txns \cup {t}
      BY DEF InsertTxn
    <1>2. JobKnows(a)
      BY DEF MoneyInv
    <1>3. at # "link"
      OBVIOUS
    <1> HIDE DEF at
    <1>4. clerk' = [clerk EXCEPT ![a] = x]
      BY <1>1
    <1>5. /\ DOMAIN x = JobFields /\ x.todo = clerk[a].todo \ {r} /\ x.at = at /\ x.statement = clerk[a].statement
          /\ x.index = clerk[a].index /\ x.made = clerk[a].made
      BY <1>2 DEF JobKnows, JobFields
    <1> HIDE DEF x
    <1>6. clerk' = [d \in Clerk |-> clerk'[d]] /\ clerk'[a] = x /\ \A d \in Clerk : d # a => clerk'[d] = clerk[d]
      BY <1>4, ClerkIsFunction
    <1>7. clerk[a].todo \subseteq FileRows /\ clerk[a].statement \in 1..statements /\ r \in FileRows
      BY <1>1, <1>2 DEF JobKnows
    <1>8. JobKnows(a)'
      <2>1. /\ x.index \subseteq 1..Len(ledger') /\ \A m \in x.made : m \in 1..Len(ledger') /\ ledger'[m].number.key # ""
        BY <1>1, <1>2, <1>5 DEF JobKnows
      <2>2. x.todo \subseteq FileRows /\ x.statement \in 1..statements' /\ x.at # "link"
        BY <1>1, <1>3, <1>5, <1>7
      <2> QED
        BY <1>5, <1>6, <2>1, <2>2 DEF JobKnows
    <1>9. t \in Txn /\ t.ledger = 0 /\ t.statement \in 1..statements'
      BY <1>1, <1>7 DEF Txn
    <1> HIDE DEF t
    <1>10. LedgerKept
      BY <1>1, LedgerAsItWas DEF MoneyInv
    <1>11. /\ today' \in 1..LastDay /\ stops' \in 0..MaxStops /\ batch' \in [File -> BatchState]
           /\ statements' \in Nat /\ statements <= statements'
      BY <1>1, StopsCounted DEF MoneyInv, LinesTyped
    <1>12. \A u \in txns' : u \in txns \/ (u \in Txn /\ u.ledger = 0 /\ u.statement \in 1..statements')
      BY <1>1, <1>9
    <1> QED
      BY <1>6, <1>8, <1>10, <1>11, <1>12, MoneyKeeps

LEMMA FinishCommitKeeps == ASSUME MoneyInv, NEW a \in Clerk, FinishCommit(a) PROVE MoneyInv'
    <1>1. clerk' = [clerk EXCEPT ![a] = NotBusy] /\ UNCHANGED <<today, txns, ledger, statements, stops>>
      BY DEF FinishCommit
    <1>2. PICK status \in {"committed", "error"} :
             batch' = [f \in File |-> IF f \notin clerk[a].file THEN batch[f] ELSE [batch[f] EXCEPT !.status = status]]
      <2>1. (IF \E t \in txns : t.statement = clerk[a].statement THEN "committed" ELSE "error") \in {"committed", "error"}
        OBVIOUS
      <2> QED
        BY <2>1 DEF FinishCommit
    <1>3. batch' \in [File -> BatchState]
      <2>1. \A f \in File : batch[f] \in BatchState /\ [batch[f] EXCEPT !.status = status] \in BatchState
        BY DEF MoneyInv, BatchState
      <2> QED
        BY <1>2, <2>1
    <1>4. clerk' = [d \in Clerk |-> clerk'[d]] /\ clerk'[a] = NotBusy /\ \A d \in Clerk : d # a => clerk'[d] = clerk[d]
      BY <1>1, ClerkIsFunction
    <1>5. JobKnows(a)'
      BY <1>4, NotBusyJob DEF JobKnows
    <1>6. LedgerKept
      BY <1>1, LedgerAsItWas DEF MoneyInv
    <1>7. /\ today' \in 1..LastDay /\ stops' \in 0..MaxStops /\ statements' \in Nat /\ statements <= statements'
          /\ \A t \in txns' : t \in txns
      BY <1>1 DEF MoneyInv, LinesTyped
    <1> QED
      BY <1>3, <1>4, <1>5, <1>6, <1>7, MoneyKeeps


(***************************************************************************)
(* Linking lines to rows.                                                  *)
(***************************************************************************)
LEMMA ReadIndexKeeps == ASSUME MoneyInv, NEW c \in Clerk, ReadIndex(c) PROVE MoneyInv'
    <1> DEFINE orphans == {t \in txns : t.ledger = 0}
               at == IF orphans = {} THEN "rollup" ELSE "link"
    <1>1. PICK readable \in BOOLEAN :
             clerk' = [clerk EXCEPT ![c] = [@ EXCEPT !.index = 1..Len(ledger), !.book = readable, !.todo = orphans, !.at = at]]
      BY DEF ReadIndex
    <1>2. UNCHANGED <<today, batch, txns, ledger, statements>> /\ (UNCHANGED stops \/ MoneyStop)
      BY DEF ReadIndex
    <1>3. orphans \subseteq Txn /\ \A t \in orphans : t.statement \in 1..statements
      BY DEF MoneyInv, LinesTyped
    <1>4. at \in {"rollup", "link"}
      OBVIOUS
    <1> HIDE DEF orphans, at
    <1> DEFINE x == [clerk[c] EXCEPT !.index = 1..Len(ledger), !.book = readable, !.todo = orphans, !.at = at]
    <1>5. DOMAIN x = JobFields /\ x.index = 1..Len(ledger) /\ x.made = clerk[c].made /\ x.todo = orphans /\ x.at = at
      <2>1. DOMAIN clerk[c] = JobFields
        BY DEF MoneyInv, JobKnows
      <2> QED
        BY <2>1 DEF JobFields
    <1>6. clerk' = [clerk EXCEPT ![c] = x]
      BY <1>1
    <1> HIDE DEF x
    <1> QED
      BY <1>2, <1>3, <1>4, <1>5, <1>6, JobMoves

\* What is left to be linked once a line has been dealt with.
LEMMA LineDone ==
    ASSUME MoneyInv, NEW c \in Clerk, clerk[c].at = "link", NEW t \in clerk[c].todo, DoneWith(c, t)
    PROVE  \E x : /\ clerk' = [clerk EXCEPT ![c] = x] /\ DOMAIN x = JobFields
                  /\ x.index = clerk[c].index /\ x.made = clerk[c].made /\ x.at \in {"link", "rollup"}
                  /\ x.todo \subseteq Txn /\ \A u \in x.todo : u.statement \in 1..statements
    <1> DEFINE at == IF clerk[c].at = "link" /\ clerk[c].todo = {t} THEN "rollup" ELSE clerk[c].at
               x == [clerk[c] EXCEPT !.todo = @ \ {t}, !.at = at]
    <1>1. at \in {"link", "rollup"}
      OBVIOUS
    <1>2. clerk' = [clerk EXCEPT ![c] = x]
      BY DEF DoneWith
    <1> HIDE DEF at
    <1>3. JobKnows(c)
      BY DEF MoneyInv
    <1>4. DOMAIN x = JobFields /\ x.index = clerk[c].index /\ x.made = clerk[c].made /\ x.todo = clerk[c].todo \ {t} /\ x.at = at
      BY <1>3 DEF JobKnows, JobFields
    <1>5. clerk[c].todo \subseteq Txn /\ \A u \in clerk[c].todo : u.statement \in 1..statements
      BY <1>3 DEF JobKnows
    <1> HIDE DEF x
    <1> QED
      BY <1>1, <1>2, <1>4, <1>5

(***************************************************************************)
(* match_line() and the rows a run has made lead to rows that agree.       *)
(***************************************************************************)
LEMMA MatchedRowsAgree ==
    ASSUME MoneyInv, NEW c \in Clerk, NEW t,
           NEW i \in MatchLine(clerk[c].index, NumberOf(t)) \cup MadeFor(c, NumberOf(t))
    PROVE  i \in 1..Len(ledger) /\ Agree(t, ledger[i].number)
    <1>1. JobKnows(c)
      BY DEF MoneyInv
    <1>2. CASE i \in ExactRows(clerk[c].index, NumberOf(t))
      BY <1>1, <1>2 DEF ExactRows, JobKnows, Agree
    <1>3. CASE i \in NormalizedRows(clerk[c].index, NumberOf(t)) /\ NumberOf(t).key # ""
      <2>1. i \in clerk[c].index /\ ledger[i].number.key = NumberOf(t).key
        BY <1>3 DEF NormalizedRows
      <2> QED
        BY <1>1, <1>3, <2>1 DEF JobKnows, Agree
    <1>4. CASE i \in MadeFor(c, NumberOf(t))
      BY <1>1, <1>4 DEF MadeFor, JobKnows, Agree
    <1> QED
      BY <1>2, <1>3, <1>4 DEF MatchLine

LEMMA LinkedLine ==
    ASSUME NEW t \in Txn, NEW i \in Nat
    PROVE  /\ [t EXCEPT !.ledger = i] \in Txn /\ [t EXCEPT !.ledger = i].ledger = i
           /\ [t EXCEPT !.ledger = i].statement = t.statement /\ [t EXCEPT !.ledger = i].row = t.row
    BY DEF Txn

LEMMA LinkTxnKeeps == ASSUME MoneyInv, NEW c \in Clerk, NEW t \in clerk[c].todo, LinkTxn(c, t) PROVE MoneyInv'
    <1>1. clerk[c].at = "link" /\ DoneWith(c, t) /\ UNCHANGED <<today, batch, ledger, statements>> /\ (UNCHANGED stops \/ MoneyStop)
      BY DEF LinkTxn
    <1>2. PICK x : /\ clerk' = [clerk EXCEPT ![c] = x] /\ DOMAIN x = JobFields
                   /\ x.index = clerk[c].index /\ x.made = clerk[c].made /\ x.at \in {"link", "rollup"}
                   /\ x.todo \subseteq Txn /\ \A u \in x.todo : u.statement \in 1..statements
      BY <1>1, LineDone
    <1>3. CASE UNCHANGED txns
      <2>1. x.index \subseteq 1..Len(ledger) /\ x.made \subseteq clerk[c].made
        BY <1>2 DEF MoneyInv, JobKnows
      <2> QED
        BY <1>1, <1>2, <1>3, <2>1, JobMoves
    <1>4. ASSUME NEW i \in MatchLine(clerk[c].index, NumberOf(t)) \cup MadeFor(c, NumberOf(t)), LinkTo(t, i), UNCHANGED stops
          PROVE  MoneyInv'
      <2>1. i \in 1..Len(ledger) /\ Agree(t, ledger[i].number)
        BY MatchedRowsAgree
      <2>2. t \in Txn /\ t.statement \in 1..statements
        BY <1>1 DEF MoneyInv, JobKnows
      <2> DEFINE new == [t EXCEPT !.ledger = i]
      <2>3. i \in Nat
        BY <2>1
      <2>4. new \in Txn /\ new.ledger = i /\ new.statement = t.statement /\ new.row = t.row
        BY <2>2, <2>3, LinkedLine
      <2>5. txns' \subseteq txns \cup {new}
        BY <1>4 DEF LinkTo
      <2> HIDE DEF new
      <2>6. Agree(new, ledger[new.ledger].number)
        BY <2>1, <2>4 DEF Agree, NumberOf
      <2>7. \A u \in txns' : \/ u \in txns
                             \/ /\ u \in Txn /\ u.ledger \in 1..Len(ledger) /\ u.statement \in 1..statements
                                /\ Agree(u, ledger[u.ledger].number)
        BY <2>1, <2>2, <2>4, <2>5, <2>6
      <2>8. clerk' = [d \in Clerk |-> clerk'[d]] /\ clerk'[c] = x /\ \A d \in Clerk : d # c => clerk'[d] = clerk[d]
        BY <1>2, ClerkIsFunction
      <2>9. JobKnows(c)'
        <3>1. JobKnows(c)
          BY DEF MoneyInv
        <3> QED
          BY <1>1, <1>2, <2>8, <3>1 DEF JobKnows
      <2>10. LedgerKept
        BY <1>1, LedgerAsItWas DEF MoneyInv
      <2>11. /\ today' \in 1..LastDay /\ stops' \in 0..MaxStops /\ batch' \in [File -> BatchState]
             /\ statements' \in Nat /\ statements <= statements'
        BY <1>1, StopsCounted DEF MoneyInv, LinesTyped
      <2> QED
        BY <2>7, <2>8, <2>9, <2>10, <2>11, MoneyKeeps
    <1> QED
      BY <1>3, <1>4 DEF LinkTxn

LEMMA LeaveUnmatchedKeeps == ASSUME MoneyInv, NEW c \in Clerk, NEW t \in clerk[c].todo, LeaveUnmatched(c, t) PROVE MoneyInv'
    <1>1. clerk[c].at = "link" /\ DoneWith(c, t) /\ UNCHANGED <<today, batch, txns, ledger, statements, stops>>
      BY DEF LeaveUnmatched
    <1>2. PICK x : /\ clerk' = [clerk EXCEPT ![c] = x] /\ DOMAIN x = JobFields
                   /\ x.index = clerk[c].index /\ x.made = clerk[c].made /\ x.at \in {"link", "rollup"}
                   /\ x.todo \subseteq Txn /\ \A u \in x.todo : u.statement \in 1..statements
      BY <1>1, LineDone
    <1>3. x.index \subseteq 1..Len(ledger) /\ x.made \subseteq clerk[c].made
      BY <1>2 DEF MoneyInv, JobKnows
    <1> QED
      BY <1>1, <1>2, <1>3, JobMoves

(***************************************************************************)
(* A row is made under the key of the line, which is not blank.            *)
(***************************************************************************)
LEMMA CreateLedgerRowKeeps == ASSUME MoneyInv, NEW c \in Clerk, NEW t \in clerk[c].todo, CreateLedgerRow(c, t) PROVE MoneyInv'
    <1>1. clerk[c].at = "link" /\ UNCHANGED <<today, batch, txns, statements>>
      BY DEF CreateLedgerRow
    <1>2. PICK p \in BookMatches(c, NumberOf(t)) :
             \/ /\ Len(ledger) < MaxRows /\ ledger' = Append(ledger, RowFromPolicy(p, t))
                /\ clerk' = [clerk EXCEPT ![c].made = @ \cup {Len(ledger) + 1}] /\ UNCHANGED stops
             \/ /\ IF Len(ledger) < MaxRows THEN MoneyStop ELSE UNCHANGED stops
                /\ UNCHANGED ledger /\ DoneWith(c, t)
      BY DEF CreateLedgerRow
    <1>3. CASE /\ IF Len(ledger) < MaxRows THEN MoneyStop ELSE UNCHANGED stops
               /\ UNCHANGED ledger /\ DoneWith(c, t)
      <2>1. PICK x : /\ clerk' = [clerk EXCEPT ![c] = x] /\ DOMAIN x = JobFields
                     /\ x.index = clerk[c].index /\ x.made = clerk[c].made /\ x.at \in {"link", "rollup"}
                     /\ x.todo \subseteq Txn /\ \A u \in x.todo : u.statement \in 1..statements
        BY <1>1, <1>3, LineDone
      <2>2. x.index \subseteq 1..Len(ledger) /\ x.made \subseteq clerk[c].made
        BY <2>1 DEF MoneyInv, JobKnows
      <2> QED
        BY <1>1, <1>3, <2>1, <2>2, JobMoves
    <1>4. CASE /\ Len(ledger) < MaxRows /\ ledger' = Append(ledger, RowFromPolicy(p, t))
               /\ clerk' = [clerk EXCEPT ![c].made = @ \cup {Len(ledger) + 1}] /\ UNCHANGED stops
      <2> DEFINE row == RowFromPolicy(p, t)
                 x == [clerk[c] EXCEPT !.made = @ \cup {Len(ledger) + 1}]
      <2>1. "number" \in DOMAIN row /\ row.number.key # ""
        BY DEF RowFromPolicy, BookMatches
      <2> HIDE DEF row
      <2>2. LedgerKept /\ Len(ledger') = Len(ledger) + 1 /\ ledger'[Len(ledger) + 1] = row
        BY <1>4, <2>1, LedgerGrows DEF MoneyInv, row
      <2>3. JobKnows(c) /\ Len(ledger) \in Nat
        BY LedgerLength DEF MoneyInv
      <2>4. /\ DOMAIN x = JobFields /\ x.made = clerk[c].made \cup {Len(ledger) + 1} /\ x.index = clerk[c].index
            /\ x.at = clerk[c].at /\ x.todo = clerk[c].todo
        BY <2>3 DEF JobKnows, JobFields
      <2>5. clerk' = [clerk EXCEPT ![c] = x]
        BY <1>4
      <2> HIDE DEF x
      <2>6. clerk' = [d \in Clerk |-> clerk'[d]] /\ clerk'[c] = x /\ \A d \in Clerk : d # c => clerk'[d] = clerk[d]
        BY <2>5, ClerkIsFunction
      <2>12. Len(ledger) + 1 \in 1..Len(ledger') /\ \A i \in 1..Len(ledger) : i \in 1..Len(ledger')
        <3> DEFINE n == Len(ledger)
                   m == Len(ledger')
        <3>1. n \in Nat /\ m = n + 1
          BY <2>2, <2>3
        <3> HIDE DEF n, m
        <3>2. n + 1 \in 1..m /\ \A i \in 1..n : i \in 1..m
          BY <3>1
        <3> QED
          BY <3>2 DEF n, m
      <2>7. \A m \in x.made : m \in 1..Len(ledger') /\ ledger'[m].number.key # ""
        <3> SUFFICES ASSUME NEW m \in x.made PROVE m \in 1..Len(ledger') /\ ledger'[m].number.key # ""
          OBVIOUS
        <3>1. CASE m = Len(ledger) + 1
          BY <2>1, <2>2, <2>12, <3>1
        <3>2. CASE m \in clerk[c].made
          <4>1. m \in 1..Len(ledger) /\ ledger[m].number.key # ""
            BY <2>3, <3>2 DEF JobKnows
          <4>2. ledger'[m].number = ledger[m].number
            BY <2>2, <4>1 DEF LedgerKept
          <4> QED
            BY <2>12, <4>1, <4>2
        <3> QED
          BY <2>4, <3>1, <3>2
      <2>8. x.index \subseteq 1..Len(ledger')
        <3>1. x.index \subseteq 1..Len(ledger)
          BY <2>3, <2>4 DEF JobKnows
        <3> QED
          BY <2>12, <3>1
      <2>9. x.at = "link" /\ x.todo \subseteq Txn /\ \A u \in x.todo : u.statement \in 1..statements'
        BY <1>1, <2>3, <2>4 DEF JobKnows
      <2>10. JobKnows(c)'
        BY <2>4, <2>6, <2>7, <2>8, <2>9 DEF JobKnows
      <2>11. /\ today' \in 1..LastDay /\ stops' \in 0..MaxStops /\ batch' \in [File -> BatchState]
             /\ statements' \in Nat /\ statements <= statements' /\ \A u \in txns' : u \in txns
        BY <1>1, <1>4 DEF MoneyInv, LinesTyped
      <2> QED
        BY <2>2, <2>6, <2>10, <2>11, MoneyKeeps
    <1> QED
      BY <1>2, <1>3, <1>4


(***************************************************************************)
(* The rollup: rows say what they add up to and keep their number.         *)
(***************************************************************************)
LEMMA RolledUpJob ==
    ASSUME MoneyInv, NEW c \in Clerk, clerk[c].at \in {"lines", "patch"}
    PROVE  /\ DOMAIN RolledUp(c) = JobFields /\ RolledUp(c).at \in {"idle", "finish"}
           /\ RolledUp(c).index \subseteq clerk[c].index /\ RolledUp(c).made \subseteq clerk[c].made
    <1>1. DOMAIN clerk[c] = JobFields
      BY DEF MoneyInv, JobKnows
    <1>2. CASE clerk[c].file = {}
      BY <1>2, NotBusyJob DEF RolledUp
    <1>3. CASE clerk[c].file # {}
      <2> DEFINE x == [clerk[c] EXCEPT !.at = "finish", !.todo = {}, !.seen = <<>>]
      <2>1. DOMAIN x = JobFields /\ x.at = "finish" /\ x.index = clerk[c].index /\ x.made = clerk[c].made
        BY <1>1 DEF JobFields
      <2>2. RolledUp(c) = x
        BY <1>3 DEF RolledUp
      <2> HIDE DEF x
      <2> QED
        BY <2>1, <2>2
    <1> QED
      BY <1>2, <1>3

LEMMA RollupReads == ASSUME MoneyInv, NEW c \in Clerk, ReadLedger(c) \/ ReadTxns(c) PROVE MoneyInv'
    <1>1. DOMAIN clerk[c] = JobFields /\ clerk[c].index \subseteq 1..Len(ledger)
      BY DEF MoneyInv, JobKnows
    <1>2. CASE ReadLedger(c)
      <2> DEFINE x == [clerk[c] EXCEPT !.at = "lines", !.seen = ledger, !.index = {}, !.made = {}, !.book = FALSE]
      <2>1. clerk' = [clerk EXCEPT ![c] = x] /\ UNCHANGED <<today, batch, txns, ledger, statements, stops>>
        BY <1>2 DEF ReadLedger
      <2>2. DOMAIN x = JobFields /\ x.at = "lines" /\ x.index = {} /\ x.made = {}
        BY <1>1 DEF JobFields
      <2> HIDE DEF x
      <2> QED
        BY <2>1, <2>2, JobMoves
    <1>3. CASE ReadTxns(c)
      <2>1. /\ clerk[c].at = "lines" /\ UNCHANGED <<today, batch, txns, ledger, statements, stops>>
            /\ \E patches : clerk' = [clerk EXCEPT ![c] = IF patches = {} THEN RolledUp(c)
                                                          ELSE [@ EXCEPT !.at = "patch", !.seen = <<>>, !.todo = patches]]
        BY <1>3 DEF ReadTxns
      <2>2. PICK patches : clerk' = [clerk EXCEPT ![c] = IF patches = {} THEN RolledUp(c)
                                                          ELSE [@ EXCEPT !.at = "patch", !.seen = <<>>, !.todo = patches]]
        BY <2>1
      <2>3. CASE patches = {}
        <3>1. clerk' = [clerk EXCEPT ![c] = RolledUp(c)]
          BY <2>2, <2>3
        <3>2. /\ DOMAIN RolledUp(c) = JobFields /\ RolledUp(c).at \in {"idle", "finish"}
              /\ RolledUp(c).index \subseteq 1..Len(ledger) /\ RolledUp(c).made \subseteq clerk[c].made
          BY <1>1, <2>1, RolledUpJob
        <3> QED
          BY <2>1, <3>1, <3>2, JobMoves
      <2>4. CASE patches # {}
        <3> DEFINE x == [clerk[c] EXCEPT !.at = "patch", !.seen = <<>>, !.todo = patches]
        <3>1. clerk' = [clerk EXCEPT ![c] = x]
          BY <2>2, <2>4
        <3>2. DOMAIN x = JobFields /\ x.at = "patch" /\ x.index = clerk[c].index /\ x.made = clerk[c].made
          BY <1>1 DEF JobFields
        <3> HIDE DEF x
        <3> QED
          BY <1>1, <2>1, <3>1, <3>2, JobMoves
      <2> QED
        BY <2>3, <2>4
    <1> QED
      BY <1>2, <1>3

LEMMA PatchedRow ==
    ASSUME NEW row, "number" \in DOMAIN row, NEW actual, NEW status
    PROVE  LET new == [row EXCEPT !.actual = actual, !.status = status]
           IN  "number" \in DOMAIN new /\ new.number = row.number
    OBVIOUS

LEMMA PatchRowKeeps == ASSUME MoneyInv, NEW c \in Clerk, NEW patch \in clerk[c].todo, PatchRow(c, patch) PROVE MoneyInv'
    <1>1. clerk[c].at = "patch" /\ UNCHANGED <<today, batch, txns, statements, stops>>
      BY DEF PatchRow
    <1>2. LedgerKept
      <2> DEFINE row == [ledger[patch.row] EXCEPT !.actual = patch.verdict.actual, !.status = patch.verdict.status]
      <2>1. ledger' = [ledger EXCEPT ![patch.row] = row]
        BY DEF PatchRow
      <2>2. patch.row \in 1..Len(ledger) => "number" \in DOMAIN row /\ row.number = ledger[patch.row].number
        BY PatchedRow DEF MoneyInv, LedgerRows
      <2> HIDE DEF row
      <2> QED
        BY <2>1, <2>2, LedgerChanges DEF MoneyInv
    <1>3. JobKnows(c)
      BY DEF MoneyInv
    <1>4. PICK x : /\ clerk' = [clerk EXCEPT ![c] = x] /\ DOMAIN x = JobFields /\ x.at \notin {"insert", "link"}
                   /\ x.index \subseteq clerk[c].index /\ x.made \subseteq clerk[c].made
      <2>1. CASE clerk[c].todo = {patch}
        <3>1. clerk' = [clerk EXCEPT ![c] = RolledUp(c)]
          BY <2>1 DEF PatchRow
        <3>2. /\ DOMAIN RolledUp(c) = JobFields /\ RolledUp(c).at \notin {"insert", "link"}
              /\ RolledUp(c).index \subseteq clerk[c].index /\ RolledUp(c).made \subseteq clerk[c].made
          BY <1>1, RolledUpJob
        <3> QED
          BY <3>1, <3>2
      <2>2. CASE clerk[c].todo # {patch}
        <3> DEFINE x == [clerk[c] EXCEPT !.todo = @ \ {patch}]
        <3>1. clerk' = [clerk EXCEPT ![c] = x]
          <4>1. clerk' = [clerk EXCEPT ![c] = IF clerk[c].todo = {patch} THEN RolledUp(c) ELSE x]
            BY DEF PatchRow
          <4> HIDE DEF x
          <4> QED
            BY <2>2, <4>1
        <3>2. DOMAIN x = JobFields /\ x.at = "patch" /\ x.index = clerk[c].index /\ x.made = clerk[c].made
          BY <1>1, <1>3 DEF JobKnows, JobFields
        <3> HIDE DEF x
        <3> QED
          BY <3>1, <3>2
      <2> QED
        BY <2>1, <2>2
    <1>5. clerk' = [d \in Clerk |-> clerk'[d]] /\ clerk'[c] = x /\ \A d \in Clerk : d # c => clerk'[d] = clerk[d]
      BY <1>4, ClerkIsFunction
    <1>6. x.index \subseteq 1..Len(ledger') /\ \A m \in x.made : m \in 1..Len(ledger') /\ ledger'[m].number.key # ""
      <2>1. \A i \in 1..Len(ledger) : i \in 1..Len(ledger') /\ ledger'[i].number = ledger[i].number
        BY <1>2, RowsStayThere DEF MoneyInv
      <2> QED
        BY <1>3, <1>4, <2>1 DEF JobKnows
    <1>7. JobKnows(c)'
      BY <1>4, <1>5, <1>6 DEF JobKnows
    <1>8. /\ today' \in 1..LastDay /\ stops' \in 0..MaxStops /\ batch' \in [File -> BatchState]
          /\ statements' \in Nat /\ statements <= statements' /\ \A u \in txns' : u \in txns
      BY <1>1 DEF MoneyInv, LinesTyped
    <1> QED
      BY <1>2, <1>5, <1>7, <1>8, MoneyKeeps


(***************************************************************************)
(* The nightly seed: it adds rows and refreshes them, never their number.  *)
(***************************************************************************)
LEMMA StartSeedKeeps == ASSUME MoneyInv, StartSeed PROVE MoneyInv'
    <1> DEFINE x == [NotBusy EXCEPT !.at = "seed", !.index = 1..Len(ledger), !.todo = Policies]
    <1>1. clerk' = [clerk EXCEPT !["sync"] = x] /\ UNCHANGED <<today, batch, txns, ledger, statements, stops>> /\ "sync" \in Clerk
      BY DEF StartSeed, Clerk
    <1>2. DOMAIN x = JobFields /\ x.at = "seed" /\ x.index = 1..Len(ledger) /\ x.made = {}
      BY NotBusyJob DEF JobFields
    <1> HIDE DEF x
    <1> QED
      BY <1>1, <1>2, JobMoves

LEMMA RefreshedRow ==
    ASSUME NEW row, "number" \in DOMAIN row, NEW p
    PROVE  "number" \in DOMAIN Refreshed(row, p) /\ Refreshed(row, p).number = row.number
    <1>1. ASSUME NEW start, NEW end, NEW expected
          PROVE  LET new == [row EXCEPT !.start = start, !.end = end, !.expected = expected]
                 IN  "number" \in DOMAIN new /\ new.number = row.number
      OBVIOUS
    <1>2. PICK start, end, expected : Refreshed(row, p) = [row EXCEPT !.start = start, !.end = end, !.expected = expected]
      BY DEF Refreshed
    <1> QED
      BY <1>1, <1>2

LEMMA SeedOneLedger == ASSUME MoneyInv, NEW p \in Policies, SeedOne(p) PROVE LedgerKept
    <1> DEFINE found == RowsNumbered(clerk["sync"].index, policy[p].number)
    <1>1. LedgerRows /\ Len(ledger) \in Nat /\ MaxRows \in Nat /\ Len(ledger) <= MaxRows
      BY LedgerLength, CommissionAssumption DEF MoneyInv, LedgerRows
    <1>2. CASE UNCHANGED ledger
      BY <1>1, <1>2, LedgerAsItWas
    <1>3. CASE ledger' = IF Len(ledger) = MaxRows THEN ledger ELSE Append(ledger, SeedRow(p))
      <2>1. CASE Len(ledger) = MaxRows
        BY <1>1, <1>3, <2>1, LedgerAsItWas
      <2>2. CASE Len(ledger) # MaxRows
        <3>1. Len(ledger) < MaxRows /\ "number" \in DOMAIN SeedRow(p)
          BY <1>1, <2>2 DEF SeedRow
        <3>2. ledger' = Append(ledger, SeedRow(p))
          BY <1>3, <2>2
        <3> QED
          BY <1>1, <3>1, <3>2, LedgerGrows
      <2> QED
        BY <2>1, <2>2
    <1>4. ASSUME NEW i \in found, ledger' = [ledger EXCEPT ![i] = Refreshed(@, p)] PROVE LedgerKept
      <2> DEFINE row == Refreshed(ledger[i], p)
      <2>1. ledger' = [ledger EXCEPT ![i] = row]
        BY <1>4
      <2>2. i \in 1..Len(ledger) => "number" \in DOMAIN row /\ row.number = ledger[i].number
        BY <1>1, RefreshedRow DEF LedgerRows
      <2> HIDE DEF row
      <2> QED
        BY <1>1, <2>1, <2>2, LedgerChanges
    <1> QED
      BY <1>2, <1>3, <1>4 DEF SeedOne

LEMMA SeedPolicyKeeps == ASSUME MoneyInv, NEW p \in Policies, SeedPolicy(p) PROVE MoneyInv'
    <1>1. UNCHANGED <<today, batch, txns, statements>> /\ clerk["sync"].at = "seed" /\ "sync" \in Clerk
      BY DEF SeedPolicy, Clerk
    <1>2. /\ LedgerKept /\ stops' \in 0..MaxStops
          /\ \E new : new \subseteq 1..Len(ledger') /\ clerk' = [clerk EXCEPT !["sync"] = SeedDone(p, new)]
      <2>1. CASE SeedOne(p) /\ UNCHANGED stops
        <3>1. LedgerKept /\ stops' \in 0..MaxStops
          BY <2>1, SeedOneLedger DEF MoneyInv
        <3> DEFINE new == IF Len(ledger') > Len(ledger) THEN {Len(ledger')} ELSE {}
        <3>2. clerk' = [clerk EXCEPT !["sync"] = SeedDone(p, new)]
          BY <2>1 DEF SeedOne
        <3>3. new \subseteq 1..Len(ledger')
          <4>1. Len(ledger) \in Nat
            BY LedgerLength DEF MoneyInv
          <4>2. Len(ledger') \in Nat
            <5>1. PICK S : ledger' \in Seq(S)
              BY <3>1 DEF LedgerKept, LedgerRows
            <5> QED
              BY <5>1
          <4> QED
            BY <4>1, <4>2
        <3> QED
          BY <3>1, <3>2, <3>3
      <2>2. CASE Seedable(p) /\ MoneyStop /\ clerk' = [clerk EXCEPT !["sync"] = SeedDone(p, {})] /\ UNCHANGED ledger
        <3>1. LedgerKept
          BY <2>2, LedgerAsItWas DEF MoneyInv
        <3> QED
          BY <2>2, <3>1, StopsCounted
      <2> QED
        BY <2>1, <2>2 DEF SeedPolicy
    <1>3. PICK new : new \subseteq 1..Len(ledger') /\ clerk' = [clerk EXCEPT !["sync"] = SeedDone(p, new)]
      BY <1>2
    <1>4. JobKnows("sync")
      BY <1>1 DEF MoneyInv
    <1>5. /\ DOMAIN SeedDone(p, new) = JobFields /\ SeedDone(p, new).at \in {"idle", "seed"}
          /\ SeedDone(p, new).index \subseteq clerk["sync"].index \cup new
          /\ SeedDone(p, new).made \subseteq clerk["sync"].made
      <2>1. CASE clerk["sync"].todo = {p}
        BY <2>1, NotBusyJob DEF SeedDone
      <2>2. CASE clerk["sync"].todo # {p}
        <3> DEFINE x == [clerk["sync"] EXCEPT !.todo = @ \ {p}, !.index = @ \cup new]
        <3>1. SeedDone(p, new) = x
          BY <2>2 DEF SeedDone
        <3>2. DOMAIN x = JobFields /\ x.at = "seed" /\ x.index = clerk["sync"].index \cup new /\ x.made = clerk["sync"].made
          BY <1>1, <1>4 DEF JobKnows, JobFields
        <3> HIDE DEF x
        <3> QED
          BY <3>1, <3>2
      <2> QED
        BY <2>1, <2>2
    <1> DEFINE x == SeedDone(p, new)
    <1>6. clerk' = [clerk EXCEPT !["sync"] = x]
      BY <1>3
    <1> HIDE DEF x
    <1>7. clerk' = [d \in Clerk |-> clerk'[d]] /\ clerk'["sync"] = x /\ \A d \in Clerk : d # "sync" => clerk'[d] = clerk[d]
      BY <1>1, <1>6, ClerkIsFunction
    <1>8. \A i \in 1..Len(ledger) : i \in 1..Len(ledger') /\ ledger'[i].number = ledger[i].number
      BY <1>2, RowsStayThere DEF MoneyInv
    <1>9. x.index \subseteq 1..Len(ledger') /\ \A m \in x.made : m \in 1..Len(ledger') /\ ledger'[m].number.key # ""
      BY <1>3, <1>4, <1>5, <1>8 DEF JobKnows, x
    <1>10. JobKnows("sync")'
      BY <1>5, <1>7, <1>9 DEF JobKnows, x
    <1>11. /\ today' \in 1..LastDay /\ batch' \in [File -> BatchState]
           /\ statements' \in Nat /\ statements <= statements' /\ \A u \in txns' : u \in txns
      BY <1>1 DEF MoneyInv, LinesTyped
    <1> QED
      BY <1>2, <1>7, <1>10, <1>11, MoneyKeeps

LEMMA DayPassesKeeps == ASSUME MoneyInv, DayPasses PROVE MoneyInv'
    <1>1. UNCHANGED <<batch, txns, ledger, clerk, statements, stops>> /\ today < LastDay /\ today' = today + 1
      BY DEF DayPasses
    <1>2. today' \in 1..LastDay
      <2>1. LastDay \in Nat /\ today \in 1..LastDay
        BY CommissionAssumption DEF MoneyInv
      <2> QED
        BY <1>1, <2>1
    <1>3. /\ stops' \in 0..MaxStops /\ batch' \in [File -> BatchState] /\ statements' \in Nat /\ statements <= statements'
          /\ clerk' = [d \in Clerk |-> clerk'[d]] /\ (\A d \in Clerk : clerk'[d] = clerk[d])
          /\ \A t \in txns' : t \in txns
      BY <1>1 DEF MoneyInv, LinesTyped
    <1>4. LedgerKept
      BY <1>1, LedgerAsItWas DEF MoneyInv
    <1>5. PICK none : none \notin Clerk
      BY NoSetContainsEverything
    <1> QED
      BY <1>2, <1>3, <1>4, <1>5, MoneyKeeps

-----------------------------------------------------------------------------

LEMMA ClerkStepKeeps == ASSUME MoneyInv, NEW c \in Clerk, ClerkStep(c) \/ ClerkDies(c) PROVE MoneyInv'
    <1>1. CASE \E r \in clerk[c].todo : InsertTxn(c, r)
      BY <1>1, InsertTxnKeeps
    <1>2. CASE Relink(c)
      <2>1. CASE ReadIndex(c)
        BY <2>1, ReadIndexKeeps
      <2>2. CASE \E t \in clerk[c].todo : LinkTxn(c, t) \/ CreateLedgerRow(c, t) \/ LeaveUnmatched(c, t)
        BY <2>2, LinkTxnKeeps, CreateLedgerRowKeeps, LeaveUnmatchedKeeps
      <2> QED
        BY <1>2, <2>1, <2>2 DEF Relink
    <1>3. CASE Rollup(c)
      BY <1>3, RollupReads, PatchRowKeeps DEF Rollup
    <1>4. CASE FinishCommit(c)
      BY <1>4, FinishCommitKeeps
    <1>5. CASE ClerkDies(c)
      <2>1. clerk' = [clerk EXCEPT ![c] = NotBusy] /\ UNCHANGED <<today, batch, txns, ledger, statements>> /\ MoneyStop
        BY <1>5 DEF ClerkDies
      <2> QED
        BY <2>1, JobRests
    <1> QED
      BY <1>1, <1>2, <1>3, <1>4, <1>5 DEF ClerkStep

LEMMA MoneyStep == ASSUME MoneyInv, [MoneyNext]_moneyVars PROVE MoneyInv'
    <1>1. CASE UNCHANGED moneyVars
      <2>1. UNCHANGED <<today, batch, txns, ledger, clerk, statements, stops>>
        BY <1>1 DEF moneyVars
      <2> QED
        BY <2>1, BatchesMove DEF MoneyInv
    <1>2. ASSUME NEW f \in File, UploadStatement(f) \/ PollInbox(f) \/ StageLine(f) \/ RejectStatement(f) PROVE MoneyInv'
      BY <1>2, StageStatementKeeps, StageLineKeeps, RejectStatementKeeps DEF UploadStatement, PollInbox
    <1>3. CASE \E a \in Approver, f \in File, confirmed \in BOOLEAN : BeginCommit(a, f, confirmed)
      BY <1>3, BeginCommitKeeps
    <1>4. CASE Seed
      BY <1>4, StartSeedKeeps, SeedPolicyKeeps DEF Seed
    <1>5. CASE DayPasses
      BY <1>5, DayPassesKeeps
    <1>6. ASSUME NEW c \in Clerk, ClerkStep(c) \/ ClerkDies(c) PROVE MoneyInv'
      BY <1>6, ClerkStepKeeps
    <1> QED
      BY <1>1, <1>2, <1>3, <1>4, <1>5, <1>6 DEF MoneyNext

LEMMA MoneyStart == ASSUME NEW CONSTANT policies, MoneyInit(policies) PROVE MoneyInv
    <1>1. /\ today = 1 /\ txns = {} /\ ledger = <<>> /\ statements = 0 /\ stops = 0
          /\ batch = [f \in File |-> [status |-> "none", ok |-> TRUE, coming |-> {}, staged |-> {}]]
          /\ clerk = [c \in Clerk |-> NotBusy]
      BY DEF MoneyInit
    <1>2. today \in 1..LastDay /\ stops \in 0..MaxStops /\ Len(ledger) <= MaxRows /\ Len(ledger) = 0
      BY <1>1, CommissionAssumption
    <1>3. batch \in [File -> BatchState]
      <2>1. [status |-> "none", ok |-> TRUE, coming |-> {}, staged |-> {}] \in BatchState
        BY DEF BatchState
      <2> QED
        BY <1>1, <2>1
    <1>4. LedgerRows
      <2>1. ledger \in Seq(Nat)
        BY <1>1
      <2> QED
        BY <1>2, <2>1 DEF LedgerRows
    <1>5. LinesTyped /\ LinksAgree
      BY <1>1 DEF LinesTyped, LinksAgree
    <1>6. \A c \in Clerk : JobKnows(c)
      BY <1>1, NotBusyJob DEF JobKnows
    <1>7. clerk = [c \in Clerk |-> clerk[c]]
      BY <1>1
    <1> QED
      BY <1>2, <1>3, <1>4, <1>5, <1>6, <1>7 DEF MoneyInv

LEMMA MoneyInvTypes == MoneyInv => MoneyTypeOK /\ LinksAgree
    <1> SUFFICES ASSUME MoneyInv PROVE MoneyTypeOK /\ LinksAgree
      OBVIOUS
    <1>1. \A f \in File : batch[f].status \in {"none", "pending_review", "error", "rejected", "committed"}
      BY DEF MoneyInv, BatchState
    <1> QED
      BY <1>1 DEF MoneyInv, MoneyTypeOK, LinesTyped, LedgerRows

(***************************************************************************)
(* A line of a statement is linked to a row under its own policy number,   *)
(* and filler only to a row spelled just so, whichever approvals, seeds    *)
(* and reconcile jobs overlap, die or read too early (matching.py:         *)
(* match_line() and relink_unmatched()).                                   *)
(***************************************************************************)
THEOREM LinksAlwaysAgree == ASSUME NEW CONSTANT policies PROVE MoneySpec(policies) => [](MoneyTypeOK /\ LinksAgree)
    <1>1. MoneySpec(policies) => []MoneyInv
      BY MoneyStart, MoneyStep, PTL DEF MoneySpec
    <1> QED
      BY <1>1, MoneyInvTypes, PTL

(***************************************************************************)
(* The cached book, the mirror and the ledger are well formed, and the     *)
(* links of the ledger agree: what the run of the back office checks.      *)
(***************************************************************************)
THEOREM BackOfficeIsSafe == ASSUME NEW CONSTANT policies PROVE BookSpec /\ MoneySpec(policies) => []BackOfficeSafe
    <1>1. MoneySpec(policies) => []MoneyInv
      BY MoneyStart, MoneyStep, PTL DEF MoneySpec
    <1>2. BookInv /\ MoneyInv => BackOfficeSafe
      BY BookInvTypes, MoneyInvTypes DEF BackOfficeSafe
    <1> QED
      BY <1>1, <1>2, BookKept, PTL

=============================================================================
