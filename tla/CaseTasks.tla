----------------------------- MODULE CaseTasks -----------------------------
(***************************************************************************)
(* The tasks of a case, of a client and of the office, and the end of a    *)
(* case (hermes_core/casestore.py): commands and the tools of agents       *)
(* create tasks by title, people move them along or tick them off a list   *)
(* they loaded earlier (hermes/operations/team_queue.py), a case is closed *)
(* over its checklist or deleted with everything filed under it.  The      *)
(* triggers of the tables (20260727000000_case_templates_and_close_checks) *)
(* are part of every write.  The health check (hermes/operations/          *)
(* staleness.py) judges from the stamps whether tasks still get done.      *)
(*                                                                         *)
(* One case.  Priorities, dates and assignees are left out, and so are     *)
(* changes of a title, which make another task of it.                      *)
(***************************************************************************)
EXTENDS Integers, Sequences

CONSTANTS
    Hand,                              \* people and agents
    Title, Checklist,                   \* titles, and those a template requires
    Chores,                             \* scopes outside the case: a client, the office
    MaxQuiet,                           \* max_age_days of "task completion"
    LastTaskDay, MaxTasks, MaxTaskMoves, MaxTaskFaults \* bounds

ASSUME TasksAssumption == Checklist \subseteq Title /\ {MaxQuiet, LastTaskDay, MaxTasks, MaxTaskMoves, MaxTaskFaults} \subseteq Nat /\ LastTaskDay > 0

VARIABLES
    taskDay,
    theCase,        \* agency_crm_cases: open, closed or gone
    filed,          \* the child tables, other than tasks, with a row of the case
    tasks,          \* agency_crm_tasks, in the order of their creation
    hands,         \* the request of each hand
    late,           \* history: something was filed for a case on its way out
    taskMoves, taskFaults

taskVars == <<taskDay, theCase, filed, tasks, hands, late, taskMoves, taskFaults>>

-----------------------------------------------------------------------------
(* The tables                                                              *)

Scopes == {"case"} \cup Chores
Closing == {"completed", "cancelled"}        \* TASK_STATUS_CLOSED
TaskStatus == {"not_started", "in_progress"} \cup Closing      \* waiting is like in progress
ChildTables == <<"links", "events", "details", "tasks">>

\* A row that was deleted keeps its place, so that ids stay what they are.
Rows == {i \in DOMAIN tasks : tasks[i].status # "deleted"}
OpenRows == {i \in Rows : tasks[i].status \notin Closing}
TitlesOf(rows, scope) == {tasks[i].title : i \in {j \in rows : tasks[j].scope = scope}}

\* A faulty trigger that leaves the stamp to the caller.
StampedByCaller(old, status, stamp) == stamp

\* stamp_task_completion(): no stamp is 0.
Stamped(old, status, stamp) ==
    IF status = "completed" /\ old # "completed" THEN (IF stamp = 0 THEN taskDay ELSE stamp)
    ELSE IF status # "completed" /\ old = "completed" THEN 0
    ELSE stamp

HandRests == [at |-> "rest"]
HandGoes(p, c) == hands' = [hands EXCEPT ![p] = c]

TaskMove == taskMoves < MaxTaskMoves /\ taskMoves' = taskMoves + 1
TaskFault == taskFaults < MaxTaskFaults /\ taskFaults' = taskFaults + 1

-----------------------------------------------------------------------------
(* create_tasks()                                                          *)

\* create_tasks_handle(), the bridge's create_task, or a chore.
StartTasks(p, scope, titles) ==
    /\ hands[p].at = "rest" /\ TaskMove
    /\ HandGoes(p, [at |-> "look", scope |-> scope, asked |-> titles])
    /\ UNCHANGED <<taskDay, theCase, filed, tasks, late, taskFaults>>

\* A faulty search that finds the chores that are done as well.
TakenEver(scope) == TitlesOf(Rows, scope)

\* _open_titles_in_scope(): in a case every task counts, elsewhere those that are open.
Taken(scope) == IF scope = "case" THEN TitlesOf(Rows, "case") ELSE TitlesOf(OpenRows, scope)

Looked(p, taken) ==
    LET c == hands[p]
    IN  HandGoes(p, [at |-> "insert", scope |-> c.scope, asked |-> c.asked, left |-> c.asked \ taken, made |-> {},
                      there |-> TitlesOf(OpenRows, c.scope), known |-> Len(tasks)])

LookTitles(p) ==
    /\ hands[p].at = "look"
    /\ Looked(p, Taken(hands[p].scope))
    /\ UNCHANGED <<taskDay, theCase, filed, tasks, late, taskMoves, taskFaults>>

\* The read of a case's tasks may raise; that of the others counts as empty.
LookFails(p) ==
    /\ hands[p].at = "look" /\ TaskFault
    /\ IF hands[p].scope = "case" THEN HandGoes(p, HandRests) ELSE Looked(p, {})
    /\ UNCHANGED <<taskDay, theCase, filed, tasks, late, taskMoves>>

\* known is history: how many rows there were when their creator looked.
Entered(c, t) ==
    tasks' = Append(tasks, [scope |-> c.scope, title |-> t, required |-> c.scope = "case" /\ t \in Checklist,
                            status |-> "not_started", stamp |-> 0, done |-> 0, cancelled |-> FALSE, since |-> theCase = "closed",
                            known |-> c.known])

\* The foreign key refuses a task of a case that is gone.
InsertTask(p) ==
    LET c == hands[p] IN
    /\ c.at = "insert" /\ Len(tasks) < MaxTasks
    /\ \E t \in c.left :
          IF c.scope = "case" /\ theCase = "gone" THEN HandGoes(p, HandRests) /\ UNCHANGED tasks
          ELSE Entered(c, t) /\ HandGoes(p, [c EXCEPT !.left = @ \ {t}, !.made = @ \cup {t}])
    /\ UNCHANGED <<taskDay, theCase, filed, late, taskMoves, taskFaults>>

TasksMade(p) ==
    /\ hands[p].at = "insert" /\ hands[p].left = {}
    /\ HandGoes(p, HandRests)
    /\ UNCHANGED <<taskDay, theCase, filed, tasks, late, taskMoves, taskFaults>>

-----------------------------------------------------------------------------
(* The life of a task                                                      *)

Moved(i, status, stamp) ==
    LET t == tasks[i]
    IN  tasks' = [tasks EXCEPT ![i] = [t EXCEPT !.status = status, !.stamp = Stamped(t.status, status, stamp),
                      !.done = IF status = "completed" /\ t.status # "completed" THEN taskDay ELSE @,
                      !.cancelled = @ \/ status = "cancelled", !.since = @ \/ (theCase = "closed" /\ status \notin Closing)]]

\* update_task()
UpdateTask(i, status) ==
    /\ i \in Rows /\ TaskMove
    /\ Moved(i, status, IF status \in Closing THEN taskDay ELSE 0)
    /\ UNCHANGED <<taskDay, theCase, filed, hands, late, taskFaults>>

\* list_open_tasks(), or the endpoint of the same list.
ListTasks(p) ==
    /\ hands[p].at = "rest" /\ OpenRows # {} /\ TaskMove
    /\ HandGoes(p, [at |-> "list", listed |-> OpenRows])
    /\ UNCHANGED <<taskDay, theCase, filed, tasks, late, taskFaults>>

\* complete_task(): by id, whatever the task is by now.
CompleteTask(p) ==
    /\ hands[p].at = "list"
    /\ \E i \in hands[p].listed :
          IF i \in Rows THEN Moved(i, "completed", tasks[i].stamp) ELSE UNCHANGED tasks
    /\ HandGoes(p, HandRests)
    /\ UNCHANGED <<taskDay, theCase, filed, late, taskMoves, taskFaults>>

DeleteTask(i) ==
    /\ i \in Rows /\ TaskMove
    /\ tasks' = [tasks EXCEPT ![i].status = "deleted"]
    /\ UNCHANGED <<taskDay, theCase, filed, hands, late, taskFaults>>

-----------------------------------------------------------------------------
(* The end of a case                                                       *)

\* A faulty trigger that does not look at the checklist.
ClosableAlways == theCase = "open"

\* enforce_case_close_checks()
Closable == theCase = "open" /\ \A i \in OpenRows : tasks[i].scope = "case" => ~tasks[i].required

\* The cases app, or anybody through PostgREST.
CloseCaseRow ==
    /\ Closable /\ TaskMove /\ theCase' = "closed"
    /\ UNCHANGED <<taskDay, filed, tasks, hands, late, taskFaults>>

StartDelete(p) ==
    /\ hands[p].at = "rest" /\ theCase # "gone" /\ TaskMove
    /\ HandGoes(p, [at |-> "sweep", next |-> 1])
    /\ UNCHANGED <<taskDay, theCase, filed, tasks, late, taskFaults>>

CaseRowsGone == [i \in DOMAIN tasks |-> IF tasks[i].scope = "case" THEN [tasks[i] EXCEPT !.status = "deleted"] ELSE tasks[i]]

\* A faulty order: the case goes before what is filed under it.
SweepNextLate(n) == IF n = 1 THEN 5 ELSE n - 1

\* Which table the n-th request of delete_case() clears, the case after its children.
SweepNext(n) == n

SweepTable(p) ==
    LET c == hands[p]
        k == SweepNext(c.next)
    IN  /\ c.at = "sweep"
        /\ HandGoes(p, IF c.next = 5 THEN HandRests ELSE [c EXCEPT !.next = @ + 1])
        /\ filed' = filed \ {IF k < 5 THEN ChildTables[k] ELSE "details"}
        /\ theCase' = IF k = 5 THEN "gone" ELSE theCase
        /\ tasks' = IF k \in {4, 5} THEN CaseRowsGone ELSE tasks \* at last by cascade, as the details
        /\ UNCHANGED <<taskDay, late, taskMoves, taskFaults>>

\* link_document(), log_case_event(): no key of ours binds their tables to the case.
FileUnderCase(table) ==
    /\ table \in {"links", "events"} /\ TaskMove
    /\ filed' = filed \cup {table}
    /\ late' = (late \/ theCase = "gone" \/ \E p \in Hand : hands[p].at = "sweep")
    /\ UNCHANGED <<taskDay, theCase, tasks, hands, taskFaults>>

-----------------------------------------------------------------------------

\* A request fails or the process dies.
HandStops(p) ==
    /\ hands[p].at # "rest" /\ TaskFault /\ HandGoes(p, HandRests)
    /\ UNCHANGED <<taskDay, theCase, filed, tasks, late, taskMoves>>

NextTaskDay ==
    /\ taskDay < LastTaskDay /\ taskDay' = taskDay + 1
    /\ UNCHANGED <<theCase, filed, tasks, hands, late, taskMoves, taskFaults>>

TasksInit ==
    /\ taskDay = 1 /\ theCase = "open" /\ filed = {"events", "details"} /\ tasks = <<>>
    /\ hands = [p \in Hand |-> HandRests]
    /\ late = FALSE /\ taskMoves = 0 /\ taskFaults = 0

TasksNext ==
    \/ NextTaskDay \/ CloseCaseRow
    \/ \E i \in DOMAIN tasks : DeleteTask(i) \/ \E s \in TaskStatus : UpdateTask(i, s)
    \/ \E table \in {"links", "events"} : FileUnderCase(table)
    \/ \E p \in Hand :
          \/ \E scope \in Scopes, titles \in (SUBSET Title) \ {{}} : StartTasks(p, scope, titles)
          \/ LookTitles(p) \/ LookFails(p) \/ InsertTask(p) \/ TasksMade(p)
          \/ ListTasks(p) \/ CompleteTask(p) \/ StartDelete(p) \/ SweepTable(p) \/ HandStops(p)

TasksSpec == TasksInit /\ [][TasksNext]_taskVars

-----------------------------------------------------------------------------
(* check_rule() for the rule "task completion"                             *)

Stamps == {tasks[i].stamp : i \in Rows} \ {0}

\* The newest stamp is recent enough when one of them is.
TaskVerdict ==
    IF Stamps = {} THEN "never" ELSE IF \E day \in Stamps : taskDay - day <= MaxQuiet THEN "ok" ELSE "stale"

-----------------------------------------------------------------------------
(* Properties                                                              *)

TasksTypeOK ==
    /\ taskDay \in 1..LastTaskDay /\ theCase \in {"open", "closed", "gone"} /\ filed \subseteq {"links", "events", "details"}
    /\ \A i \in DOMAIN tasks : tasks[i].status \in TaskStatus \cup {"deleted"} /\ tasks[i].stamp \in 0..LastTaskDay
    /\ late \in BOOLEAN

\* A chore outside a case that somebody asks for is there afterwards: what is not entered
\* was open when it was looked for.  (casestore.py: "a completed one from last month must
\* not block this month's")
ChoreNotSwallowed ==
    \A p \in Hand : (hands[p].at = "insert" /\ hands[p].scope # "case") =>
        hands[p].asked \subseteq hands[p].left \cup hands[p].made \cup hands[p].there

\* A case has a title twice only when the second was asked for before the first was
\* there: whoever looked later finds it, whatever became of it but its deletion.
\* (casestore.py: "skipping titles already open in the same scope")
TitlesOnce ==
    \A i, j \in Rows :
        i < j /\ tasks[i].scope = "case" /\ tasks[j].scope = "case" /\ tasks[i].title = tasks[j].title => tasks[j].known < i

\* However a task was ticked off, an open one has no stamp, and a completed one has one
\* that is not older than its completion, unless it had been cancelled before.
\* (casestore.py: "the kind of contradiction that makes a queue untrustworthy")
StampsAgree ==
    \A i \in Rows :
        /\ tasks[i].status \notin Closing => tasks[i].stamp = 0
        /\ tasks[i].status = "completed" => (tasks[i].stamp # 0 /\ (tasks[i].cancelled \/ tasks[i].stamp >= tasks[i].done))

\* The health check sees every task that was done lately.
MovementSeen ==
    (\E i \in Rows : /\ tasks[i].status = "completed" /\ ~tasks[i].cancelled
                     /\ taskDay - tasks[i].done <= MaxQuiet) => TaskVerdict = "ok"

\* What a closed case still demands was added or taken up again after it was closed.
ClosedOverChecklist ==
    theCase = "closed" => \A i \in OpenRows : (tasks[i].scope = "case" /\ tasks[i].required) => tasks[i].since

\* Wherever a deletion breaks off, what is filed points at a case that is there, unless
\* it was filed while the case was being deleted.  (casestore.py: "a half-deleted case is
\* worse than a refused one")
NothingOrphaned == (theCase = "gone" /\ ~late) => (filed = {} /\ \A i \in Rows : tasks[i].scope # "case")

TasksSafe == TasksTypeOK /\ ChoreNotSwallowed /\ TitlesOnce /\ StampsAgree /\ MovementSeen /\ ClosedOverChecklist /\ NothingOrphaned
=============================================================================
