--------------------------- MODULE RenewalCases ----------------------------
(***************************************************************************)
(* The case of a renewal event (hermes/renewals/cases.py): people ask for  *)
(* it in commands (hermes/commands/renewal_cases.py) and the casework      *)
(* sentinel (hermes/jobs/casework_sentinel.py) opens what slipped.  The    *)
(* case and the row that names its event are two inserts, and the unique   *)
(* identity of the second is all that keeps events and cases one to one.   *)
(* Cases are closed in the cases app, a process dies between any two       *)
(* requests.  An event is its identity, with the client and the day it     *)
(* expires; a case is its place in the table.                              *)
(***************************************************************************)
EXTENDS Integers, Sequences, FiniteSets

CONSTANTS
    Event, Client(_), Expires(_),    \* identities, their insured and expiry
    Today, Horizon, Grace, Cap,      \* scan(): horizon_days, 30 days back, limit
    Asker, Sentinel,                 \* processes
    NoEvent,
    MaxCaseFaults, MaxCaseMoves      \* bounds

VARIABLES
    eligible,       \* the events renewal_candidates calls eligible
    cases,          \* agency_crm_cases
    details,        \* renewal_case_details
    caseWork,       \* what each process is doing
    told,           \* the cases people were told, by event
    caseFaults, caseMoves

caseVars == <<eligible, cases, details, caseWork, told, caseFaults, caseMoves>>

Resting == [at |-> "rest", event |-> NoEvent, case |-> 0, left |-> <<>>, found |-> <<>>]
Opening(w, e) == [w EXCEPT !.at = "find", !.event = e, !.case = 0]

CasesInit ==
    /\ eligible = Event
    /\ cases = <<>> /\ details = {} /\ told = {}
    /\ caseWork = [p \in Asker \cup Sentinel |-> Resting]
    /\ caseFaults = 0 /\ caseMoves = 0

CaseWork(p, w) == caseWork' = [caseWork EXCEPT ![p] = w]

-----------------------------------------------------------------------------
(* create_case()                                                           *)

\* The sentinel goes on to its next finding.
NextFinding(p) ==
    LET w == caseWork[p]
    IN  CaseWork(p, IF w.left = <<>> THEN Resting ELSE [Opening(w, Head(w.left)) EXCEPT !.left = Tail(w.left)])

\* A command answers.
AfterCase(p, c) ==
    LET w == caseWork[p] IN
    IF p \in Sentinel
    THEN NextFinding(p) /\ UNCHANGED told
    ELSE told' = told \cup {[event |-> w.event, case |-> c]} /\ CaseWork(p, Resting)

DetailsOf(e) == {d \in details : d.event = e}

\* The case of the identity is returned whether it is open or not.
FindCase(p) ==
    /\ caseWork[p].at = "find"
    /\ IF DetailsOf(caseWork[p].event) # {}
       THEN \E d \in DetailsOf(caseWork[p].event) : AfterCase(p, d.case)
       ELSE CaseWork(p, [caseWork[p] EXCEPT !.at = "insert"]) /\ UNCHANGED told
    /\ UNCHANGED <<eligible, cases, details, caseFaults, caseMoves>>

InsertCase(p) ==
    /\ caseWork[p].at = "insert"
    /\ cases' = Append(cases, [event |-> caseWork[p].event, status |-> "open"])
    /\ CaseWork(p, [caseWork[p] EXCEPT !.at = "detail", !.case = Len(cases')])
    /\ UNCHANGED <<eligible, details, told, caseFaults, caseMoves>>

\* An exception ends the command; the sentinel records it and goes on.
CaseFails(p) == UNCHANGED told /\ IF p \in Sentinel THEN NextFinding(p) ELSE CaseWork(p, Resting)

\* A faulty table without the constraint.
IdentityNeverTaken(e) == FALSE

\* uq_renewal_case_details_identity
IdentityTaken(e) == DetailsOf(e) # {}

InsertDetails(p) ==
    LET e == caseWork[p].event IN
    /\ caseWork[p].at = "detail"
    /\ IF IdentityTaken(e) THEN CaseFails(p) /\ UNCHANGED details
       ELSE details' = details \cup {[event |-> e, case |-> caseWork[p].case]} /\ CaseWork(p, [caseWork[p] EXCEPT !.at = "log"]) /\ UNCHANGED told
    /\ UNCHANGED <<eligible, cases, caseFaults, caseMoves>>

\* The timeline entry; then the caller has the case.
LogOpened(p) == /\ caseWork[p].at = "log" /\ AfterCase(p, caseWork[p].case)
                /\ UNCHANGED <<eligible, cases, details, caseFaults, caseMoves>>

-----------------------------------------------------------------------------
(* The commands                                                            *)

\* create_case_handle() and create_tasks_handle(): the policy is resolved, and its
\* event is the candidate's.
Ask(p) ==
    /\ caseWork[p].at = "rest" /\ caseMoves < MaxCaseMoves /\ caseMoves' = caseMoves + 1
    /\ \E e \in Event : CaseWork(p, Opening(Resting, e))
    /\ UNCHANGED <<eligible, cases, details, told, caseFaults>>

-----------------------------------------------------------------------------
(* The sentinel                                                            *)

\* Only an open case covers, and it covers every event of its client.
Covered(e) == \E i \in DOMAIN cases : cases[i].status = "open" /\ Client(cases[i].event) = Client(e)

Slipped == {e \in eligible : Expires(e) \in (Today - Grace)..(Today + Horizon) /\ ~Covered(e)}

\* Soonest first; of events that expire together in any order.
Orders(S) == {s \in [1..Cardinality(S) -> S] :
                 /\ \A i, j \in DOMAIN s : i # j => s[i] # s[j]
                 /\ \A i, j \in DOMAIN s : i < j => Expires(s[i]) <= Expires(s[j])}

Shorter(a, b) == IF a < b THEN a ELSE b

\* scan(commit): the findings up to the cap are opened, the rest is deferred.
Scan(p) ==
    /\ caseWork[p].at = "rest" /\ caseMoves < MaxCaseMoves /\ caseMoves' = caseMoves + 1
    /\ Slipped # {}
    /\ \E found \in Orders(Slipped) :
          LET selected == SubSeq(found, 1, Shorter(Cap, Len(found)))
          IN  CaseWork(p, [Opening(Resting, selected[1]) EXCEPT !.left = Tail(selected), !.found = found])
    /\ UNCHANGED <<eligible, cases, details, told, caseFaults>>

-----------------------------------------------------------------------------
(* Faults and other people                                                 *)

\* A request fails, or the process dies, between two requests.
CaseFault(p) ==
    /\ caseWork[p].at # "rest" /\ caseFaults < MaxCaseFaults /\ caseFaults' = caseFaults + 1
    /\ (CaseFails(p) \/ (CaseWork(p, Resting) /\ UNCHANGED told))
    /\ UNCHANGED <<eligible, cases, details, caseMoves>>

CloseCase ==
    /\ caseMoves < MaxCaseMoves /\ caseMoves' = caseMoves + 1
    /\ \E i \in DOMAIN cases : cases[i].status = "open" /\ cases' = [cases EXCEPT ![i].status = "closed"]
    /\ UNCHANGED <<eligible, details, caseWork, told, caseFaults>>

\* The nightly refresh rules on the events again.
RuleAgain ==
    /\ caseMoves < MaxCaseMoves /\ caseMoves' = caseMoves + 1
    /\ \E e \in Event : eligible' = IF e \in eligible THEN eligible \ {e} ELSE eligible \cup {e}
    /\ UNCHANGED <<cases, details, caseWork, told, caseFaults>>

CasesNext ==
    \/ CloseCase \/ RuleAgain
    \/ \E p \in Asker : Ask(p)
    \/ \E p \in Sentinel : Scan(p)
    \/ \E p \in Asker \cup Sentinel : FindCase(p) \/ InsertCase(p) \/ InsertDetails(p) \/ LogOpened(p) \/ CaseFault(p)

CasesSpec == CasesInit /\ [][CasesNext]_caseVars

-----------------------------------------------------------------------------
(* Properties                                                              *)

\* Everybody who is told the case of an event is told the same one, whichever
\* commands and sentinel runs race for it and wherever they die.  (cases.py: "a
\* repeated Hermes command returns the same case")
AnswersAgree == \A a, b \in told : a.event = b.event => a.case = b.case
=============================================================================
