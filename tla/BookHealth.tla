----------------------------- MODULE BookHealth -----------------------------
(* hermes/book_sync/health.py: the report that compares the policies of         *)
(* NowCerts with the mirror.  It reads both page by page, while agents edit in  *)
(* NowCerts (whose list is ordered by the last change), the nightly sync and    *)
(* the live book copy policies to the mirror, and a second writer clears rows.  *)
(*                                                                              *)
(* Nothing is deleted or renumbered.  The carrier totals, which do not decide,  *)
(* are left out; what commission_audits says is a choice.                       *)
EXTENDS Integers, Sequences, FiniteSets

CONSTANTS
    Guids,                  \* 1..n, in the order of the mirror
    NumberOf,               \* by GUID; "" is none.  Terms may share one
    HealthPage,             \* rows per page, of either side
    MaxHealthPages,         \* max_pages
    CountTolerance,         \* percent
    MaxHealthEdits          \* bound

ASSUME HealthAssumption ==
    /\ IsFiniteSet(Guids) /\ Guids = 1..Cardinality(Guids) /\ DOMAIN NumberOf = Guids
    /\ {HealthPage, MaxHealthPages} \subseteq Nat \ {0} /\ {CountTolerance, MaxHealthEdits} \subseteq Nat

VARIABLES
    amsSide,        \* by GUID: [live, carrier, date]
    mirrorSide,     \* by GUID: [there, live, carrier]
    health,         \* the check: where it is, what it has read, and its verdict
    healthEdits,
    touched,        \* history: edited in NowCerts since the check began
    matched         \* history: in step at some time since the check began

healthVars == <<amsSide, mirrorSide, health, healthEdits, touched, matched>>

InStep(g) == mirrorSide[g] = [there |-> TRUE, live |-> amsSide[g].live, carrier |-> amsSide[g].carrier]

Beginning == [at |-> "ams", page |-> 0, ams |-> <<>>, rows |-> <<>>, errors |-> FALSE, cut |-> FALSE, verdict |-> ""]

\* copied: the policies the mirror has, as they are in NowCerts.
HealthInit(sides, copied) ==
    /\ amsSide \in sides
    /\ mirrorSide = [g \in Guids |-> IF g \in copied THEN [there |-> TRUE, live |-> amsSide[g].live, carrier |-> amsSide[g].carrier]
                                     ELSE [there |-> FALSE, live |-> FALSE, carrier |-> ""]]
    /\ health = [Beginning EXCEPT !.at = "over"]
    /\ healthEdits = 0 /\ touched = {} /\ matched = {}

-----------------------------------------------------------------------------
(* The reads                                                               *)

AmsRecord(g) == [number |-> NumberOf[g], live |-> amsSide[g].live, carrier |-> amsSide[g].carrier]
MirrorRecord(g) == [number |-> NumberOf[g], live |-> mirrorSide[g].live, carrier |-> mirrorSide[g].carrier]

\* $orderby changeDate desc
ByChange ==
    [k \in 1..Cardinality(Guids) |-> CHOOSE g \in Guids : Cardinality({h \in Guids : amsSide[h].date > amsSide[g].date}) = k - 1]

\* order policy_guid.asc
ByGuid ==
    LET there == {g \in Guids : mirrorSide[g].there}
    IN  [k \in 1..Cardinality(there) |-> CHOOSE g \in there : Cardinality({h \in there : h < g}) = k - 1]

HealthPageOf(list, page) == SubSeq(list, page * HealthPage + 1, IF Len(list) < (page + 1) * HealthPage THEN Len(list) ELSE (page + 1) * HealthPage)

LastPage(page, rows) == Len(rows) < HealthPage \/ page + 1 = MaxHealthPages

Environs == UNCHANGED <<amsSide, mirrorSide, healthEdits, touched>>

BeginCheck ==
    /\ health.at = "over" /\ health' = Beginning
    /\ touched' = {} /\ matched' = {g \in Guids : InStep(g)}
    /\ UNCHANGED <<amsSide, mirrorSide, healthEdits>>

\* fetch_policies() stops at a page that is not full, or at max_pages.
ReadAms ==
    /\ health.at = "ams"
    /\ LET page == HealthPageOf(ByChange, health.page)
           read == [health EXCEPT !.ams = @ \o [k \in DOMAIN page |-> AmsRecord(page[k])], !.page = @ + 1]
       IN  \/ ~LastPage(health.page, page) /\ health' = read
           \/ LastPage(health.page, page) /\ health' = [read EXCEPT !.at = "rows", !.page = 0, !.cut = Len(page) = HealthPage]
           \/ health' = [health EXCEPT !.at = "rows", !.page = 0, !.ams = <<>>, !.errors = TRUE]
    /\ Environs /\ UNCHANGED matched

\* _fetch_canonical_policies()
ReadRows ==
    /\ health.at = "rows"
    /\ LET page == HealthPageOf(ByGuid, health.page)
           read == [health EXCEPT !.rows = @ \o [k \in DOMAIN page |-> MirrorRecord(page[k])], !.page = @ + 1]
       IN  \/ ~LastPage(health.page, page) /\ health' = read
           \/ LastPage(health.page, page) /\ health' = [read EXCEPT !.at = "judge"]
           \/ health' = [health EXCEPT !.at = "judge", !.rows = <<>>, !.errors = TRUE]
    /\ Environs /\ UNCHANGED matched

-----------------------------------------------------------------------------
(* The checks                                                              *)

\* Rows are told apart by their places.
LiveRows(rows) == {k \in DOMAIN rows : rows[k].live}

\* A dictionary by number keeps the last row of a number.
LastOfNumber(rows, among) ==
    {k \in among : rows[k].number # "" /\ ~\E j \in among : j > k /\ rows[j].number = rows[k].number}

\* check_policy_count_agreement()
CountsAgree(ams, rows) ==
    LET n == Cardinality(LiveRows(ams))
        m == Cardinality(LiveRows(rows))
    IN  (IF n > m THEN n - m ELSE m - n) * 100 <= CountTolerance * (IF n = 0 THEN 1 ELSE n)

\* find_tombstoned_policies()
Tombstoned(ams, rows) ==
    {k \in LiveRows(ams) :
        ams[k].number # "" /\ ~\E r \in LastOfNumber(rows, DOMAIN rows) : rows[r].number = ams[k].number /\ rows[r].live}

\* find_carrier_name_mismatches()
Mismatched(ams, rows) ==
    {k \in LastOfNumber(ams, LiveRows(ams)) : \E r \in LastOfNumber(rows, LiveRows(rows)) :
        rows[r].number = ams[k].number /\ rows[r].carrier # ams[k].carrier}

\* report.ok; audits is whether commission_audits was read, and showed no orphan and
\* no drift of the rates.
Judge(audits) ==
    /\ health.at = "judge"
    /\ LET ok == /\ CountsAgree(health.ams, health.rows) /\ Tombstoned(health.ams, health.rows) = {}
                 /\ Mismatched(health.ams, health.rows) = {} /\ audits /\ ~health.errors
       IN  health' = [health EXCEPT !.at = "over", !.page = 0, !.verdict = IF ok THEN "healthy" ELSE "drift"]
    /\ Environs /\ UNCHANGED matched

-----------------------------------------------------------------------------
(* The others                                                              *)

Stirs ==
    /\ healthEdits < MaxHealthEdits /\ healthEdits' = healthEdits + 1
    /\ matched' = matched \cup {g \in Guids : InStep(g)'}
    /\ health' = IF health.at = "over" THEN [health EXCEPT !.verdict = ""] ELSE health

Latest == CHOOSE d \in {amsSide[g].date : g \in Guids} : \A g \in Guids : amsSide[g].date <= d

EditAmsPolicy(g) ==
    /\ \E live \in BOOLEAN, carrier \in {"Geico", "GEICO CHOICE"} :
          amsSide' = [amsSide EXCEPT ![g] = [live |-> live, carrier |-> carrier, date |-> Latest + 1]]
    /\ touched' = touched \cup {g} /\ UNCHANGED mirrorSide /\ Stirs

\* LiveBook: the nightly sync and the live book.
MirrorPolicy(g) ==
    /\ mirrorSide' = [mirrorSide EXCEPT ![g] = [there |-> TRUE, live |-> amsSide[g].live, carrier |-> amsSide[g].carrier]]
    /\ UNCHANGED <<amsSide, touched>> /\ Stirs

\* The second writer of 2026-07-24.
ClearRow(g) ==
    /\ mirrorSide[g].live /\ mirrorSide' = [mirrorSide EXCEPT ![g].live = FALSE]
    /\ UNCHANGED <<amsSide, touched>> /\ Stirs

HealthNext ==
    \/ BeginCheck \/ ReadAms \/ ReadRows
    \/ \E audits \in BOOLEAN : Judge(audits)
    \/ \E g \in Guids : EditAmsPolicy(g) \/ MirrorPolicy(g) \/ ClearRow(g)

HealthSpec(sides, copied) == HealthInit(sides, copied) /\ [][HealthNext]_healthVars

-----------------------------------------------------------------------------
(* Properties                                                              *)

OwnNumber(g) == NumberOf[g] # "" /\ \A h \in Guids \ {g} : NumberOf[h] # NumberOf[g]

\* A report that says healthy has missed nothing: each policy that was live in NowCerts
\* all through the check, under a number of its own, was live in the mirror under the
\* same carrier at some time of the check, whatever moved between the pages.  A read
\* that max_pages cut short says less.
HealthyMeansLive ==
    (health.verdict = "healthy" /\ ~health.cut) => \A g \in Guids \ touched :
        (amsSide[g].live /\ OwnNumber(g)) => g \in matched
=============================================================================
