---------------------------- MODULE BookReports ----------------------------
(***************************************************************************)
(* What is reported of the book: the daily row of agency_snapshots with    *)
(* the size of the book, what was retained of it and the difference to the *)
(* row before (hermes/jobs/agency_snapshot.py), and the list of current    *)
(* terms (_collapse_to_current_terms in hermes/api.py).                    *)
(*                                                                         *)
(* A run reads the book, reads the row before, looks for the row of its    *)
(* day and updates or inserts it; cron and people start runs, so two may   *)
(* overlap.  Terms are renewed, cancelled and closed in NowCerts between.  *)
(* One insured and one line of business; the client count, the pipeline    *)
(* and the split by line, copied the same way, are left out.               *)
(***************************************************************************)
EXTENDS Integers, Sequences, FiniteSets, FiniteSetsExt, TLC

CONSTANTS
    Shot,                   \* processes
    RetentionWindow,        \* RETENTION_WINDOW_DAYS
    SuccessorGrace,         \* SUCCESSOR_GRACE_DAYS
    Slips,                  \* how long after the end of a term the next begins
    TermDays, LastSnapshotDay, MaxShelf, MaxShelfMoves, MaxShots \* the length of a term; bounds

ASSUME ReportsAssumption ==
    /\ {RetentionWindow, SuccessorGrace, MaxShelf, MaxShelfMoves, MaxShots} \subseteq Nat
    /\ {TermDays, LastSnapshotDay} \subseteq Nat \ {0} /\ SuccessorGrace <= TermDays /\ Slips \subseteq Int /\ \A s \in Slips : s >= -SuccessorGrace

VARIABLES
    snapshotDay,
    shelf,          \* the book: its terms in the order of their creation; a number and what was added to it
    carriedOn,      \* history: the terms that a person renewed
    snapshots,      \* agency_snapshots, by day
    shots,          \* the run of each process
    started,        \* history: how many runs a day had
    shelfMoves

reportVars == <<snapshotDay, shelf, carriedOn, snapshots, shots, started, shelfMoves>>

-----------------------------------------------------------------------------
(* compute_retention(), compute_book()                                     *)

Shelf == DOMAIN shelf

OutOfNowCerts(t) == t.status = "Inactive: not in NowCerts"

StartsAfter(t, end) == t.eff >= end - SuccessorGrace

\* A faulty rule that knows the pointer of a renewal only.
WasRetainedByPointer(k) ==
    \/ shelf[k].status = "Renewed"
    \/ \E j \in Shelf \ {k} : StartsAfter(shelf[j], shelf[k].exp) /\ shelf[j].from = shelf[k].number

\* The next term points back at this one, or has its number.
WasRetained(k) ==
    \/ shelf[k].status = "Renewed"
    \/ \E j \in Shelf \ {k} :
          StartsAfter(shelf[j], shelf[k].exp) /\ shelf[k].number \in {shelf[j].from, shelf[j].number}

\* The terms that ended in the window.
Graded == {k \in Shelf : /\ shelf[k].exp \in (snapshotDay - RetentionWindow)..(snapshotDay - 1)
                         /\ ~OutOfNowCerts(shelf[k])}
ActiveTerms == {k \in Shelf : shelf[k].active /\ ~OutOfNowCerts(shelf[k])}

PremiumOf(terms) == MapThenSumSet(LAMBDA k : shelf[k].premium, terms)

Figures ==
    [premium |-> PremiumOf(ActiveTerms), count |-> Cardinality(ActiveTerms),
     graded |-> PremiumOf(Graded), kept |-> PremiumOf({k \in Graded : WasRetained(k)}), delta |-> {}]

-----------------------------------------------------------------------------
(* run_snapshot()                                                          *)

\* A difference is a set of at most one number.
ShotAtRest == [at |-> "rest"]
ShotGoes(r, s) == shots' = [shots EXCEPT ![r] = s]
BookRests == UNCHANGED <<snapshotDay, shelf, carriedOn, shelfMoves>>

ReadShelf(r) ==
    /\ shots[r].at = "rest" /\ started[snapshotDay] < MaxShots
    /\ ShotGoes(r, [at |-> "prior", day |-> snapshotDay, row |-> Figures])
    /\ started' = [started EXCEPT ![snapshotDay] = @ + 1]
    /\ BookRests /\ UNCHANGED snapshots

\* latest_snapshot(): the last row there is, whatever its day.
ReadPrior(r) ==
    LET s == shots[r]
        last == Max(DOMAIN snapshots)
    IN  /\ s.at = "prior"
        /\ ShotGoes(r, [s EXCEPT !.at = "find",
                !.row.delta = IF DOMAIN snapshots = {} THEN {} ELSE {s.row.premium - snapshots[last].premium}])
        /\ BookRests /\ UNCHANGED <<snapshots, started>>

\* A faulty search that takes any row for that of the day.
DayRowAny(day) == DOMAIN snapshots

DayRow(day) == DOMAIN snapshots \cap {day}

FindDay(r) ==
    /\ shots[r].at = "find"
    /\ ShotGoes(r, [shots[r] EXCEPT !.at = IF DayRow(shots[r].day) # {} THEN "update" ELSE "insert"])
    /\ BookRests /\ UNCHANGED <<snapshots, started>>

\* A row without a difference leaves the one that is there.
Replaced(old, new) == IF new.delta = {} THEN [new EXCEPT !.delta = old.delta] ELSE new

\* uq_agency_snapshots_date refuses a second row, and the run ends with an error.
WriteRow(r) ==
    LET s == shots[r] IN
    /\ s.at \in {"update", "insert"}
    /\ IF s.at = "update" THEN snapshots' = [snapshots EXCEPT ![s.day] = Replaced(@, s.row)]
       ELSE IF s.day \in DOMAIN snapshots THEN UNCHANGED snapshots
       ELSE snapshots' = [d \in DOMAIN snapshots \cup {s.day} |-> IF d = s.day THEN s.row ELSE snapshots[d]]
    /\ ShotGoes(r, ShotAtRest) /\ BookRests /\ UNCHANGED started

\* It was a dry run, a request fails or the process dies.
ShotEnds(r) ==
    /\ shots[r].at # "rest" /\ ShotGoes(r, ShotAtRest)
    /\ BookRests /\ UNCHANGED <<snapshots, started>>

-----------------------------------------------------------------------------
(* _collapse_to_current_terms()                                            *)

\* A faulty root that ignores the lineage.
RootOfNumber(t) == t.number

RootOf(t) == IF t.from # <<>> THEN t.from ELSE t.number

\* Of equals the greater policy_guid, here the later term.
NotOlder(j, k) ==
    \/ shelf[j].eff > shelf[k].eff
    \/ shelf[j].eff = shelf[k].eff /\ (shelf[j].exp > shelf[k].exp \/ (shelf[j].exp = shelf[k].exp /\ j >= k))

CurrentTerms == {k \in Shelf : \A j \in Shelf : RootOf(shelf[j]) = RootOf(shelf[k]) => NotOlder(k, j)}

-----------------------------------------------------------------------------
(* The people in NowCerts                                                  *)

MoveShelf(new) ==
    /\ shelfMoves < MaxShelfMoves /\ shelfMoves' = shelfMoves + 1 /\ shelf' = new
    /\ UNCHANGED <<snapshotDay, snapshots, shots, started>>

\* The next term keeps the number or has a new one and points back.
RenewTerm(k) ==
    LET t == shelf[k] IN
    /\ Len(shelf) < MaxShelf /\ k \notin carriedOn
    /\ carriedOn' = carriedOn \cup {k}
    /\ \E slip \in Slips, next \in {[number |-> t.number, from |-> <<>>], [number |-> Append(t.number, "R"), from |-> t.number]},
          status \in {t.status, "Renewed"} :
          MoveShelf(Append([shelf EXCEPT ![k].status = status],
              [t EXCEPT !.number = next.number, !.from = next.from, !.status = "Active", !.eff = t.exp + slip, !.exp = t.exp + slip + TermDays]))

CloseTerm(k) ==
    /\ shelf[k].active /\ MoveShelf([shelf EXCEPT ![k].active = FALSE]) /\ UNCHANGED carriedOn

\* Bound: a run is over before its day is.
NextSnapshotDay ==
    /\ snapshotDay < LastSnapshotDay /\ (\A r \in Shot : shots[r].at = "rest") /\ snapshotDay' = snapshotDay + 1
    /\ UNCHANGED <<shelf, carriedOn, snapshots, shots, started, shelfMoves>>

ReportsInit(books) ==
    /\ snapshotDay = 1 /\ shelf \in books /\ carriedOn = {} /\ snapshots = <<>>
    /\ shots = [r \in Shot |-> ShotAtRest] /\ started = [d \in 1..LastSnapshotDay |-> 0]
    /\ shelfMoves = 0

ReportsNext ==
    \/ NextSnapshotDay
    \/ \E k \in Shelf : RenewTerm(k) \/ CloseTerm(k)
    \/ \E r \in Shot : ReadShelf(r) \/ ReadPrior(r) \/ FindDay(r) \/ WriteRow(r) \/ ShotEnds(r)

ReportsSpec(books) == ReportsInit(books) /\ [][ReportsNext]_reportVars

-----------------------------------------------------------------------------
(* Properties                                                              *)

ReportsTypeOK ==
    /\ DOMAIN snapshots \subseteq 1..LastSnapshotDay /\ snapshotDay \in 1..LastSnapshotDay
    /\ carriedOn \subseteq Shelf

\* A term that a person renewed is never reported as lost business, whichever way
\* the renewal is recorded.  (agency_snapshot.py: "status='Renewed' is only set on
\* 64 of the 148 terms that demonstrably renewed")
RenewedNeverLost == \A k \in carriedOn : WasRetained(k)

\* What a day that had one run reports as the change is the difference of its row and
\* the one before it, however often that one was written.  (agency_snapshot.py: "a
\* retry or a manual re-run never corrupts the trend", see README for the day's own)
TrendAddsUp ==
    \A d, e \in DOMAIN snapshots :
        (d < e /\ (d + 1)..(e - 1) \cap DOMAIN snapshots = {} /\ started[e] = 1) => snapshots[e].delta = {snapshots[e].premium - snapshots[d].premium}

\* A term and the one that renews it are not both listed as current, unless the first
\* came itself with a new number.  (api.py: "so a renewing policy shows once")
ShownOnce ==
    \A k \in carriedOn, j \in Shelf :
        (j # k /\ shelf[k].from = <<>> /\ shelf[k].number \in {shelf[j].from, shelf[j].number}) => ~{j, k} \subseteq CurrentTerms

SnapshotsSafe == ReportsTypeOK /\ RenewedNeverLost /\ TrendAddsUp /\ ShownOnce
=============================================================================
