--------------------------- MODULE RenewalEvents ---------------------------
(***************************************************************************)
(* Which policy is a renewal: the rule (hermes/renewals/eligibility.py),   *)
(* the lineage it is fed with and the table of events that the nightly     *)
(* refresh writes (hermes/renewals/candidate_refresh.py), over a book of   *)
(* terms that people stage, bind, cancel and re-date in NowCerts.          *)
(*                                                                         *)
(* Days are numbers from 1 and 0 is no date.  A status stands for its      *)
(* class.  One insured; the requests and the overlay of the refresh are in *)
(* RenewalCorrections, here it is one step.                                *)
(***************************************************************************)
EXTENDS Integers, Sequences, FiniteSets

CONSTANTS
    NewYear, Aep,           \* length of a year, the day of the year of August 1
    Window, Align, Floor,   \* DISCOVERY_WINDOW_DAYS, _ALIGN_TOLERANCE_DAYS, renewal_floor()
    Term, LastDate, MaxTerms, MaxBookMoves \* the length of a term; bounds

ASSUME RenewalAssumption ==
    /\ {NewYear, Term, Floor} \subseteq Nat \ {0}
    /\ {Aep, Window, Align, LastDate, MaxTerms, MaxBookMoves} \subseteq Nat

VARIABLES
    date,
    terms,          \* the book, in its order; a number and what was added to it
    insured,        \* is the insured active
    events,         \* renewal_candidates, by identity
    bookMoves

renewalVars == <<date, terms, insured, events, bookMoves>>

TermStatus == {"current", "staged", "dead", "superseded", "other"}
Book == 1..Len(terms)

Within(from, to, days) == to - from <= days
Aligned(a, b) == a # 0 /\ b # 0 /\ a - b \in -Align..Align
InForce(t) == t.eff # 0 /\ t.exp # 0 /\ t.eff <= date /\ date < t.exp

-----------------------------------------------------------------------------
(* Lineage                                                                 *)

\* A term that keeps its number points at itself.
RenewedFrom(k) == {terms[k].from} \ {<<>>, terms[k].number}

Numbered(number) == {k \in Book : terms[k].number = number}
ByNumber(number) == {k \in Numbered(number) : \A j \in Numbered(number) : k <= j}

RootNumber(k) ==
    LET walk[j \in Book, seen \in SUBSET {terms[i].number : i \in Book}] ==
            IF RenewedFrom(j) \subseteq seen THEN terms[j].number
            ELSE IF Numbered(terms[j].from) = {} THEN terms[j].from
            ELSE walk[CHOOSE i \in ByNumber(terms[j].from) : TRUE, seen \cup {terms[j].number}]
    IN  walk[k, {}]

Successors(k) == {j \in Book : terms[k].number \in RenewedFrom(j)}

\* A faulty lineage that takes any successor for one that renews the term.
ValidSuccessorsAny(k) == {j \in Successors(k) : Aligned(terms[j].eff, terms[k].exp)}

ValidSuccessors(k) ==
    {j \in Successors(k) : terms[j].status \in {"staged", "current"} /\ Aligned(terms[j].eff, terms[k].exp)}

FollowsCurrentTerm(k) ==
    \E number \in RenewedFrom(k) : \E j \in ByNumber(number) :
        terms[j].status = "current" /\ InForce(terms[j]) /\ Aligned(terms[j].exp, terms[k].eff)

-----------------------------------------------------------------------------
(* evaluate()                                                              *)

NextAug1 == date + ((Aep - date) % NewYear)

Ruled(state, branch, event) == [state |-> state, branch |-> branch, event |-> event]
Eligible(branch, event) ==
    IF Within(date, event, Window) THEN Ruled("eligible", branch, event) ELSE Ruled("excluded", "", 0)
Excluded == Ruled("excluded", "", 0)
Verify == Ruled("needs_verification", "", 0)

\* A staged term that has not begun, or claims to be staged and has.
Staged(k) ==
    LET t == terms[k] IN
    IF t.eff > date THEN IF FollowsCurrentTerm(k) THEN Eligible("staged_next_term", t.eff) ELSE Verify
    ELSE IF t.eff = 0 /\ t.exp = 0 THEN Excluded ELSE Verify

Evaluate(k) ==
    LET t == terms[k] IN
    IF ~insured THEN Excluded
    ELSE IF t.medicare THEN Eligible("medicare_annual", NextAug1)
    ELSE IF t.status = "dead" THEN IF InForce(t) THEN Verify ELSE Excluded
    ELSE IF t.status = "superseded" THEN Excluded
    ELSE IF t.status = "current" /\ InForce(t)
         THEN IF ValidSuccessors(k) # {} THEN Excluded ELSE Eligible("current_term", t.exp)
    ELSE IF t.status = "staged" THEN Staged(k)
    ELSE IF t.exp = 0 THEN Excluded ELSE Verify

-----------------------------------------------------------------------------
(* build_candidates() and the refresh                                      *)

EventDate(k) ==
    LET event == Evaluate(k).event
    IN  IF event # 0 THEN event ELSE IF terms[k].exp # 0 THEN terms[k].exp ELSE terms[k].eff

Identity(k) == <<RootNumber(k), EventDate(k)>>

Tracked == {k \in Book : EventDate(k) # 0 /\ EventDate(k) >= Floor}

StateRank == [eligible |-> 30, needs_verification |-> 20, excluded |-> 10]
BranchRank(branch) == CASE branch = "staged_next_term" -> 3 [] branch = "medicare_annual" -> 2
                        [] branch = "current_term" -> 1 [] branch = "" -> 0
EventRank(k) == StateRank[Evaluate(k).state] + BranchRank(Evaluate(k).branch)

\* Of the terms with one identity the best ranked, and of equals the first.
Best(same) == CHOOSE k \in same : \A j \in same : EventRank(j) < EventRank(k) \/ (EventRank(j) = EventRank(k) /\ k <= j)

EventRow(k) == [number |-> terms[k].number, state |-> Evaluate(k).state, exp |-> terms[k].exp]

Candidates ==
    LET ids == [k \in Tracked |-> Identity(k)]
    IN  [id \in {ids[k] : k \in Tracked} |-> EventRow(Best({k \in Tracked : ids[k] = id}))]

\* The rows are upserted, and no row is ever deleted.
Refresh ==
    /\ LET new == Candidates IN
       events' = [id \in DOMAIN new \cup DOMAIN events |-> IF id \in DOMAIN new THEN new[id] ELSE events[id]]
    /\ UNCHANGED <<date, terms, insured, bookMoves>>

\* A faulty list that compares the wrong way round.
LapseListAhead == {id \in DOMAIN events : events[id].state = "needs_verification" /\ events[id].exp > date}

\* lapse_check(): past due and still in force, by the table.
LapseList == {id \in DOMAIN events : events[id].state = "needs_verification" /\ events[id].exp \in Floor..(date - 1)}

-----------------------------------------------------------------------------
(* The people in NowCerts                                                  *)

MoveBook(new) == /\ bookMoves < MaxBookMoves /\ bookMoves' = bookMoves + 1 /\ terms' = new
                 /\ UNCHANGED <<date, insured, events>>

\* A term is renewed under its own number or a new one, more or less where it ends.
StageTerm(k) ==
    /\ Len(terms) < MaxTerms /\ terms[k].exp # 0 /\ terms[k].status = "current"
    /\ \E number \in {terms[k].number, Append(terms[k].number, "R")}, slip \in 0..Align + 1, status \in {"staged", "current"} :
          MoveBook(Append(terms, [number |-> number, from |-> terms[k].number, status |-> status, medicare |-> FALSE,
                                  eff |-> terms[k].exp + slip, exp |-> terms[k].exp + slip + Term]))

SetTermStatus(k) ==
    \E status \in TermStatus \ {terms[k].status} : MoveBook([terms EXCEPT ![k].status = status])

Redate(k) ==
    /\ terms[k].exp # 0 /\ MoveBook([terms EXCEPT ![k].exp = @ + 1])

DeactivateInsured ==
    /\ bookMoves < MaxBookMoves /\ bookMoves' = bookMoves + 1 /\ insured' = ~insured /\ UNCHANGED <<date, terms, events>>

NextDate == date < LastDate /\ date' = date + 1 /\ UNCHANGED <<terms, insured, events, bookMoves>>

RenewalInit(opening) ==
    /\ date = 1 /\ terms \in opening /\ insured = TRUE /\ events = <<>> /\ bookMoves = 0

RenewalNext ==
    \/ Refresh \/ NextDate \/ DeactivateInsured
    \/ \E k \in Book : StageTerm(k) \/ SetTermStatus(k) \/ Redate(k)

RenewalSpec(opening) == RenewalInit(opening) /\ [][RenewalNext]_renewalVars

-----------------------------------------------------------------------------
(* Properties                                                              *)

Stands(k) == Evaluate(k).state # "excluded"

\* A renewal is one event, and it is never silently dropped: a term in force that
\* ends in the window is followed up itself or by its successor, unless that one is
\* in force or its own event lies beyond the window, and the two are never both
\* eligible.  (eligibility.py: "ONE upcoming renewal event", "never silently dropped")
RenewalFollowedOnce ==
    insured => \A k \in Book :
        LET t == terms[k] IN
        (t.status = "current" /\ InForce(t) /\ ~t.medicare /\ Within(date, t.exp, Window)) =>
            /\ \/ Stands(k)
               \/ \E j \in ValidSuccessors(k) :
                     Stands(j) \/ (terms[j].status = "current" /\ InForce(terms[j])) \/ ~Within(date, terms[j].eff, Window)
            /\ \A j \in Successors(k) : ~(Evaluate(j).state = "eligible" /\ Evaluate(k).state = "eligible" /\ Aligned(terms[j].eff, t.exp))

\* A term that NowCerts still carries as in force after its end is on the lapse
\* list as soon as the table is rebuilt, whatever became of its lineage.
\* (candidate_refresh.py: "likely silent lapses to confirm in NowCerts")
SilentLapseListed ==
    [][renewalVars' # renewalVars /\ Refresh => \A k \in Book :
          (insured /\ ~terms[k].medicare /\ terms[k].status = "current" /\ terms[k].exp \in Floor..(date - 1))
              => \E id \in LapseList' : events'[id].exp = terms[k].exp]_renewalVars
=============================================================================
