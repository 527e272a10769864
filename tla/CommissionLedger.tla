------------------------- MODULE CommissionLedger -------------------------
(***************************************************************************)
(* Commission money: carrier statements are staged, reviewed and committed *)
(* (hermes/commissions/statements.py), their lines are linked to rows of   *)
(* the ledger (matching.py), each row is rolled up and classified          *)
(* (reconcile.py), and the nightly seed writes what the agency expects     *)
(* (hermes/sync/commission_sync.py).  Approvals, the seed and the          *)
(* reconcile job (jobs.py) are processes of their own: each reads its      *)
(* tables at its start and writes row by row, with no lock.                *)
(*                                                                         *)
(* Days are numbers from 1 and 0 is no date; an expectation of 0 is none;  *)
(* amounts are whole.  A policy number has the key it is folded to and the *)
(* way it is spelled; the blank key is that of filler such as "--".        *)
(***************************************************************************)
EXTENDS Integers, Sequences, FiniteSets, FiniteSetsExt

CONSTANTS
    RawRow,             \* RawRow[r]: a row of a statement file
    Statement,          \* Statement[f]: a statement file
    Approver,           \* requests that approve a batch
    Since,              \* HERMES_COMMISSION_SINCE
    LastDay, MaxRows, MaxStops, MaxUploads, MaxBusy   \* bounds; MaxBusy is on processes at work and failures together

ASSUME CommissionAssumption ==
    /\ {Since, LastDay, MaxRows, MaxStops, MaxUploads, MaxBusy} \subseteq Nat
    /\ LastDay > 0 /\ Approver \cap {"sync", "reconcile"} = {}

VARIABLES
    today, policy,
    batch,      \* batch[f]: commission_ingest_batches and the staging table
    txns,       \* commission_transactions
    ledger,     \* commission_ledger
    clerk,      \* clerk[c]: what an approval, the seed or the reconcile job is doing
    statements, \* commission_statements
    stops       \* failed requests and processes that died

moneyVars == <<today, policy, batch, txns, ledger, clerk, statements, stops>>

File == DOMAIN Statement
Policies == DOMAIN policy
Clerk == Approver \cup {"sync", "reconcile"}
NotBusy == [at |-> "idle", file |-> {}, statement |-> 0, todo |-> {}, index |-> {}, book |-> FALSE, made |-> {}, seen |-> <<>>]

MoneyTypeOK ==
    /\ today \in 1..LastDay /\ statements \in Nat /\ stops \in 0..MaxStops
    /\ \A f \in File : batch[f].status \in {"none", "pending_review", "error", "rejected", "committed"}
    /\ \A t \in txns : t.ledger \in 0..Len(ledger) /\ t.statement \in 1..statements
    /\ Len(ledger) <= MaxRows

CanStart(c) == clerk[c].at = "idle" /\ Cardinality({d \in Clerk : clerk[d].at # "idle"}) + stops < MaxBusy

MoneyStop == stops < MaxStops /\ stops' = stops + 1

MoneyInit(policies) ==
    /\ today = 1 /\ policy = policies /\ txns = {} /\ ledger = <<>> /\ statements = 0 /\ stops = 0
    /\ batch = [f \in File |-> [status |-> "none", ok |-> TRUE, coming |-> {}, staged |-> {}]]
    /\ clerk = [c \in Clerk |-> NotBusy]

-----------------------------------------------------------------------------
(* Reading a statement                                                     *)

\* parse_row() and its callers: a row without a policy number is no line, be it
\* blank or a total.
StatementLines(f) == {r \in Statement[f].rows : RawRow[r].number.as # ""}

\* crosscheck(): what was read against what the carrier states, if it is known.
CrosscheckTolerance == 1
CrosscheckOk(f, stated) ==
    \A total \in stated : MapThenSumSet(LAMBDA r : RawRow[r].amount, StatementLines(f)) - total
                             \in -CrosscheckTolerance..CrosscheckTolerance

\* What the file states, where a carrier's own parser reads it.
StatedInFile(f) == IF Statement[f].carrierParser THEN {Statement[f].printed} ELSE {}

\* A batch of this content is inserted once; its lines follow one by one, while
\* the batch is there to be reviewed.
StageStatement(f, typed) ==
    /\ batch[f].status = "none" /\ Cardinality({g \in File : batch[g].status # "none"}) < MaxUploads
    /\ batch' = [batch EXCEPT ![f] =
          [status |-> IF StatementLines(f) = {} THEN "error" ELSE "pending_review",
           ok |-> CrosscheckOk(f, IF typed # {} THEN typed ELSE StatedInFile(f)),
           coming |-> StatementLines(f), staged |-> {}]]
    /\ UNCHANGED <<today, policy, txns, ledger, clerk, statements, stops>>

UploadStatement(f) == \E typed \in {{}, {Statement[f].printed}} : StageStatement(f, typed)
PollInbox(f) == StageStatement(f, {})

StageLine(f) ==
    /\ \/ \E r \in batch[f].coming : batch' = [batch EXCEPT ![f].coming = @ \ {r}, ![f].staged = @ \cup {r}]
                                     /\ UNCHANGED stops
       \/ batch[f].coming # {} /\ MoneyStop /\ batch' = [batch EXCEPT ![f].coming = {}]
    /\ UNCHANGED <<today, policy, txns, ledger, clerk, statements>>

\* reject_statement() asks for no status.
RejectStatement(f) ==
    /\ batch[f].status \notin {"none", "rejected"} /\ batch' = [batch EXCEPT ![f].status = "rejected"]
    /\ UNCHANGED <<today, policy, txns, ledger, clerk, statements, stops>>

-----------------------------------------------------------------------------
(* commit_statement(): the approval                                        *)

\* The approver confirms the source of a PDF; the lines are those staged by now.
BeginCommit(a, f, confirmed) ==
    /\ CanStart(a)
    /\ batch[f].status = "pending_review" /\ batch[f].ok /\ batch[f].staged # {}
    /\ Statement[f].pdf => confirmed
    /\ statements' = statements + 1
    /\ clerk' = [clerk EXCEPT ![a] = [NotBusy EXCEPT
          !.at = "insert", !.file = {f}, !.statement = statements + 1, !.todo = batch[f].staged]]
    /\ UNCHANGED <<today, policy, batch, txns, ledger, stops>>

\* commission_transactions_line_uq
LineTaken(statement, r) == \E t \in txns : t.statement = statement /\ RawRow[t.row] = RawRow[r]

InsertTxn(a, r) ==
    /\ clerk[a].at = "insert" /\ r \in clerk[a].todo
    /\ LET last == clerk[a].todo = {r}
           refused == LineTaken(clerk[a].statement, r) IN
       /\ clerk' = [clerk EXCEPT ![a].todo = @ \ {r}, ![a].at = IF last THEN "relink" ELSE "insert"]
       /\ \/ ~refused /\ txns' = txns \cup {[statement |-> clerk[a].statement, row |-> r, ledger |-> 0]} /\ UNCHANGED stops
          \/ refused /\ UNCHANGED <<txns, stops>>
          \/ ~refused /\ MoneyStop /\ UNCHANGED txns
    /\ UNCHANGED <<today, policy, batch, ledger, statements>>

\* The batch is marked by its id, whatever has become of it.
FinishCommit(a) ==
    /\ clerk[a].at = "finish" /\ clerk[a].file # {}
    /\ LET landed == \E t \in txns : t.statement = clerk[a].statement IN
       batch' = [f \in File |-> IF f \notin clerk[a].file THEN batch[f]
                                ELSE [batch[f] EXCEPT !.status = IF landed THEN "committed" ELSE "error"]]
    /\ clerk' = [clerk EXCEPT ![a] = NotBusy]
    /\ UNCHANGED <<today, policy, txns, ledger, statements, stops>>

-----------------------------------------------------------------------------
(* relink_unmatched()                                                      *)

NumberOf(t) == RawRow[t.row].number

\* It ends an approval, and nightly_reconcile() begins with it.  The lines without
\* a row are read, then the ledger, and the
\* book, without which no row is created.
ReadIndex(c) ==
    /\ clerk[c].at = "relink" \/ (c = "reconcile" /\ CanStart(c))
    /\ LET orphans == {t \in txns : t.ledger = 0} IN
       \E book \in IF orphans = {} THEN {FALSE} ELSE BOOLEAN :
          /\ IF book \/ orphans = {} THEN UNCHANGED stops ELSE MoneyStop
          /\ clerk' = [clerk EXCEPT ![c] = [@ EXCEPT !.index = 1..Len(ledger), !.book = book, !.todo = orphans,
                                                     !.at = IF orphans = {} THEN "rollup" ELSE "link"]]
    /\ UNCHANGED <<today, policy, batch, txns, ledger, statements>>

ExactRows(index, number) == {i \in index : ledger[i].number.as = number.as}

\* A key that two rows share is in no index.
NormalizedRows(index, number) ==
    LET alike == {i \in index : ledger[i].number.key = number.key}
    IN  IF Cardinality(alike) = 1 THEN alike ELSE {}

\* match_line(): the ladder.  The faulty one folds a filler to a key like any other.
MatchLineBlank(index, number) ==
    IF ExactRows(index, number) # {} THEN ExactRows(index, number) ELSE NormalizedRows(index, number)

MatchLine(index, number) ==
    IF ExactRows(index, number) # {} THEN ExactRows(index, number)
    ELSE IF number.key = "" THEN {} ELSE NormalizedRows(index, number)

BookMatches(c, number) ==
    IF clerk[c].book /\ number.key # "" THEN {p \in Policies : policy[p].number.key = number.key} ELSE {}

MadeFor(c, number) == {m \in clerk[c].made : ledger[m].number.key = number.key}

DoneWith(c, t) == clerk' = [clerk EXCEPT ![c].todo = @ \ {t}, ![c].at = IF @ = "link" /\ clerk[c].todo = {t} THEN "rollup" ELSE @]

LinkTo(t, i) == txns' = (txns \ {u \in txns : u.row = t.row /\ u.statement = t.statement}) \cup {[t EXCEPT !.ledger = i]}

\* A matched line is linked, to a row of the index or to one made in this run.
LinkTxn(c, t) ==
    /\ clerk[c].at = "link" /\ t \in clerk[c].todo
    /\ LET found == MatchLine(clerk[c].index, NumberOf(t))
           rows == IF found # {} THEN found ELSE MadeFor(c, NumberOf(t)) IN
       \/ \E i \in rows : LinkTo(t, i) /\ UNCHANGED stops
       \/ rows # {} /\ MoneyStop /\ UNCHANGED txns
    /\ DoneWith(c, t)
    /\ UNCHANGED <<today, policy, batch, ledger, statements>>

\* ledger_row_from_policy(): no expectation is made up.
RowFromPolicy(p, t) ==
    [number |-> policy[p].number, start |-> policy[p].start, end |-> policy[p].end, expected |-> 0, origin |-> "statement",
     dated |-> IF RawRow[t.row].day # 0 THEN RawRow[t.row].day ELSE policy[p].start, actual |-> {}, status |-> "pending"]

\* A line that no row matches makes one, of any policy with its key, once in a run.
\* An insert that fails is recorded; beyond the bound on rows it fails.
CreateLedgerRow(c, t) ==
    /\ clerk[c].at = "link" /\ t \in clerk[c].todo
    /\ MatchLine(clerk[c].index, NumberOf(t)) = {} /\ MadeFor(c, NumberOf(t)) = {}
    /\ \E p \in BookMatches(c, NumberOf(t)) :
          \/ /\ Len(ledger) < MaxRows /\ ledger' = Append(ledger, RowFromPolicy(p, t))
             /\ clerk' = [clerk EXCEPT ![c].made = @ \cup {Len(ledger) + 1}] /\ UNCHANGED stops
          \/ /\ IF Len(ledger) < MaxRows THEN MoneyStop ELSE UNCHANGED stops
             /\ UNCHANGED ledger /\ DoneWith(c, t)
    /\ UNCHANGED <<today, policy, batch, txns, statements>>

LeaveUnmatched(c, t) ==
    /\ clerk[c].at = "link" /\ t \in clerk[c].todo
    /\ MatchLine(clerk[c].index, NumberOf(t)) = {} /\ MadeFor(c, NumberOf(t)) = {} /\ BookMatches(c, NumberOf(t)) = {}
    /\ DoneWith(c, t)
    /\ UNCHANGED <<today, policy, batch, txns, ledger, statements, stops>>

Relink(c) ==
    \/ ReadIndex(c)
    \/ \E t \in clerk[c].todo : LinkTxn(c, t) \/ CreateLedgerRow(c, t) \/ LeaveUnmatched(c, t)

-----------------------------------------------------------------------------
(* run_rollup()                                                            *)

TermStart(row) == IF row.start # 0 THEN row.start ELSE row.dated

\* [start, end): a line of the last day is the next term's.
InTerm(row, t) ==
    LET day == RawRow[t.row].day
    IN  day # 0 /\ day >= TermStart(row) /\ (row.end # 0 => day < row.end)

Tolerance == 1

\* classify_reconciliation() and its actual; canceled is nothing that the ledger
\* tells, for no column of it says what has become of the policy.
Classify(expected, amounts, canceled, ended) ==
    LET actual == MapThenSumSet(LAMBDA a : a.amount, amounts)
        delta == actual - expected
    IN  IF amounts = {} THEN [actual |-> {}, status |-> "pending"]
        ELSE [actual |-> {actual},
              status |-> CASE expected = 0 -> "no_expected"
                           [] expected # 0 /\ delta \in -Tolerance..Tolerance -> "reconciled"
                           [] expected # 0 /\ delta > Tolerance -> "overpaid"
                           [] expected # 0 /\ delta < -Tolerance -> IF canceled THEN "canceled"
                                               ELSE IF ended THEN "underpaid" ELSE "missing_statement"]

Verdict(row, lines, day) ==
    Classify(row.expected, {[amount |-> RawRow[t.row].amount, of |-> t] : t \in {u \in lines : InTerm(row, u)}},
             FALSE, row.end # 0 /\ row.end <= day)

LinesOf(i) == {t \in txns : t.ledger = i}

ReadLedger(c) ==
    /\ clerk[c].at = "rollup"
    /\ clerk' = [clerk EXCEPT ![c] = [@ EXCEPT !.at = "lines", !.seen = ledger, !.index = {}, !.made = {}, !.book = FALSE]]
    /\ UNCHANGED <<today, policy, batch, txns, ledger, statements, stops>>

\* A faulty test that compares the money alone.
UnchangedMoney(row, verdict) == verdict.actual = row.actual

Unchanged(row, verdict) == verdict.actual = row.actual /\ verdict.status = row.status

\* Rows without a line are left as they are, and so are those that say it already.
RolledUp(c) == IF clerk[c].file = {} THEN NotBusy ELSE [clerk[c] EXCEPT !.at = "finish", !.todo = {}, !.seen = <<>>]

ReadTxns(c) ==
    /\ clerk[c].at = "lines"
    /\ LET seen == clerk[c].seen
           patches == {[row |-> i, verdict |-> Verdict(seen[i], LinesOf(i), today)] :
                          i \in {j \in 1..Len(seen) : /\ LinesOf(j) # {}
                                                      /\ ~Unchanged(seen[j], Verdict(seen[j], LinesOf(j), today))}} IN
       clerk' = [clerk EXCEPT ![c] = IF patches = {} THEN RolledUp(c)
                                     ELSE [@ EXCEPT !.at = "patch", !.seen = <<>>, !.todo = patches]]
    /\ UNCHANGED <<today, policy, batch, txns, ledger, statements, stops>>

PatchRow(c, patch) ==
    /\ clerk[c].at = "patch" /\ patch \in clerk[c].todo
    /\ ledger' = [ledger EXCEPT ![patch.row].actual = patch.verdict.actual, ![patch.row].status = patch.verdict.status]
    /\ clerk' = [clerk EXCEPT ![c] = IF @.todo = {patch} THEN RolledUp(c) ELSE [clerk[c] EXCEPT !.todo = @ \ {patch}]]
    /\ UNCHANGED <<today, policy, batch, txns, statements, stops>>

Rollup(c) == ReadLedger(c) \/ ReadTxns(c) \/ \E patch \in clerk[c].todo : PatchRow(c, patch)

-----------------------------------------------------------------------------
(* run_commission_sync()                                                   *)

\* Only won business that takes effect in the window and is worth anything.
Seedable(p) == policy[p].status = "won" /\ policy[p].worth /\ policy[p].start \in Since..today

StartSeed ==
    /\ CanStart("sync")
    /\ clerk' = [clerk EXCEPT !["sync"] = [NotBusy EXCEPT !.at = "seed", !.index = 1..Len(ledger), !.todo = Policies]]
    /\ UNCHANGED <<today, policy, batch, txns, ledger, statements, stops>>

\* The last row of a number is the one that is refreshed.
RowsNumbered(index, number) == {i \in index : ledger[i].number = number /\ \A j \in index : ledger[j].number = number => j <= i}

\* An empty expectation overwrites nothing.
Refreshed(row, p) ==
    [row EXCEPT !.start = IF policy[p].start # 0 THEN policy[p].start ELSE @,
                !.end = IF policy[p].end # 0 THEN policy[p].end ELSE @,
                !.expected = IF policy[p].status = "won" /\ policy[p].expected # 0 THEN policy[p].expected ELSE @]

SeedRow(p) ==
    [number |-> policy[p].number, start |-> policy[p].start, end |-> policy[p].end, expected |-> policy[p].expected,
     origin |-> "seed", dated |-> policy[p].start, actual |-> {}, status |-> "pending"]

SeedDone(p, new) == IF clerk["sync"].todo = {p} THEN NotBusy ELSE [clerk["sync"] EXCEPT !.todo = @ \ {p}, !.index = @ \cup new]

SeedOne(p) ==
    LET found == RowsNumbered(clerk["sync"].index, policy[p].number) IN
    /\ \/ Seedable(p) /\ found = {} /\ ledger' = IF Len(ledger) = MaxRows THEN ledger ELSE Append(ledger, SeedRow(p))
       \/ /\ Seedable(p) \/ policy[p].status = "cancelled"
          /\ \E i \in found : ledger' = [ledger EXCEPT ![i] = Refreshed(@, p)]
       \/ ~Seedable(p) /\ (found = {} \/ policy[p].status # "cancelled") /\ UNCHANGED ledger
    /\ clerk' = [clerk EXCEPT !["sync"] = SeedDone(p, IF Len(ledger') > Len(ledger) THEN {Len(ledger')} ELSE {})]

\* A policy that raises is recorded, and the run goes on.
SeedPolicy(p) ==
    /\ clerk["sync"].at = "seed" /\ p \in clerk["sync"].todo
    /\ \/ SeedOne(p) /\ UNCHANGED stops
       \/ Seedable(p) /\ MoneyStop /\ clerk' = [clerk EXCEPT !["sync"] = SeedDone(p, {})] /\ UNCHANGED ledger
    /\ UNCHANGED <<today, policy, batch, txns, statements>>

Seed == StartSeed \/ \E p \in Policies : SeedPolicy(p)

-----------------------------------------------------------------------------
(* surface.py: coverage(), which the watchdog raises an alarm by           *)

InLedger(p) == \E i \in 1..Len(ledger) : ledger[i].number = policy[p].number

CoverageBucket(p) ==
    IF InLedger(p) THEN "in_ledger"
    ELSE IF policy[p].status # "won" THEN "excluded_by_status"
    ELSE IF policy[p].start # 0 /\ policy[p].start < Since THEN "excluded_by_date_floor" ELSE "missing_in_window"

-----------------------------------------------------------------------------

\* A process dies, or a read of its own fails.
ClerkDies(c) ==
    /\ clerk[c].at # "idle" /\ MoneyStop /\ clerk' = [clerk EXCEPT ![c] = NotBusy]
    /\ UNCHANGED <<today, policy, batch, txns, ledger, statements>>

\* Midnight finds no process at work; by then a policy may be cancelled in the AMS.
DayPasses ==
    /\ today < LastDay /\ today' = today + 1 /\ \A c \in Clerk : clerk[c].at = "idle"
    /\ \E gone \in SUBSET Policies : policy' = [p \in Policies |-> IF p \in gone THEN [policy[p] EXCEPT !.status = "cancelled"] ELSE policy[p]]
    /\ UNCHANGED <<batch, txns, ledger, clerk, statements, stops>>

ClerkStep(c) ==
    \/ \E r \in clerk[c].todo : InsertTxn(c, r)
    \/ Relink(c) \/ Rollup(c) \/ FinishCommit(c)

MoneyNext ==
    \/ \E f \in File : UploadStatement(f) \/ PollInbox(f) \/ StageLine(f) \/ RejectStatement(f)
    \/ \E a \in Approver, f \in File, confirmed \in BOOLEAN : BeginCommit(a, f, confirmed)
    \/ Seed \/ DayPasses
    \/ \E c \in Clerk : ClerkStep(c) \/ ClerkDies(c)

MoneySpec(policies) == MoneyInit(policies) /\ [][MoneyNext]_moneyVars

\* What is begun goes on, the seed runs every night and the reconcile job is
\* scheduled too, as jobs.py asks for.  Their fairness is strong because MaxBusy
\* makes them wait for each other, which the clock does not.
MoneyFairness ==
    /\ SF_moneyVars(Seed) /\ SF_moneyVars(ClerkStep("reconcile")) /\ \A a \in Approver : WF_moneyVars(ClerkStep(a))

-----------------------------------------------------------------------------
(* Properties                                                              *)

\* reconcile.py:142: "a re-run or a corrected statement converges instead of
\* drifting".  Whatever overlapped, died or was read too early: once nothing new
\* arrives, every row that has lines says what they add up to in its term and the
\* status that follows today, and every policy in the window has a row.
LedgerConverges ==
    <>[]( /\ \A i \in 1..Len(ledger) : LinesOf(i) # {} =>
                LET verdict == Verdict(ledger[i], LinesOf(i), today)
                IN  ledger[i].actual = verdict.actual /\ ledger[i].status = verdict.status
          /\ \A p \in Policies : Seedable(p) => CoverageBucket(p) = "in_ledger" )

\* Money goes to the policy it names: a linked line and its row fold to the same
\* key, and filler is linked to a row only if the row is spelled just so.
LinksAgree ==
    \A t \in txns : t.ledger # 0 =>
        LET number == ledger[t.ledger].number
        IN  number.as = NumberOf(t).as \/ (number.key = NumberOf(t).key /\ number.key # "")
=============================================================================
