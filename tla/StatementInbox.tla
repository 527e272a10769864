--------------------------- MODULE StatementInbox ---------------------------
(***************************************************************************)
(* How a carrier's statement gets onto the review queue: the file is read  *)
(* by the parser of its carrier (hermes/commissions/carriers.py), by the   *)
(* generic reader (statements.py) or off a PDF (pdf.py), and staged by a   *)
(* person's upload or by the poller of the drop folder (jobs.py), while    *)
(* the watchdog (jobs.py) looks for a ledger that has stopped changing.    *)
(*                                                                         *)
(* Files are numbered in the order the folder lists them.  An approval     *)
(* commits the staged lines one request each; the matching and the roll-up *)
(* that follow are CommissionLedger's.  Time goes by in half days.  The    *)
(* watchdog and the files share nothing, so that a behaviour has one of    *)
(* the two at work.                                                        *)
(***************************************************************************)
EXTENDS Integers, Sequences, FiniteSets, FiniteSetsExt

CONSTANTS
    Document,       \* Document[f]: what the file f holds
    Uploader,       \* people who upload
    Approvers,      \* requests that approve a batch
    PollLimit,      \* limit of poll_inbox()
    MaxPages,       \* HERMES_OCR_MAX_PAGES
    MaxInboxFaults,      \* bound on failed requests and processes that die
    MaxApprovals,   \* MaxApprovals[n]: bound on approvals beside n files
    MaxHandled,     \* bound on files that are dropped or uploaded
    LastTime        \* bound on half days

ASSUME StatementInboxAssumption ==
    /\ DOMAIN Document \subseteq Nat \ {0} /\ "poller" \notin Uploader
    /\ \A f \in DOMAIN Document : DOMAIN Document[f].rows \subseteq Nat /\ IsFiniteSet(DOMAIN Document[f].rows)
    /\ MaxApprovals \in [1..MaxHandled -> Nat]
    /\ {PollLimit, MaxPages, MaxInboxFaults, MaxHandled, LastTime} \subseteq Nat

VARIABLES
    folder,     \* files in the drop folder
    inbox,      \* inbox[f]: the row of commission_ingest_batches with the file's content hash
    paid,       \* committed lines, commission_transactions
    approver,   \* approver[a]: what an approval is doing
    approvals,  \* history: the approvals begun, and which of its batch had ended by then
    stager,     \* stager[s]: what an upload or the poller is doing
    time,
    fresh,      \* when the seed last rewrote the ledger, and when a row was last created by hand
    verdict,    \* what the watchdog last found, and when
    inboxFaults

inboxVars == <<folder, inbox, paid, approver, approvals, stager, time, fresh, verdict, inboxFaults>>

Files == DOMAIN Document
Stager == Uploader \cup {"poller"}
NoFile == 0
Away == [at |-> "idle", file |-> NoFile, reading |-> {}, todo |-> {}, queue |-> {}, done |-> 0]
NoBatch == [status |-> "none", ok |-> TRUE, confirm |-> FALSE, lines |-> {}, told |-> FALSE, count |-> 0]
NoApproval == [at |-> "idle", file |-> NoFile, todo |-> {}, got |-> FALSE, turn |-> 0]

-----------------------------------------------------------------------------
(* Reading a file.  A row has a policy number, or "", and cells of money.  *)

\* as_money(): dollar signs and commas go, parentheses negate, and what is no
\* number is no amount.
AsMoney(cell) == CASE cell.as = "plain" -> {cell.n}
                   [] cell.as = "parens" -> {-cell.n}
                   [] OTHER -> {}
Amount(cell) == MapThenSumSet(LAMBDA n : n, AsMoney(cell))

PayLine(k, r, column) == [row |-> k, policy |-> r.policy, amount |-> Amount(r[column])]

\* parse_row() and its callers: a row with neither policy nor amount is no line;
\* one with money and no policy is taken for a total and told of.
GenericRows(rows) == {k \in DOMAIN rows : rows[k].policy # ""}
GenericReading(rows, method) ==
    [lines |-> {PayLine(k, rows[k], "month") : k \in GenericRows(rows)},
     told |-> GenericRows(rows) # DOMAIN rows, method |-> method, stated |-> {}]

\* parse_progressive(): by column position.  Money due without a commission is an
\* MVR charge, a fee line.
ProgressiveReading(d) ==
    LET isLine(r) == r.policy # "" \/ AsMoney(r.month) # {}
    IN  [lines |-> {PayLine(k, d.rows[k], "month") : k \in {j \in DOMAIN d.rows : isLine(d.rows[j])}},
         told |-> d.stated = {} \/ \E k \in DOMAIN d.rows : ~isLine(d.rows[k]),
         method |-> "xlsx", stated |-> d.stated]

\* parse_next(): the column of what was paid this month, of the two a statement has.
NextReading(d) ==
    [lines |-> {PayLine(k, d.rows[k], "month") : k \in GenericRows(d.rows)}, told |-> TRUE,
     method |-> d.suffix, stated |-> {}]

\* detect(): by file name or by header, for a workbook that has the sheet.
Detect(d) ==
    IF "Detailed" \in d.tabs /\ (d.named \/ {"Tran Code", "Policy Number"} \subseteq d.header) THEN "progressive_v1"
    ELSE IF {"agency commission paid this month", "policy number", "agent commission"} \subseteq d.header THEN "next_v1"
    ELSE "none"

CarrierReading(d) == CASE Detect(d) = "progressive_v1" -> {ProgressiveReading(d)}
                       [] Detect(d) = "next_v1" -> {NextReading(d)}
                       [] OTHER -> {}

\* read_text_tables(): the tables of the pages that have a text layer.
RowsOnPages(d, pages) == {k \in DOMAIN d.rows : d.rows[k].page \in pages}
TextPages(d) == {p \in DOMAIN d.layer : d.layer[p]}

\* The rows ks, of which those in off are read one column off ("a column read one
\* position off looks exactly like a clean parse").
Picked(d, ks, off) ==
    [k \in ks |-> IF k \in off THEN [d.rows[k] EXCEPT !.month = d.rows[k].toDate] ELSE d.rows[k]]

\* A PDF's batch always carries the warning to check it against the document.
PdfReading(d, ks, off, method) == [GenericReading(Picked(d, ks, off), method) EXCEPT !.told = TRUE]

\* read_ocr_tables(): the model transcribes what it makes of the first pages.
OcrReadings(d) ==
    UNION {{PdfReading(d, ks, off, "pdf_ocr") : off \in SUBSET ks} :
               ks \in SUBSET RowsOnPages(d, DOMAIN d.layer \cap 1..MaxPages)}

\* read_pdf() and parse_pdf(): the text layer, whose columns are inferred for the whole
\* table, and the model only where it gave no row.
PdfReadings(d) ==
    LET ks == RowsOnPages(d, TextPages(d))
    IN  IF ks # {} THEN {PdfReading(d, ks, off, "pdf_text") : off \in {{}, ks}} ELSE OcrReadings(d)

\* parse_file(): a carrier's own parser, if it found lines, before the generic one.
Readings(d) ==
    CASE d.suffix = "pdf" -> PdfReadings(d)
      [] d.suffix \in {"csv", "xlsx"} ->
            LET own == {r \in CarrierReading(d) : r.lines # {}}
            IN  IF own # {} THEN own
                ELSE IF d.suffix = "xlsx" /\ ~{"policy", "commission"} \subseteq d.header
                     THEN {[lines |-> {}, told |-> TRUE, method |-> "xlsx", stated |-> {}]}
                     ELSE {GenericReading(d.rows, d.suffix)}
      [] OTHER -> {[lines |-> {}, told |-> TRUE, method |-> "csv", stated |-> {}]}

\* crosscheck(): within CROSSCHECK_TOLERANCE of every total that is known.
Adds(lines) == MapThenSumSet(LAMBDA l : l.amount, lines)
Crosschecks(lines, stated) == \A n \in stated : Adds(lines) - n \in -1..1

-----------------------------------------------------------------------------
(* Staging                                                                 *)

InboxInit ==
    /\ folder = {} /\ paid = {} /\ approvals = <<>> /\ approver = [a \in Approvers |-> NoApproval]
    /\ inbox = [f \in Files |-> NoBatch] /\ stager = [s \in Stager |-> Away]
    /\ time = 1 /\ fresh = [seed |-> 1, made |-> 0] /\ verdict = [at |-> 0, problems |-> {}]
    /\ inboxFaults = 0

Resume(s) == IF s = "poller" THEN [stager[s] EXCEPT !.at = "list", !.file = NoFile, !.reading = {}, !.todo = {},
                                                    !.done = @ + 1]
             ELSE Away
Step(s, state) == stager' = [stager EXCEPT ![s] = state]
InboxFault == inboxFaults < MaxInboxFaults /\ inboxFaults' = inboxFaults + 1
NoInboxFault == UNCHANGED inboxFaults
Approving == <<paid, approver, approvals>>
Clocks == <<time, fresh, verdict>>
FirstClocks == <<1, [seed |-> 1, made |-> 0], [at |-> 0, problems |-> {}]>>

Handled == folder \cup {f \in Files : inbox[f].status # "none" \/ \E s \in Stager : stager[s].file = f}
MayHandle(f) ==
    /\ Clocks = FirstClocks /\ Cardinality(Handled \cup {f}) <= MaxHandled
    /\ Len(approvals) <= MaxApprovals[Cardinality(Handled \cup {f})]

DropFile(f) == /\ f \notin folder /\ MayHandle(f) /\ folder' = folder \cup {f}
               /\ UNCHANGED <<inbox, Approving, stager, Clocks, inboxFaults>>

StartUpload(s, f) ==
    /\ s # "poller" /\ stager[s].at = "idle" /\ MayHandle(f) /\ Step(s, [Away EXCEPT !.at = "check", !.file = f])
    /\ UNCHANGED <<folder, inbox, Approving, Clocks, inboxFaults>>

\* poll_inbox() lists the folder, whose files stay where they are.
StartPoll ==
    /\ stager["poller"].at = "idle"
    /\ Step("poller", [Away EXCEPT !.at = "list", !.queue = folder])
    /\ UNCHANGED <<folder, inbox, Approving, Clocks, inboxFaults>>

\* The next entry: a file of another kind is passed over, and every file that was
\* staged, refused or failed counts towards the limit.
Readable == {"csv", "xlsx", "pdf"}
NextEntry ==
    LET me == stager["poller"]
        f == Min(me.queue)
        full == me.done >= PollLimit
    IN  /\ me.at = "list"
        /\ UNCHANGED <<folder, inbox, Approving, Clocks>>
        /\ \/ me.queue = {} /\ Step("poller", Away) /\ NoInboxFault
           \/ /\ me.queue # {}
              /\ \/ Document[f].suffix \notin Readable /\ Step("poller", [me EXCEPT !.queue = @ \ {f}]) /\ NoInboxFault
                 \/ Document[f].suffix \in Readable /\ full /\ Step("poller", Away) /\ NoInboxFault
                 \/ /\ Document[f].suffix \in Readable /\ ~full
                    /\ \/ Step("poller", [me EXCEPT !.queue = @ \ {f}, !.at = "check", !.file = f]) /\ NoInboxFault
                       \/ Step("poller", [me EXCEPT !.queue = @ \ {f}, !.done = @ + 1]) /\ InboxFault

\* stage_statement() asks for a batch of the same content, and then reads the file.
CheckContent(s) ==
    LET f == stager[s].file
    IN  /\ stager[s].at = "check"
        /\ \/ /\ inbox[f].status # "none" /\ Step(s, Resume(s))
           \/ /\ inbox[f].status = "none"
              /\ \E r \in Readings(Document[f]) : Step(s, [stager[s] EXCEPT !.at = "batch", !.reading = {r}])
        /\ UNCHANGED <<folder, inbox, Approving, Clocks, inboxFaults>>

\* UNIQUE (content_hash): the second insert of a content fails.
AdmitsFile(f) == inbox[f].status = "none"

\* The batch, with row_count and what the uploader says the carrier states.
RowsOf(lines) == {l.row : l \in lines}
InsertBatch(s) ==
    /\ stager[s].at = "batch"
    /\ LET f == stager[s].file r == CHOOSE x \in stager[s].reading : TRUE
       IN  \/ /\ AdmitsFile(f) /\ NoInboxFault
              /\ inbox' = [inbox EXCEPT ![f] =
                    [status |-> IF r.lines = {} THEN "error" ELSE "pending_review",
                     ok |-> Crosschecks(r.lines, r.stated), confirm |-> r.method \in {"pdf_text", "pdf_ocr"},
                     lines |-> {}, told |-> r.told, count |-> Cardinality(RowsOf(r.lines))]]
              /\ Step(s, [stager[s] EXCEPT !.at = "lines", !.todo = r.lines])
           \/ ~AdmitsFile(f) /\ Step(s, Resume(s)) /\ UNCHANGED inbox /\ NoInboxFault
           \/ Step(s, Resume(s)) /\ UNCHANGED inbox /\ InboxFault
    /\ UNCHANGED <<folder, Approving, Clocks>>

\* The lines, one request each: a failure leaves the batch with those before it.
InsertLines(s) ==
    LET f == stager[s].file todo == stager[s].todo
    IN  /\ stager[s].at = "lines"
        /\ \/ /\ todo = {} /\ Step(s, Resume(s)) /\ UNCHANGED inbox /\ NoInboxFault
           \/ /\ todo # {}
              /\ LET l == CHOOSE x \in todo : \A y \in todo : x.row <= y.row
                 IN  /\ inbox' = [inbox EXCEPT ![f].lines = @ \cup {[of |-> s, row |-> l.row, line |-> l]}]
                     /\ Step(s, [stager[s] EXCEPT !.todo = @ \ {l}])
              /\ NoInboxFault
           \/ todo # {} /\ Step(s, Resume(s)) /\ UNCHANGED inbox /\ InboxFault
        /\ UNCHANGED <<folder, Approving, Clocks>>

StagerDies(s) == /\ stager[s].at # "idle" /\ InboxFault /\ Step(s, Away)
                 /\ UNCHANGED <<folder, inbox, Approving, Clocks>>

\* commit_statement(): guarded by the status it reads, the crosscheck and, for a PDF,
\* the approver's word.
ApprovesAny(f, confirmed) == inbox[f].status # "none"   \* what a bug could make of it
Approvable(f, confirmed) ==
    inbox[f].status = "pending_review" /\ inbox[f].ok /\ (inbox[f].confirm => confirmed)

ApprovalAt(a, state) == approver' = [approver EXCEPT ![a] = state]
EndedOf(f) == {n \in DOMAIN approvals : approvals[n].file = f /\ approvals[n].ended}

StartApproval(a, f, confirmed) ==
    /\ approver[a].at = "idle" /\ Approvable(f, confirmed)
    /\ Len(approvals) < MaxApprovals[Cardinality(Handled)]
    /\ approvals' = Append(approvals, [file |-> f, confirmed |-> confirmed, ended |-> FALSE, after |-> EndedOf(f)])
    /\ ApprovalAt(a, [NoApproval EXCEPT !.at = "read", !.file = f, !.turn = Len(approvals) + 1])
    /\ UNCHANGED <<folder, inbox, paid, stager, Clocks, inboxFaults>>

\* The lines staged by now; a batch without any is refused.
ReadStaged(a) ==
    LET me == approver[a]
    IN  /\ me.at = "read"
        /\ IF inbox[me.file].lines = {} THEN ApprovalAt(a, NoApproval)
           ELSE ApprovalAt(a, [me EXCEPT !.at = "lines", !.todo = inbox[me.file].lines])
        /\ UNCHANGED <<folder, inbox, paid, approvals, stager, Clocks, inboxFaults>>

\* One insert each; an error, also of an insert that went through, is noted and the loop
\* goes on.
CommitLine(a) ==
    LET me == approver[a]
        l == CHOOSE x \in me.todo : \A y \in me.todo : x.row <= y.row
    IN  /\ me.at = "lines" /\ me.todo # {}
        /\ \E stored, heard \in BOOLEAN :
              /\ paid' = IF stored THEN paid \cup {[file |-> me.file, of |-> l.of, line |-> l.line, by |-> me.turn]}
                         ELSE paid
              /\ ApprovalAt(a, [me EXCEPT !.todo = @ \ {l}, !.got = @ \/ (stored /\ heard)])
              /\ IF stored /\ heard THEN NoInboxFault ELSE InboxFault
        /\ UNCHANGED <<folder, inbox, approvals, stager, Clocks>>

\* After the matching and the roll-up the batch's status is set, whatever it is by now.
FinishApproval(a) ==
    LET me == approver[a]
    IN  /\ me.at = "lines" /\ me.todo = {}
        /\ inbox' = [inbox EXCEPT ![me.file].status = IF me.got THEN "committed" ELSE "error"]
        /\ approvals' = [approvals EXCEPT ![me.turn].ended = TRUE]
        /\ ApprovalAt(a, NoApproval)
        /\ UNCHANGED <<folder, paid, stager, Clocks, inboxFaults>>

\* The process dies, or a request outside the loop fails: the batch still waits.
ApprovalBreaks(a) ==
    /\ approver[a].at # "idle" /\ InboxFault /\ ApprovalAt(a, NoApproval)
    /\ UNCHANGED <<folder, inbox, paid, approvals, stager, Clocks>>

RejectBatch(f) == /\ inbox[f].status \notin {"none", "rejected"} /\ inbox' = [inbox EXCEPT ![f].status = "rejected"]
                  /\ UNCHANGED <<folder, Approving, stager, Clocks, inboxFaults>>

-----------------------------------------------------------------------------
(* The watchdog                                                            *)

StaleAfter == 3     \* LEDGER_FRESHNESS_HOURS, 36

\* Half a day goes by; at night the seed runs, or does not.
TimePasses == /\ time < LastTime /\ Handled = {} /\ time' = time + 1
              /\ fresh' \in {fresh} \cup (IF time' % 2 = 1 THEN {[fresh EXCEPT !.seed = time']} ELSE {})
              /\ UNCHANGED <<folder, inbox, Approving, stager, verdict, inboxFaults>>

\* Somewhere an approval makes a ledger row of a policy in the book (relink_unmatched).
RowMade == /\ Handled = {} /\ fresh.made # time /\ fresh' = [fresh EXCEPT !.made = time]
           /\ UNCHANGED <<folder, inbox, Approving, stager, time, verdict, inboxFaults>>

\* The newest stamp of the ledger is the seed's or that of a row just created.
Newest == Max({fresh.seed, fresh.made})
Problems(readable) == IF ~readable THEN {"ledger_unreadable"}
                      ELSE IF time - Newest > StaleAfter THEN {"stale"} ELSE {}

\* watchdog(), which posts what it finds and exits with 1; alert() is silent otherwise.
Watchdog ==
    /\ verdict.at # time /\ Handled = {}
    /\ \E readable \in BOOLEAN : verdict' = [at |-> time, problems |-> Problems(readable)]
    /\ UNCHANGED <<folder, inbox, Approving, stager, time, fresh, inboxFaults>>

InboxNext ==
    \/ \E f \in Files : DropFile(f) \/ RejectBatch(f)
    \/ \E a \in Approvers, f \in Files, confirmed \in BOOLEAN : StartApproval(a, f, confirmed)
    \/ \E a \in Approvers : ReadStaged(a) \/ CommitLine(a) \/ FinishApproval(a) \/ ApprovalBreaks(a)
    \/ \E s \in Uploader, f \in Files : StartUpload(s, f)
    \/ \E s \in Stager : CheckContent(s) \/ InsertBatch(s) \/ InsertLines(s) \/ StagerDies(s)
    \/ StartPoll \/ NextEntry
    \/ TimePasses \/ RowMade \/ Watchdog

InboxSpec == InboxInit /\ [][InboxNext]_inboxVars

\* The poller runs again and again, and a poll that has begun goes on.
PollerStep == StartPoll \/ NextEntry \/ CheckContent("poller") \/ InsertBatch("poller") \/ InsertLines("poller")
PolledSpec == InboxSpec /\ WF_inboxVars(PollerStep)

-----------------------------------------------------------------------------
(* Properties                                                              *)

\* A row is committed for what it pays this month, whichever way the file was read,
\* unless it was read off a PDF and the approver gave the word that it says so
\* (carriers.py; statements.py, CONFIRM_REQUIRED_METHODS).
PaidAsStated ==
    \A t \in paid :
        \/ t.line.amount = Amount(Document[t.file].rows[t.line.row].month)
        \/ Document[t.file].suffix = "pdf" /\ approvals[t.by].confirmed

\* However often and by whomever a file is handed in, one approval commits a row of it
\* once, and none does that began after another of the batch had ended (UNIQUE
\* (content_hash); commit_statement() refuses what is not pending).  Two approvals at
\* once, or one after another that broke off, may commit it twice.
PaidOnce ==
    \A t, u \in paid : t.file = u.file /\ t.line.row = u.line.row =>
        t = u \/ (t.by # u.by /\ t.by \notin approvals[u.by].after)

\* A batch that is called committed has put a line into the ledger ("a batch where every
\* line failed is not committed").
CommittedPays == \A f \in Files : inbox[f].status = "committed" => \E t \in paid : t.file = f

\* A row that pays a policy is staged, or the batch's own record shows that something is
\* missing: a warning of its reader, or a row_count that the staged lines do not reach.
NothingDroppedSilently ==
    \A f \in Files : inbox[f].status # "none" =>
        \/ DOMAIN Document[f].rows \subseteq RowsOf(inbox[f].lines)
        \/ inbox[f].told \/ Cardinality(RowsOf(inbox[f].lines)) < inbox[f].count

\* While nobody's approval has made a ledger row since, a watchdog that finds nothing
\* wrong means that the seed ran within its limit (jobs.py, watchdog).
SilenceMeansSeeded ==
    (verdict.at = time /\ verdict.problems = {} /\ fresh.made <= fresh.seed) => time - fresh.seed <= StaleAfter

\* A statement that was dropped is staged in the end ("the rest will be picked up on the
\* next poll", jobs.py).
EveryDropStaged == \A f \in Files : f \in folder ~> inbox[f].status # "none"

\* What the ledger takes from a statement is what it says, once for an approval, and what
\* is missing can be seen; and a seed that stops is noticed.
InboxSafe == PaidAsStated /\ PaidOnce /\ CommittedPays /\ NothingDroppedSilently /\ SilenceMeansSeeded

=============================================================================
