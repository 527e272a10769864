------------------------------ MODULE MCOfficeDesk ------------------------------
(* Small instances of what works on renewals, on commission reports and on the *)
(* copies of the book and its documents elsewhere, and of the clients and the  *)
(* assistant in front.  They share no state that the models keep, so a         *)
(* behaviour is about the one that part names, and the others rest.            *)
EXTENDS CommissionScan, Briefings, RenewalEvents, RenewalCases, RenewalWrites, StatementInbox, ZohoBackfill, BookHealth, SharedDesk, ApiClients, AgentTurn, BookReports

CONSTANT
    Parts       \* the components that behaviours may be about

VARIABLE part

-----------------------------------------------------------------------------
(* CommissionScan: every mix of the facts its rules look at.                   *)

MCPolicyFacts ==
    [number: {TRUE}, status: {"Active", "Renewed", "Renewing", "Cancelled"}, premium: {0, 10}, direct: {0, 100, 150},
     eff: {0, 1, 2, 3, 4}, from: BOOLEAN, marked: {FALSE}, billing: {"", "agency"}, fee: {0}]
MCRowFacts ==
    [renewal: {"", "new", "renewal"}, expected: {-5, 0, 100, 150}, premium: {10}, billing: {""}, fee: {0},
     recon: {"pending", "chargeback"}, timing: {""}]
MCRules == {[nb |-> 10, renewal |-> 15, timing |-> "", profile |-> ""],
            [nb |-> 10, renewal |-> 0, timing |-> "advance", profile |-> "as_earned"]}

(* RenewalEvents: a term, one that has a predecessor, one of Medicare.         *)

MCTerm(number, from, status, eff, exp) ==
    [number |-> number, from |-> from, status |-> status, medicare |-> FALSE, eff |-> eff, exp |-> exp]
MCOpening == {<<MCTerm(<<"A">>, <<>>, "current", 1, 4)>>,
              <<MCTerm(<<"A">>, <<>>, "dead", 0, 1), MCTerm(<<"A">>, <<>>, "current", 1, 4)>>,
              <<[MCTerm(<<"A">>, <<>>, "current", 1, 4) EXCEPT !.medicare = TRUE]>>}

(* RenewalCases: two events of one client, one of another.                     *)

MCEvent == {"car", "home", "shop"}
MCClient(e) == IF e = "shop" THEN "Zed" ELSE "Amy"
MCExpires(e) == CASE e = "car" -> 1 [] e = "home" -> 2 [] e = "shop" -> 3

(* RenewalWrites: the writes, with and without fields, and the notes.          *)

MCRenewalJobs ==
    [action: {"update_ams", "client_follow_up", "prepare_options"}, approved: {TRUE}, expects: {TRUE}, fields: {TRUE}]
        \cup [action: {"update_ams"}, approved: {TRUE}, expects: {TRUE}, fields: {FALSE}]

(* StatementInbox: a later month of NEXT, Progressive's workbook with its      *)
(* totals, a sheet that ends in a total, a PDF whose second page is a picture, *)
(* a format nothing reads, and a scan of two pages, one too many.  Two         *)
(* approvals of one file, or two files.                                        *)

MCCell(n) == [as |-> "plain", n |-> n]
MCNothing == [as |-> "blank", n |-> 0]
MCRow(p, month, toDate, page) == [policy |-> p, month |-> month, toDate |-> toDate, page |-> page]
MCSheet(suffix, tabs, header, rows) ==
    [suffix |-> suffix, tabs |-> tabs, named |-> FALSE, header |-> header, rows |-> rows, layer |-> <<>>, stated |-> {}]
MCDocument == <<
    MCSheet("csv", {""}, {"agency commission paid this month", "policy number", "agent commission"},
            <<MCRow("P1", MCCell(5), MCCell(10), 1)>>),
    [MCSheet("xlsx", {"Detailed", "Summary"}, {"Tran Code", "Policy Number"},
             <<MCRow("P2", MCCell(8), MCCell(8), 1), MCRow("P2", [as |-> "parens", n |-> 3], MCNothing, 1)>>) EXCEPT !.stated = {5}],
    [MCSheet("pdf", {}, {}, <<MCRow("P1", MCCell(4), MCNothing, 1), MCRow("P2", MCCell(2), MCNothing, 2)>>)
        EXCEPT !.layer = <<TRUE, FALSE>>],
    MCSheet("xlsx", {"Sheet1"}, {"policy", "commission"}, <<MCRow("P2", MCCell(6), MCNothing, 1), MCRow("", MCCell(6), MCNothing, 1)>>),
    MCSheet("xls", {}, {}, <<>>),
    [MCSheet("pdf", {}, {}, <<MCRow("P1", MCCell(4), MCNothing, 1), MCRow("P2", MCCell(2), MCNothing, 2)>>)
        EXCEPT !.layer = <<FALSE, FALSE>>]>>
MCMaxApprovals == <<2, 0>>

(* ZohoBackfill: a namesake without a GUID, a policy without one, a lead.       *)

MCNamed(guid, name) == [guid |-> guid, name |-> name]
MCHeld(owner, guid, number, exp) == [owner |-> owner, guid |-> guid, number |-> number, exp |-> exp, version |-> 1]
MCInsureds == {<<MCNamed("i1", "Ann"), MCNamed("i2", "Bob")>>, <<MCNamed("i1", "Ann"), MCNamed("", "Bob"), MCNamed("i2", "Ann")>>}
MCPolicies == {<<MCHeld("i1", "p1", "N1", 1), MCHeld("i1", "", "N2", 2), MCHeld("i2", "p2", "N1", 4)>>}
MCRecords ==
    {<<>>, <<[module |-> "Accounts", guid |-> "", key |-> "Bob", account |-> 0, exp |-> NoDate, version |-> 0, risk |-> ""]>>}

(* BookHealth: three policies, one of them not live.                           *)

MCNumberOf == <<"N1", "N2", "N3">>
MCSides == {[g \in Guids |-> [live |-> g # 2, carrier |-> "Geico", date |-> g]]}

(* SharedDesk: a card under two spellings, folders, two files of one name.     *)

MCSameTitle(a, b) == a = b \/ {a, b} = {"Call Amy", "call amy"}
MCAsks ==
    {[tool |-> "add_deck_card", fit |-> TRUE, title |-> t, due |-> TRUE] : t \in {"Call Amy", "call amy"}}
        \cup [tool: {"ensure_nextcloud_folders"}, fit: {TRUE}, confirm: BOOLEAN, paths: {<<<<"A">>, <<"A", "B">>>>}]
        \cup [tool: {"file_to_nextcloud"}, fit: BOOLEAN, path: {<<"A", "x.pdf">>}, content: {1}]
        \cup {[tool |-> "file_to_nextcloud", fit |-> TRUE, path |-> <<"A", "x.pdf">>, content |-> 2],
              [tool |-> "save_document", fit |-> TRUE, title |-> "note"]}
MCBase == <<>>

(* BookReports: a term, and one that came with a new number.                   *)

MCShelfTerm(number, from, eff, premium) ==
    [number |-> number, from |-> from, status |-> "Active", active |-> TRUE, eff |-> eff, exp |-> eff + TermDays, premium |-> premium]
MCSlips == {-1}
MCShelves == {<<MCShelfTerm(<<"A">>, <<>>, -1, 3), [MCShelfTerm(<<"B">>, <<>>, -1, 2) EXCEPT !.status = "Inactive: not in NowCerts"]>>,
              <<MCShelfTerm(<<"A">>, <<>>, -3, 3), MCShelfTerm(<<"A", "R">>, <<"A">>, -1, 4)>>}

-----------------------------------------------------------------------------
(* A component that the behaviour is not about starts in one state and stays.  *)

MCDomain(name, S) == IF part = name THEN S ELSE {CHOOSE x \in S : TRUE}

MCInit ==
    /\ part \in Parts
    /\ ScanInit(MCDomain("scan", MCPolicyFacts), MCDomain("scan", MCRowFacts), MCDomain("scan", MCRules))
    /\ (part # "scan" => rowFacts = NoRow)
    /\ \E found \in MCDomain("briefings", SUBSET {"blind"}) : BriefingInit(found)
    /\ RenewalInit(MCDomain("events", MCOpening))
    /\ CasesInit
    /\ RenewalWritesInit
    /\ (part # "writes" => /\ renewalJob = CHOOSE j \in MCRenewalJobs : TRUE
                           /\ renewalLinked /\ amsPolicy = [value |-> "old", status |-> "Active", active |-> TRUE, copies |-> 1])
    \* A note neither writes nor compares the value of the policy.
    /\ (part = "writes" /\ renewalJob.action # "update_ams" => renewalLinked /\ amsPolicy.value = "old")
    /\ InboxInit
    /\ BackfillInit(MCDomain("backfill", MCInsureds), MCDomain("backfill", MCPolicies), MCDomain("backfill", MCRecords))
    /\ \E copied \in MCDomain("health", {Guids, Guids \ {1}}) : HealthInit(MCSides, copied)
    /\ DriveInit
    /\ ApiInit
    /\ AgentInit
    /\ ReportsInit(MCDomain("reports", MCShelves))

MCAtRest(name, v) == IF part = name THEN TRUE ELSE UNCHANGED v

MCOthersRest ==
    /\ UNCHANGED part
    /\ MCAtRest("scan", scanVars)
    /\ MCAtRest("briefings", briefingVars)
    /\ MCAtRest("events", renewalVars)
    /\ MCAtRest("cases", caseVars)
    /\ MCAtRest("writes", renewalWriteVars)
    /\ MCAtRest("inbox", inboxVars)
    /\ MCAtRest("backfill", backfillVars)
    /\ MCAtRest("health", healthVars)
    /\ MCAtRest("shared", driveVars)
    /\ MCAtRest("api", apiVars)
    /\ MCAtRest("agent", agentVars)
    /\ MCAtRest("reports", reportVars)

\* Approvers are alike: that only "ann" approves while nobody else does loses nothing.
\* Two approvals are of a file that somebody uploads.
MCApprovals ==
    /\ approver["bob"].at = "idle" /\ approver'["bob"].at # "idle" => approver["ann"].at # "idle"
    /\ Len(approvals') = 2 => folder' = {}

MCNext ==
    \/ part = "scan" /\ ScanNext /\ MCOthersRest
    \/ part = "briefings" /\ BriefingNext /\ MCOthersRest
    \/ part = "events" /\ RenewalNext /\ MCOthersRest
    \/ part = "cases" /\ CasesNext /\ MCOthersRest
    \/ part = "writes" /\ RenewalWritesNext /\ MCOthersRest
    \/ part = "inbox" /\ InboxNext /\ MCApprovals /\ MCOthersRest
    \/ part = "backfill" /\ BackfillNext /\ MCOthersRest
    \/ part = "health" /\ HealthNext /\ MCOthersRest
    \/ part = "shared" /\ DriveNext /\ MCOthersRest
    \/ part = "api" /\ ApiNext /\ MCOthersRest
    \/ part = "agent" /\ AgentNext /\ MCOthersRest
    \/ part = "reports" /\ ReportsNext /\ MCOthersRest

MCVars == <<part, scanVars, briefingVars, renewalVars, caseVars, renewalWriteVars, inboxVars, backfillVars, healthVars, driveVars, apiVars, agentVars, reportVars>>
MCSpec == MCInit /\ [][MCNext]_MCVars

-----------------------------------------------------------------------------

\* Zoho neither lacks what a backfill reports to be there nor holds it twice (see
\* BackfillSafe), and a mirror that a check calls healthy missed no live policy (see
\* HealthyMeansLive).
CopiesSafe == BackfillSafe /\ HealthyMeansLive

\* Threads that share the API clients write nothing twice and ask for one token at a
\* time (see ApiSafe); the assistant runs no disabled tool, writes nothing for a question
\* and denies nothing it did not read (see AgentSafe).
ClientsSafe == ApiSafe /\ AgentSafe
=============================================================================
