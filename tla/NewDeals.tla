------------------------------ MODULE NewDeals ------------------------------
(***************************************************************************)
(* How a deal comes into being: commit_intake() opens the lines of an      *)
(* approved intake, ties them to an insured of the AMS and mirrors them    *)
(* into Zoho (hermes/intake/commit.py, gateway_ams.py,                     *)
(* opportunity_priming.py, zoho_writer.py), and a lead is converted        *)
(* (hermes/leads.py).  Both go through create_opportunity(), which selects *)
(* and then inserts under a unique index.                                  *)
(*                                                                         *)
(* A client is the identifier made of a name: all that a commit, a lead    *)
(* and an account of Zoho have in common.  Commits overlap: two intakes,   *)
(* or one submitted again after a failure.                                 *)
(***************************************************************************)
EXTENDS Integers, FiniteSets

CONSTANTS
    Clients,
    Lines,          \* numbers
    Stations,          \* processes: workers, requests
    MaxCommits,     \* bound on commits and conversions
    MaxDealFaults,  \* bound on requests that fail
    NoDeal          \* no row, and no line

VARIABLES
    dealRows,       \* opportunities, per client and line: NoDeal or a row
    zohoAccounts,   \* id -> client; ids are counted
    zohoDeals,      \* the deals of Zoho
    leads,          \* one lead per client
    desks,          \* the commit or conversion of each process
    commits, dealFaults

dealVars == <<dealRows, zohoAccounts, zohoDeals, leads, desks, commits, dealFaults>>

ASSUME NewDealsAssumption ==
    /\ Lines \subseteq Nat
    /\ NoDeal \notin Lines
    /\ NoDeal \notin [guid: BOOLEAN, account: Nat, deals: SUBSET Nat]
    /\ MaxCommits \in Nat /\ MaxDealFaults \in Nat

-----------------------------------------------------------------------------

FreeDesk == [step |-> "free"]
FreshDeal == [guid |-> FALSE, account |-> 0, deals |-> {}]

\* LEAD_STATUSES; "working" and "quoted" are as good as "new" here.
LeadStatuses == {"new", "converted", "lost"}

NewDealTypeOK ==
    /\ dealRows \in [Clients \X Lines -> {NoDeal} \cup
                       [guid: BOOLEAN, account: 0..Cardinality(DOMAIN zohoAccounts), deals: SUBSET {d.id : d \in zohoDeals}]]
    /\ \A d \in zohoDeals : d.account \in DOMAIN zohoAccounts /\ d.line \in Lines
    /\ leads \in [Clients -> [status: LeadStatuses \cup {"deleted"}, line: Lines \cup {NoDeal}]]
    /\ commits \in 0..MaxCommits /\ dealFaults \in 0..MaxDealFaults

DeskTo(p, new) == desks' = [desks EXCEPT ![p] = new]
DealFault == dealFaults < MaxDealFaults /\ dealFaults' = dealFaults + 1

StartIntake(p, c, ls) ==
    /\ desks[p].step \in {"free", "done", "raised"} /\ commits < MaxCommits
    /\ commits' = commits + 1
    /\ DeskTo(p, [step |-> "open", kind |-> "intake", client |-> c, lines |-> ls, todo |-> ls, line |-> NoDeal, account |-> 0, made |-> {}])
    /\ UNCHANGED <<dealRows, zohoAccounts, zohoDeals, leads, dealFaults>>

StartConversion(p, c, l) ==
    /\ leads[c].status # "deleted" /\ desks[p].step \in {"free", "done", "raised"} /\ commits < MaxCommits
    /\ commits' = commits + 1
    /\ DeskTo(p, [step |-> "open", kind |-> "lead", client |-> c, lines |-> {l}, todo |-> {l}, line |-> NoDeal, account |-> 0, made |-> {}])
    /\ UNCHANGED <<dealRows, zohoAccounts, zohoDeals, leads, dealFaults>>

\* Lines are worked off in their order; after the last one comes the next step.
InTurn(p, l) == l \in desks[p].todo /\ \A k \in desks[p].todo : l <= k

Onward(w, l, step, next) ==
    LET left == w.todo \ {l}
    IN  IF left = {} THEN [w EXCEPT !.step = next, !.todo = w.lines] ELSE [w EXCEPT !.step = step, !.todo = left]

AfterOpen(w) == IF w.kind = "lead" THEN "convert" ELSE "adopt"

\* create_opportunity(): the row that is there, open, lost or won, is the answer.
FindDeal(p, l) ==
    /\ desks[p].step = "open" /\ InTurn(p, l)
    /\ DeskTo(p, IF dealRows[desks[p].client, l] # NoDeal THEN Onward(desks[p], l, "open", AfterOpen(desks[p]))
                 ELSE [desks[p] EXCEPT !.step = "insert", !.line = l])
    /\ UNCHANGED <<dealRows, zohoAccounts, zohoDeals, leads, commits, dealFaults>>

\* The unique index refuses the second insert of two; the error ends the commit.
InsertDeal(p) ==
    /\ desks[p].step = "insert"
    /\ LET w   == desks[p]
           key == <<w.client, w.line>>
       IN  IF dealRows[key] = NoDeal
           THEN dealRows' = [dealRows EXCEPT ![key] = FreshDeal] /\ DeskTo(p, Onward(w, w.line, "open", AfterOpen(w)))
           ELSE dealRows' = dealRows /\ DeskTo(p, [w EXCEPT !.step = "raised"])
    /\ UNCHANGED <<zohoAccounts, zohoDeals, leads, commits, dealFaults>>

\* A faulty conversion that goes on without the row.
AfterFailedOpeningOnward(w) == [w EXCEPT !.step = IF w.kind = "lead" THEN "convert" ELSE "raised"]

AfterFailedOpening(w) == [w EXCEPT !.step = "raised"]

OpeningFails(p) ==
    /\ desks[p].step \in {"open", "insert", "convert"} /\ DealFault
    /\ DeskTo(p, AfterFailedOpening(desks[p]))
    /\ UNCHANGED <<dealRows, zohoAccounts, zohoDeals, leads, commits>>

LeadLine(w) == CHOOSE l \in w.lines : TRUE

Convert(p) ==
    /\ desks[p].step = "convert"
    /\ leads' = [leads EXCEPT ![desks[p].client] =
                     IF @.status = "deleted" THEN @ ELSE [status |-> "converted", line |-> LeadLine(desks[p])]]
    /\ DeskTo(p, [desks[p] EXCEPT !.step = "done"])
    /\ UNCHANGED <<dealRows, zohoAccounts, zohoDeals, commits, dealFaults>>

\* update_lead(): any status may be typed, "converted" too; the deal of a lead may not.
EditLead(c) ==
    /\ leads[c].status # "deleted"
    /\ \E s \in LeadStatuses : leads' = [leads EXCEPT ![c].status = s]
    /\ UNCHANGED <<dealRows, zohoAccounts, zohoDeals, desks, commits, dealFaults>>

\* Conversions under way go on, and update no row.
DeleteLead(c) ==
    /\ leads' = [leads EXCEPT ![c] = [status |-> "deleted", line |-> NoDeal]]
    /\ UNCHANGED <<dealRows, zohoAccounts, zohoDeals, desks, commits, dealFaults>>

-----------------------------------------------------------------------------
(* The AMS: adopted through the gateway, or looked up by the priming;      *)
(* either may find nobody, and neither stops the commit                    *)

Keyed(c, lines) ==
    [key \in DOMAIN dealRows |-> IF key[1] = c /\ key[2] \in lines THEN [dealRows[key] EXCEPT !.guid = TRUE] ELSE dealRows[key]]

AdoptDeal(p) ==
    /\ desks[p].step = "adopt"
    /\ \E lines \in {{}, desks[p].lines} : dealRows' = Keyed(desks[p].client, lines)
    /\ DeskTo(p, [desks[p] EXCEPT !.step = "account"])
    /\ UNCHANGED <<zohoAccounts, zohoDeals, leads, commits, dealFaults>>

-----------------------------------------------------------------------------
(* write_intake_to_zoho()                                                  *)

AccountsOf(c) == {a \in DOMAIN zohoAccounts : zohoAccounts[a] = c}

\* The search finds an account of the client, if there is one when it is asked.
FindAccount(p) ==
    /\ desks[p].step = "account"
    /\ \/ \E a \in AccountsOf(desks[p].client) : DeskTo(p, [desks[p] EXCEPT !.step = "deals", !.account = a])
       \/ AccountsOf(desks[p].client) = {} /\ DeskTo(p, [desks[p] EXCEPT !.step = "newaccount"])
    /\ UNCHANGED <<dealRows, zohoAccounts, zohoDeals, leads, commits, dealFaults>>

CreateAccount(p) ==
    /\ desks[p].step = "newaccount"
    /\ LET id == Cardinality(DOMAIN zohoAccounts) + 1
       IN  /\ zohoAccounts' = [a \in DOMAIN zohoAccounts \cup {id} |-> IF a = id THEN desks[p].client ELSE zohoAccounts[a]]
           /\ DeskTo(p, [desks[p] EXCEPT !.step = "deals", !.account = id])
    /\ UNCHANGED <<dealRows, zohoDeals, leads, commits, dealFaults>>

\* Without an account nothing else is written, and the commit is complete.
AccountFails(p) ==
    /\ desks[p].step \in {"account", "newaccount"} /\ DealFault
    /\ DeskTo(p, [desks[p] EXCEPT !.step = "done"])
    /\ UNCHANGED <<dealRows, zohoAccounts, zohoDeals, leads, commits>>

ZohoDealOf(id, w, l) == [id |-> id, account |-> w.account, line |-> l]

CreateDeal(p, l) ==
    /\ desks[p].step = "deals" /\ InTurn(p, l)
    /\ LET id == Cardinality(zohoDeals) + 1
       IN  /\ zohoDeals' = zohoDeals \cup {ZohoDealOf(id, desks[p], l)}
           /\ DeskTo(p, Onward([desks[p] EXCEPT !.made = @ \cup {id}], l, "deals", "stamp"))
    /\ UNCHANGED <<dealRows, zohoAccounts, leads, commits, dealFaults>>

\* One record failing must not block the rest.
DealFails(p, l) ==
    /\ desks[p].step = "deals" /\ InTurn(p, l) /\ DealFault
    /\ DeskTo(p, Onward(desks[p], l, "deals", "stamp"))
    /\ UNCHANGED <<dealRows, zohoAccounts, zohoDeals, leads, commits>>

\* The cross-reference: account and deals in one update.
Stamped(row, w) == [row EXCEPT !.account = w.account, !.deals = w.made]

StampRow(p, l) ==
    /\ desks[p].step = "stamp" /\ InTurn(p, l)
    /\ dealRows' = [dealRows EXCEPT ![<<desks[p].client, l>>] = Stamped(@, desks[p])]
    /\ DeskTo(p, Onward(desks[p], l, "stamp", "done"))
    /\ UNCHANGED <<zohoAccounts, zohoDeals, leads, commits, dealFaults>>

AfterFailedStamp(w, l) == Onward(w, l, "stamp", "done")

StampFails(p, l) ==
    /\ desks[p].step = "stamp" /\ InTurn(p, l) /\ DealFault
    /\ DeskTo(p, AfterFailedStamp(desks[p], l))
    /\ UNCHANGED <<dealRows, zohoAccounts, zohoDeals, leads, commits>>

-----------------------------------------------------------------------------

NewDealsInit ==
    /\ dealRows = [key \in Clients \X Lines |-> NoDeal]
    /\ zohoAccounts = [a \in {} |-> NoDeal] /\ zohoDeals = {}
    /\ leads = [c \in Clients |-> [status |-> "new", line |-> NoDeal]]
    /\ desks = [p \in Stations |-> FreeDesk] /\ commits = 0 /\ dealFaults = 0

NewDealsNext ==
    \/ \E c \in Clients : EditLead(c) \/ DeleteLead(c)
    \/ \E p \in Stations, c \in Clients :
          \/ \E ls \in (SUBSET Lines) \ {{}} : StartIntake(p, c, ls)
          \/ \E l \in Lines : StartConversion(p, c, l)
    \/ \E p \in Stations :
          \/ InsertDeal(p) \/ OpeningFails(p) \/ Convert(p)
          \/ AdoptDeal(p) \/ FindAccount(p) \/ CreateAccount(p) \/ AccountFails(p)
          \/ \E l \in Lines : FindDeal(p, l) \/ CreateDeal(p, l) \/ DealFails(p, l) \/ StampRow(p, l) \/ StampFails(p, l)

NewDealsSpec == NewDealsInit /\ [][NewDealsNext]_dealVars

\* What a row says of Zoho is one account of its client and deals of that account,
\* however many commits stamp it and whichever of them made which account.
ZohoStampTrue ==
    \A c \in Clients, l \in Lines :
        dealRows[c, l] # NoDeal /\ dealRows[c, l].account # 0 =>
            /\ zohoAccounts[dealRows[c, l].account] = c
            /\ \A d \in zohoDeals : d.id \in dealRows[c, l].deals => d.account = dealRows[c, l].account

\* "A Zoho failure must never undo the Supabase rows": a commit that raised, and whose
\* intake is therefore sent in again, has made no deal in Zoho.
RaisedMadeNothing == \A p \in Stations : desks[p].step = "raised" => desks[p].made = {}

\* A lead that names a deal names one of its own client that is in the pipeline, whatever
\* fails or collides on the way, and whatever is typed into the lead meanwhile.
ConvertedHasDeal == \A c \in Clients : leads[c].line # NoDeal => dealRows[c, leads[c].line] # NoDeal

\* Rows, leads, accounts and deals agree with one another, whichever commit failed at
\* whichever request.
NewDealsSafe == NewDealTypeOK /\ ZohoStampTrue /\ RaisedMadeNothing /\ ConvertedHasDeal

=============================================================================
