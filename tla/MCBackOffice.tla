---------------------------- MODULE MCBackOffice ----------------------------
(* Small instances of the two components that converge by themselves, the     *)
(* cached book and the commission ledger, and of the tasks of the office.      *)
(* They share no state that the models keep, so a behaviour is about the one   *)
(* that part names and the others rest.                                        *)
EXTENDS LiveBook, CommissionLedger, CaseTasks, TLC

CONSTANTS
    Parts,      \* the components that behaviours may be about
    t1, t2      \* threads

VARIABLE part

(* CommissionLedger: two spellings of one policy, a filler, a total row; one   *)
(* statement read from a PDF.                                                  *)

MCNumber(key, as) == [key |-> key, as |-> as]
MCRow(number, at, amount) == [number |-> number, day |-> at, amount |-> amount]
MCRawRow == 1 :> MCRow(MCNumber("P", "p-1"), 1, 4) @@ 2 :> MCRow(MCNumber("", "--"), 2, 0)
         @@ 4 :> MCRow(MCNumber("", "--"), 2, 0) @@ 3 :> MCRow(MCNumber("", ""), 0, 4)
MCStatement == 1 :> [rows |-> {1, 3}, printed |-> 4, carrierParser |-> FALSE, pdf |-> TRUE]
            @@ 2 :> [rows |-> {2, 4}, printed |-> 0, carrierParser |-> TRUE, pdf |-> FALSE]
MCPolicy == <<[number |-> MCNumber("P", "P1"), start |-> 1, end |-> 2, expected |-> 9, status |-> "won", worth |-> TRUE]>>
MCFiller == <<[number |-> MCNumber("", "**"), start |-> 2, end |-> 0, expected |-> 0, status |-> "won", worth |-> TRUE]>>

-----------------------------------------------------------------------------

MCInit ==
    /\ part \in Parts
    /\ BookInit /\ (part # "book" => book.of = "policies" /\ fetcher["nightly"].at = "off" /\ \A p \in Policy : mirror[p] = NoBookRow)
    /\ \/ MoneyInit(MCPolicy)
       \/ part = "money" /\ MoneyInit(MCFiller)
    /\ TasksInit

MCNext ==
    \/ part = "book" /\ BookNext /\ UNCHANGED <<part, moneyVars, taskVars>>
    \/ part = "money" /\ MoneyNext /\ UNCHANGED <<part, bookVars, taskVars>>
    \/ part = "tasks" /\ TasksNext /\ UNCHANGED <<part, bookVars, moneyVars>>

\* BookFairness and MoneyFairness, of the component that the behaviour is about.
MCFairness ==
    /\ WF_bookVars(part = "book" /\ RequestBook) /\ WF_bookVars(part = "book" /\ Nightly)
    /\ \A t \in Thread : WF_bookVars(part = "book" /\ RefreshBook(t))
    /\ WF_bookVars(part = "book" /\ TtlEnds) /\ WF_bookVars(part = "book" /\ BackoffEnds)
    /\ WF_bookVars(part = "book" /\ FullEnds)
    /\ SF_moneyVars(part = "money" /\ Seed) /\ SF_moneyVars(part = "money" /\ ClerkStep("reconcile"))
    /\ \A a \in Approver : WF_moneyVars(part = "money" /\ ClerkStep(a))

MCSpec == MCInit /\ [][MCNext]_<<part, bookVars, moneyVars, taskVars>> /\ MCFairness

\* The types hold, and the ledger's rows, the statement lines linked to them and what
\* has been paid agree (see LinksAgree).
BackOfficeSafe == BookTypeOK /\ MoneyTypeOK /\ LinksAgree

\* Each of the two converges once the changes stop: the cached book or the mirror to
\* NowCerts (see BooksConverge), the ledger to the statements (see LedgerConverges).
BackOfficeConverges == (part = "book" => BooksConverge) /\ (part = "money" => LedgerConverges)
=============================================================================
