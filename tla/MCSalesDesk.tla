------------------------------ MODULE MCSalesDesk ------------------------------
(* Small instances of what works on deals, quotes and submissions.  They share *)
(* no state that the models keep, so a behaviour is about the one that part     *)
(* names, and the others rest.                                                 *)
EXTENDS WonDeals, OpportunityBoard, NewDeals, QuoteDesk, ReviewDesk

CONSTANTS
    Parts,      \* the components that behaviours may be about
    deal1, ann, x1, x2, auto, opp1, spring, fall

VARIABLE part

-----------------------------------------------------------------------------
(* OpportunityBoard: one client and line of business; an empty board, and a    *)
(* pair that an earlier quote sync has left.                                   *)

MCOneLine == [q \in Quote |-> auto]
MCTypes == [q \in Quote |-> IF q = spring THEN "new" ELSE "renewal"]
MCTerms == [q \in Quote |-> IF q = spring THEN 1 ELSE 2]
MCOppLine == [o \in Opp |-> auto]
MCTwins(quote) ==
    [r \in Row |->
       CASE r = 1 -> [line |-> auto, type |-> "renewal", stage |-> "due", source |-> "crm", opp |-> Absent, quote |-> Absent]
         [] r = 2 -> [line |-> auto, type |-> "new", stage |-> "quoted", source |-> "quotes", opp |-> Absent, quote |-> quote]
         [] OTHER -> Absent]
MCBoards == {[r \in Row |-> Absent]} \cup {MCTwins(q) : q \in Quote}
MCCasts == {{"mirror", "quotes"}, {"quotes", "dedupe"}, {"mirror", "retire"}, {"quotes", "repair"}}

(* QuoteDesk: two carriers on one line, one of them without a premium yet, and *)
(* another line.                                                               *)

MCQuoteTerms == {[carrier |-> "c1", lob |-> "GL", premium |-> 3, effective |-> "d1"],
                 [carrier |-> "c2", lob |-> "GL", premium |-> 0, effective |-> ""],
                 [carrier |-> "c1", lob |-> "WC", premium |-> 2, effective |-> "d1"]}

(* ReviewDesk: a submission whose documents tell the X-date, not the address.   *)

MCDocuments == [Extracted -> {"june", "july", Blank}]
MCUploads == {<<d>> : d \in MCDocuments} \cup {<<[f \in Extracted |-> "june"], [f \in Extracted |-> "july"]>>}

-----------------------------------------------------------------------------
(* A component that the behaviour is not about starts in one state and stays.  *)

MCInit ==
    /\ part \in Parts
    /\ WonInit
    /\ (part # "won" => \A d \in Deals : ~deal[d].mirrored /\ ~deal[d].number /\ ~deal[d].insured)
    /\ Init
    /\ (part # "board" => /\ board = [r \in Row |-> Absent] /\ jobs = {"mirror", "quotes"} /\ register = Quote
                          /\ \A o \in Opp : ams[o] = [type |-> "new", stage |-> "quoted"])
    /\ NewDealsInit
    /\ QuoteInit
    /\ ReviewInit

MCAtRest(name, v) == IF part = name THEN TRUE ELSE UNCHANGED v

MCOthersRest ==
    /\ UNCHANGED part
    /\ MCAtRest("won", wonVars)
    /\ MCAtRest("board", vars)
    /\ MCAtRest("deals", dealVars)
    /\ MCAtRest("quotes", quoteVars)
    /\ MCAtRest("review", reviewVars)

MCNext ==
    \/ part = "won" /\ WonNext /\ MCOthersRest
    \/ part = "board" /\ Next /\ MCOthersRest
    \/ part = "deals" /\ NewDealsNext /\ MCOthersRest
    \/ part = "quotes" /\ QuoteNext /\ MCOthersRest
    \/ part = "review" /\ ReviewNext /\ MCOthersRest

MCVars == <<part, wonVars, vars, dealVars, quoteVars, reviewVars>>
MCSpec == MCInit /\ [][MCNext]_MCVars
=============================================================================
